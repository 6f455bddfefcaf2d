---------------------------- MODULE JournalProofs ----------------------------
(***************************************************************************)
(* Proofs about Journal, for every ring, every number of blocks per        *)
(* transaction and every number of crashes: type correctness on any        *)
(* device; with authentication, that a replay applies only what was        *)
(* logged, on any device; and on a device that writes through without      *)
(* errors, that live entries are kept and the write-ahead guarantee holds. *)
(***************************************************************************)
EXTENDS Journal, TLAPS

-----------------------------------------------------------------------------
(* Type correctness *)

RefSeqs  == UNION {RefsOf(n) : n \in 0..MaxRefs}
DataSeqs == UNION {PayloadsOf(n) : n \in 0..MaxRefs}

\* A transaction has one payload per block it logs.
Transactions ==
    {t \in [seq : Nat, refs : RefSeqs, data : DataSeqs] :
        Len(t.data) = Len(t.refs)}

Staging == UNION {[1..n -> Values \union {NoValue}] : n \in 0..MaxRefs}

\* The cursor of journal_replay and the payload it has staged.
Cursors ==
    {r \in [pos : Ring, seq : Nat, refs : RefSeqs, data : Staging,
            i : 1..(MaxRefs + 1), ok : BOOLEAN] :
        Len(r.data) = Len(r.refs)}

\* A data block holds one block of metadata.
SoundBlocks == {b \in Blocks : b.type = "data" => Len(b.data) >= 1}

Phases ==
    {"off", "zero", "zeroring", "format", "unjournaled", "scan", "apply",
     "mounted", "idle", "meta", "data", "commit", "sb"}

DeviceInv ==
    /\ dsb \in Superblocks /\ vsb \in Superblocks
    /\ ring \in [Ring -> SoundBlocks] /\ vring \in [Ring -> SoundBlocks]
    /\ home \in Contents /\ vhome \in Contents

\* The replay cursor counts the blocks of a commit too: a commit runs through
\* the payload of its own transaction.
RamInv ==
    /\ jsb \in Superblocks
    /\ current \in Nat
    /\ dirty \in BOOLEAN
    /\ pc \in Phases
    /\ txn \in Transactions
    /\ unsaved \subseteq Targets
    /\ rp \in Cursors
    /\ cause \in {"none", "replay", "failed", "format"}
    /\ pc = "data" => rp.i <= Len(txn.data)
    /\ pc = "meta" => Len(txn.data) >= 1

HistoryInv ==
    /\ logical \in Contents /\ inflight \in Contents
    /\ errors \in 0..MaxErrors

\* TypeOK is not inductive; this is.
TypeInv == DeviceInv /\ RamInv /\ HistoryInv

LEMMA RefFacts ==
    ASSUME NEW r \in RefSeqs
    PROVE  /\ r \in Seq(Targets) /\ Len(r) \in 0..MaxRefs
           /\ r \in [1..Len(r) -> Targets] /\ DOMAIN r = 1..Len(r)
           /\ \A i, k \in 1..Len(r) : r[i] = r[k] => i = k
<1>1. PICK n \in 0..MaxRefs : r \in RefsOf(n)
    BY DEF RefSeqs
<1>2. r \in [1..n -> Targets] /\ \A i, k \in 1..n : r[i] = r[k] => i = k
    BY <1>1 DEF RefsOf
<1>3. n \in Nat
    BY JournalAssumption
<1>4. Len(r) = n
    BY <1>2, <1>3
<1> QED
    BY <1>2, <1>3, <1>4

LEMMA RefIntro ==
    ASSUME NEW n \in 0..MaxRefs, NEW r \in [1..n -> Targets],
           \A i, k \in 1..n : r[i] = r[k] => i = k
    PROVE  r \in RefSeqs /\ Len(r) = n
<1>1. r \in RefsOf(n)
    BY DEF RefsOf
<1>2. n \in Nat
    BY JournalAssumption
<1> QED
    BY <1>1, <1>2 DEF RefSeqs

LEMMA DataFacts ==
    ASSUME NEW d \in DataSeqs
    PROVE  /\ d \in Seq(Values) /\ Len(d) \in 0..MaxRefs
           /\ d \in [1..Len(d) -> Values]
<1>1. PICK n \in 0..MaxRefs : d \in [1..n -> Values]
    BY DEF DataSeqs, PayloadsOf
<1>2. n \in Nat
    BY JournalAssumption
<1> QED
    BY <1>1, <1>2

LEMMA DataIntro ==
    ASSUME NEW n \in 0..MaxRefs, NEW d \in [1..n -> Values]
    PROVE  d \in DataSeqs /\ Len(d) = n
<1>1. n \in Nat
    BY JournalAssumption
<1> QED
    BY <1>1 DEF DataSeqs, PayloadsOf

LEMMA StagingIntro ==
    ASSUME NEW n \in 0..MaxRefs, NEW d \in [1..n -> Values \union {NoValue}]
    PROVE  d \in Staging /\ Len(d) = n
<1>1. n \in Nat
    BY JournalAssumption
<1> QED
    BY <1>1 DEF Staging

LEMMA StagingFacts ==
    ASSUME NEW d \in Staging
    PROVE  Len(d) \in 0..MaxRefs /\ d \in [1..Len(d) -> Values \union {NoValue}]
<1>1. PICK n \in 0..MaxRefs : d \in [1..n -> Values \union {NoValue}]
    BY DEF Staging
<1>2. n \in Nat
    BY JournalAssumption
<1> QED
    BY <1>1, <1>2

LEMMA EmptySeqs ==
    <<>> \in RefSeqs /\ <<>> \in DataSeqs /\ <<>> \in Staging /\ Len(<<>>) = 0
<1>1. 0 \in 0..MaxRefs
    BY JournalAssumption
<1>2. <<>> \in [1..0 -> Targets] /\ <<>> \in [1..0 -> Values]
      /\ <<>> \in [1..0 -> Values \union {NoValue}]
    OBVIOUS
<1>a. \A i, k \in 1..0 : <<>>[i] = <<>>[k] => i = k
    OBVIOUS
<1>3. <<>> \in RefSeqs /\ Len(<<>>) = 0
    BY <1>1, <1>2, <1>a, RefIntro
<1>4. <<>> \in DataSeqs
    BY <1>1, <1>2, DataIntro
<1>5. <<>> \in Staging
    BY <1>1, <1>2, StagingIntro
<1> QED
    BY <1>3, <1>4, <1>5

LEMMA BlockIntro ==
    ASSUME NEW y \in {"zero", "meta", "data", "commit"}, NEW q \in Nat,
           NEW r \in RefSeqs, NEW d \in DataSeqs, y = "data" => Len(d) >= 1
    PROVE  Block(y, q, r, d) \in SoundBlocks
<1>1. Blocks = [type : {"zero", "meta", "data", "commit"}, seq : Nat,
                refs : RefSeqs, data : DataSeqs]
    BY DEF Blocks, RefSeqs, DataSeqs
<1> QED
    BY <1>1 DEF Block, SoundBlocks

LEMMA Wraps == \A x \in Nat : x % RingSize \in Ring
BY JournalAssumption DEF Ring

LEMMA Constants ==
    /\ Unformatted \in Superblocks
    /\ ZeroBlock \in SoundBlocks
    /\ NoTxn \in Transactions
    /\ NoReplay \in Cursors
<1>1. 0 \in Ring /\ 1 \in 1..(MaxRefs + 1)
    BY JournalAssumption DEF Ring
<1>2. Unformatted \in Superblocks
    BY <1>1 DEF Unformatted, Superblocks
<1>3. ZeroBlock \in SoundBlocks
    BY EmptySeqs DEF ZeroBlock, Block, SoundBlocks, Blocks, RefSeqs, DataSeqs
<1>4. NoTxn \in Transactions
    BY EmptySeqs DEF NoTxn, Transactions
<1>5. NoReplay \in Cursors
    BY <1>1, EmptySeqs DEF NoReplay, Cursors
<1> QED
    BY <1>2, <1>3, <1>4, <1>5

\* The blocks of a commit.
LEMMA EntryBlocks ==
    ASSUME NEW t \in Transactions
    PROVE  /\ MetaBlock(t) \in SoundBlocks /\ CommitBlock(t) \in SoundBlocks
           /\ \A i \in 1..Len(t.data) : DataBlock(t.data[i]) \in SoundBlocks
<1>1. t.seq \in Nat /\ t.refs \in RefSeqs /\ t.data \in DataSeqs
    BY DEF Transactions
<1>2. MetaBlock(t) \in SoundBlocks
    BY <1>1, EmptySeqs DEF MetaBlock, Block, SoundBlocks, Blocks, RefSeqs, DataSeqs
<1>3. CommitBlock(t) \in SoundBlocks
    BY <1>1, EmptySeqs DEF CommitBlock, Block, SoundBlocks, Blocks, RefSeqs, DataSeqs
<1>4. ASSUME NEW i \in 1..Len(t.data)
      PROVE  DataBlock(t.data[i]) \in SoundBlocks
    <2>1. t.data[i] \in Values
        BY <1>1, DataFacts
    <2>2. <<t.data[i]>> \in [1..1 -> Values] /\ 1 \in 0..MaxRefs
        BY <2>1, JournalAssumption
    <2>3. <<t.data[i]>> \in DataSeqs /\ Len(<<t.data[i]>>) = 1
        BY <2>2, DataIntro
    <2> DEFINE d == <<t.data[i]>>
    <2>4. d \in DataSeqs /\ Len(d) = 1
        BY <2>3
    <2> HIDE DEF d
    <2>5. <<>> \in RefSeqs /\ 0 \in Nat
        BY EmptySeqs
    <2>6. Len(d) >= 1 /\ d \in DataSeqs
        BY <2>4
    <2>7. Block("data", 0, <<>>, d) \in SoundBlocks
        BY ONLY <2>5, <2>6, BlockIntro
    <2> QED
        BY <2>7 DEF d, DataBlock
<1> QED
    BY <1>2, <1>3, <1>4

LEMMA ContentType ==
    ASSUME NEW b \in SoundBlocks
    PROVE  Content(b) \in Values \union {NoValue}
<1>1. b.data \in DataSeqs
    BY DEF SoundBlocks, Blocks, DataSeqs
<1>2. CASE b.type = "data"
    <2>1. Len(b.data) >= 1 /\ b.data \in [1..Len(b.data) -> Values] /\ Len(b.data) \in Nat
        BY <1>1, <1>2, DataFacts DEF SoundBlocks
    <2> QED
        BY <1>2, <2>1 DEF Content
<1> QED
    BY <1>2 DEF Content

LEMMA BlockFacts ==
    ASSUME NEW b \in SoundBlocks
    PROVE  b.seq \in Nat /\ b.refs \in RefSeqs /\ Len(b.refs) \in 0..MaxRefs
           /\ b.type \in {"zero", "meta", "data", "commit"}
           /\ b.data \in DataSeqs
<1>1. b.seq \in Nat /\ b.refs \in RefSeqs /\ b.type \in {"zero", "meta", "data", "commit"} /\ b.data \in DataSeqs
    BY DEF SoundBlocks, Blocks, RefSeqs, DataSeqs
<1> QED
    BY <1>1, RefFacts

\* What the device does keeps its types.
LEMMA PutSbType ==
    ASSUME DeviceInv, NEW s \in Superblocks, PutSb(s)
    PROVE  DeviceInv'
BY DEF DeviceInv, PutSb

LEMMA PutRingType ==
    ASSUME DeviceInv, NEW k \in Ring, NEW b \in SoundBlocks, PutRing(k, b)
    PROVE  DeviceInv'
BY DEF DeviceInv, PutRing

LEMMA PutHomeType ==
    ASSUME DeviceInv, NEW t \in Targets, NEW v \in Values \union {NoValue}, PutHome(t, v)
    PROVE  DeviceInv'
BY DEF DeviceInv, PutHome, Contents

LEMMA DeviceKept ==
    ASSUME DeviceInv, UNCHANGED deviceVars
    PROVE  DeviceInv'
BY DEF DeviceInv, deviceVars

LEMMA ErrorsType ==
    ASSUME errors \in 0..MaxErrors, Error
    PROVE  errors' \in 0..MaxErrors
BY JournalAssumption DEF Error

LEMMA StagedType ==
    ASSUME DeviceInv, NEW k \in Ring, NEW n \in 0..MaxRefs
    PROVE  Staged(k, n) \in Staging /\ Len(Staged(k, n)) = n
<1>1. \A i \in 1..n : (k + i) % RingSize \in Ring
    BY Wraps DEF Ring
<1>2. \A i \in 1..n : Content(vring[(k + i) % RingSize]) \in Values \union {NoValue}
    BY <1>1, ContentType DEF DeviceInv
<1>3. Staged(k, n) \in [1..n -> Values \union {NoValue}]
    BY <1>2 DEF Staged
<1> QED
    BY <1>3, StagingIntro

LEMMA ApplyType ==
    ASSUME NEW c \in Contents, NEW t \in Transactions
    PROVE  Apply(c, t) \in Contents
<1>1. t.refs \in RefSeqs /\ t.data \in DataSeqs /\ Len(t.data) = Len(t.refs)
    BY DEF Transactions
<1>2. DOMAIN t.refs = 1..Len(t.refs) /\ t.data \in [1..Len(t.refs) -> Values]
      /\ Len(t.refs) \in Nat
    BY <1>1, RefFacts, DataFacts
<1>3. ASSUME NEW x \in Targets
      PROVE  LET hits == {i \in DOMAIN t.refs : t.refs[i] = x}
             IN  (IF hits = {} THEN c[x]
                  ELSE t.data[CHOOSE i \in hits : \A k \in hits : k <= i])
                 \in Values \union {NoValue}
    <2> DEFINE hits == {i \in DOMAIN t.refs : t.refs[i] = x}
    <2>1. CASE hits = {}
        BY <2>1 DEF Contents
    <2>2. CASE hits # {}
        <3>1. \E i \in hits : \A k \in hits : k <= i
            BY <2>2, <1>1, <1>2, RefFacts
        <3>2. (CHOOSE i \in hits : \A k \in hits : k <= i) \in hits
            BY <3>1
        <3>3. hits \subseteq 1..Len(t.refs)
            BY <1>2
        <3> HIDE DEF hits
        <3>4. t.data[CHOOSE i \in hits : \A k \in hits : k <= i] \in Values
            BY <3>2, <3>3, <1>2
        <3> QED
            BY <3>4, <2>2 DEF hits
    <2> QED
        BY <2>1, <2>2
<1> QED
    BY <1>3 DEF Apply, Contents

LEMMA TypeInit == Init => TypeInv
<1> SUFFICES ASSUME Init PROVE TypeInv
    OBVIOUS
<1>1. home \in Contents
    BY JournalAssumption DEF Init, Contents
<1>2. DeviceInv
    BY <1>1, Constants DEF Init, DeviceInv
<1>3. RamInv
    BY Constants DEF Init, RamInv, Phases
<1>4. HistoryInv
    BY <1>1, JournalAssumption DEF Init, HistoryInv
<1> QED
    BY <1>2, <1>3, <1>4 DEF TypeInv

\* Advancing a cursor or a superblock within the ring.
LEMMA SuccType == \A k \in Ring : Succ(k) \in Ring
BY Wraps DEF Ring, Succ

LEMMA CursorMoves ==
    ASSUME NEW r \in Cursors, NEW k \in Ring, NEW b \in BOOLEAN
    PROVE  /\ [r EXCEPT !.pos = k] \in Cursors
           /\ [r EXCEPT !.pos = k, !.ok = b] \in Cursors
           /\ r.i <= MaxRefs => [r EXCEPT !.i = @ + 1] \in Cursors
<1>1. r = [pos |-> r.pos, seq |-> r.seq, refs |-> r.refs, data |-> r.data,
           i |-> r.i, ok |-> r.ok]
      /\ r.seq \in Nat /\ r.refs \in RefSeqs /\ r.data \in Staging /\ r.pos \in Ring
      /\ r.i \in 1..(MaxRefs + 1) /\ r.ok \in BOOLEAN /\ Len(r.data) = Len(r.refs)
    BY DEF Cursors
<1>2. [r EXCEPT !.pos = k] \in Cursors
    BY <1>1 DEF Cursors
<1>3. [r EXCEPT !.pos = k, !.ok = b] \in Cursors
    BY <1>1 DEF Cursors
<1>4. ASSUME r.i <= MaxRefs PROVE [r EXCEPT !.i = @ + 1] \in Cursors
    <2>1. r.i + 1 \in 1..(MaxRefs + 1)
        BY <1>1, <1>4, JournalAssumption
    <2> QED
        BY <1>1, <2>1 DEF Cursors
<1> QED
    BY <1>2, <1>3, <1>4

LEMMA Released ==
    ASSUME NEW s \in Superblocks
    PROVE  LET u == [s EXCEPT !.tail = s.head, !.seq = @ + 1]
           IN  u \in Superblocks /\ u.seq \in Nat
<1>1. s.head \in Ring /\ s.seq + 1 \in Nat
    BY DEF Superblocks
<1> QED
    BY <1>1 DEF Superblocks

LEMMA CursorFacts ==
    ASSUME NEW r \in Cursors
    PROVE  /\ r.pos \in Ring /\ r.seq \in Nat /\ r.refs \in RefSeqs
           /\ r.data \in Staging /\ Len(r.data) = Len(r.refs)
           /\ Len(r.refs) \in 0..MaxRefs
           /\ r.i \in 1..(MaxRefs + 1) /\ r.i \in Nat /\ r.ok \in BOOLEAN
<1>1. /\ r.pos \in Ring /\ r.seq \in Nat /\ r.refs \in RefSeqs
      /\ r.data \in Staging /\ Len(r.data) = Len(r.refs)
      /\ r.i \in 1..(MaxRefs + 1) /\ r.ok \in BOOLEAN
    BY DEF Cursors
<1>2. Len(r.refs) \in 0..MaxRefs
    BY <1>1, RefFacts
<1> QED
    BY <1>1, <1>2, JournalAssumption

LEMMA TxnFacts ==
    ASSUME NEW t \in Transactions
    PROVE  /\ t.seq \in Nat /\ t.refs \in RefSeqs /\ t.data \in DataSeqs
           /\ Len(t.data) = Len(t.refs) /\ Len(t.refs) \in 0..MaxRefs
           /\ Len(t.refs) \in Nat
           /\ t.refs \in [1..Len(t.refs) -> Targets]
           /\ DOMAIN t.refs = 1..Len(t.refs)
           /\ \A i, k \in 1..Len(t.refs) : t.refs[i] = t.refs[k] => i = k
           /\ t.data \in [1..Len(t.refs) -> Values]
<1>1. t.seq \in Nat /\ t.refs \in RefSeqs /\ t.data \in DataSeqs /\ Len(t.data) = Len(t.refs)
    BY DEF Transactions
<1>2. Len(t.refs) \in 0..MaxRefs /\ t.data \in [1..Len(t.refs) -> Values]
    BY <1>1, RefFacts, DataFacts
<1> QED
    BY <1>1, <1>2, RefFacts

LEMMA SubRefs ==
    ASSUME NEW r \in RefSeqs, NEW n \in Nat, n <= Len(r)
    PROVE  SubSeq(r, 1, n) \in RefSeqs /\ Len(SubSeq(r, 1, n)) = n
<1>1. /\ r \in [1..Len(r) -> Targets] /\ Len(r) \in 0..MaxRefs
      /\ \A i, k \in 1..Len(r) : r[i] = r[k] => i = k
    BY RefFacts
<1> DEFINE s == SubSeq(r, 1, n)
<1>2. s = [i \in 1..n |-> r[i]]
    BY <1>1
<1>4. n \in 0..MaxRefs /\ 1..n \subseteq 1..Len(r)
    BY <1>1, JournalAssumption
<1> HIDE DEF s
<1>3. s \in [1..n -> Targets] /\ \A i, k \in 1..n : s[i] = s[k] => i = k
    BY <1>1, <1>2, <1>4
<1>5. s \in RefSeqs /\ Len(s) = n
    BY <1>3, <1>4, RefIntro
<1> QED
    BY <1>5 DEF s

LEMMA NewTransaction ==
    ASSUME NEW n \in 1..MaxRefs, NEW refs \in RefsOf(n), NEW data \in PayloadsOf(n),
           NEW q \in Nat
    PROVE  Entry(q, refs, data) \in Transactions /\ Len(refs) = n /\ Len(data) = n
<1>1. n \in 0..MaxRefs /\ refs \in [1..n -> Targets] /\ data \in [1..n -> Values]
      /\ \A i, k \in 1..n : refs[i] = refs[k] => i = k
    BY JournalAssumption DEF RefsOf, PayloadsOf
<1>2. refs \in RefSeqs /\ Len(refs) = n
    BY <1>1, RefIntro
<1>3. data \in DataSeqs /\ Len(data) = n
    BY <1>1, DataIntro
<1> QED
    BY <1>2, <1>3 DEF Entry, Transactions

LEMMA TypeNext == TypeInv /\ [Next]_vars => TypeInv'
<1> SUFFICES ASSUME TypeInv, [Next]_vars PROVE TypeInv'
    OBVIOUS
<1> USE DEF TypeInv
<1>a. rp.pos \in Ring /\ rp.i \in Nat /\ txn \in Transactions /\ rp \in Cursors /\ jsb \in Superblocks /\ vsb \in Superblocks
    BY CursorFacts DEF RamInv, DeviceInv
<1>b. jsb.head \in Ring /\ jsb.tail \in Ring /\ jsb.seq \in Nat
    BY <1>a DEF Superblocks
<1>1. CASE Crash
    <2>1. DeviceInv'
        <3>1. dsb' \in Superblocks /\ vsb' \in Superblocks
            BY <1>1 DEF Crash, DeviceInv
        <3>2. ring' \in [Ring -> SoundBlocks] /\ vring' \in [Ring -> SoundBlocks]
            BY <1>1 DEF Crash, DeviceInv
        <3>3. home' \in Contents /\ vhome' \in Contents
            BY <1>1 DEF Crash, DeviceInv, Contents
        <3> QED
            BY <3>1, <3>2, <3>3 DEF DeviceInv
    <2>2. RamInv' /\ HistoryInv'
        BY <1>1, Constants DEF Crash, PowerOff, RamInv, HistoryInv, historyVars, Phases
    <2> QED
        BY <2>1, <2>2
<1>2. CASE Reboot
    <2>1. DeviceInv'
        BY <1>2, DeviceKept DEF Reboot
    <2>2. RamInv' /\ HistoryInv'
        BY <1>2, Constants DEF Reboot, PowerOff, RamInv, HistoryInv, historyVars, Phases
    <2> QED
        BY <2>1, <2>2
<1>3. CASE Mount
    <2>1. DeviceInv'
        BY <1>3, DeviceKept DEF Mount
    <2>2. vsb.tail \in Ring /\ vsb.seq \in Nat
        BY <1>a DEF Superblocks
    <2>3. rp' \in Cursors
        BY <1>3, <2>2, Constants, CursorMoves DEF Mount
    <2>4. RamInv' /\ HistoryInv'
        BY <1>3, <1>a, <2>2, <2>3 DEF Mount, RamInv, HistoryInv, historyVars, Phases
    <2> QED
        BY <2>1, <2>4
<1>4. CASE MountFormat
    <2>1. DeviceInv'
        BY <1>4, DeviceKept DEF MountFormat
    <2>2. errors' \in 0..MaxErrors
        BY <1>4, ErrorsType DEF MountFormat, HistoryInv
    <2>3. 0 \in Ring
        BY JournalAssumption DEF Ring
    <2>4. jsb' \in Superblocks
        BY <1>4, <2>3 DEF MountFormat, Superblocks
    <2>5. RamInv' /\ HistoryInv'
        BY <1>4, <2>2, <2>4 DEF MountFormat, RamInv, HistoryInv, historyVars, Phases
    <2> QED
        BY <2>1, <2>5
<1>5. CASE FormatZeroSb
    <2>1. DeviceInv'
        BY <1>5, DeviceKept, PutSbType, Constants DEF FormatZeroSb, Ignoring
    <2>2. errors' \in 0..MaxErrors
        BY <1>5, ErrorsType DEF FormatZeroSb, HistoryInv, Ignoring
    <2>3. RamInv' /\ HistoryInv'
        BY <1>5, <2>2, Constants DEF FormatZeroSb, RamInv, HistoryInv, historyVars, Phases
    <2> QED
        BY <2>1, <2>3
<1>6. CASE FormatZero
    <2>1. DeviceInv'
        BY <1>6, <1>a, DeviceKept, PutRingType, Constants DEF FormatZero, Ignoring
    <2>2. errors' \in 0..MaxErrors
        BY <1>6, ErrorsType DEF FormatZero, HistoryInv, Ignoring
    <2>3. rp' \in Cursors
        BY <1>6, <1>a, SuccType, CursorMoves DEF FormatZero
    <2>4. RamInv' /\ HistoryInv'
        BY <1>6, <2>2, <2>3 DEF FormatZero, RamInv, HistoryInv, historyVars, Phases
    <2> QED
        BY <2>1, <2>4
<1>7. CASE FormatDone
    <2>1. DeviceInv'
        BY <1>7, <1>a, PutSbType DEF FormatDone
    <2>2. RamInv' /\ HistoryInv'
        BY <1>7, <1>b DEF FormatDone, RamInv, HistoryInv, historyVars, Phases
    <2> QED
        BY <2>1, <2>2
<1>8. CASE FormatFailed
    <2>1. DeviceInv'
        BY <1>8, DeviceKept DEF FormatFailed
    <2>2. errors' \in 0..MaxErrors
        BY <1>8, ErrorsType DEF FormatFailed, HistoryInv
    <2>3. RamInv' /\ HistoryInv'
        BY <1>8, <2>2 DEF FormatFailed, RamInv, HistoryInv, historyVars, ramVars, Phases
    <2> QED
        BY <2>1, <2>3
<1>9. CASE SkipCommit
    <2>1. DeviceInv'
        BY <1>9, DeviceKept DEF SkipCommit
    <2>2. rp' \in Cursors
        BY <1>9, <1>a, SuccType, CursorMoves DEF SkipCommit
    <2>3. RamInv' /\ HistoryInv'
        BY <1>9, <2>2 DEF SkipCommit, Scanning, RamInv, HistoryInv, historyVars, Phases
    <2> QED
        BY <2>1, <2>3
<1>10. CASE ScanLegacy
    <2>1. DeviceInv'
        BY <1>10, DeviceKept DEF ScanLegacy
    <2> DEFINE h == vring[rp.pos]
               a == Distance(Succ(rp.pos), jsb.head)
               n == IF Len(h.refs) < a THEN Len(h.refs) ELSE a
    <2>2. h.seq \in Nat /\ h.refs \in RefSeqs /\ Len(h.refs) \in 0..MaxRefs
        BY <1>a, BlockFacts DEF DeviceInv
    <2>3. Succ(rp.pos) \in Ring
        BY <1>a, SuccType
    <2>3a. jsb.head + RingSize - Succ(rp.pos) \in Nat
        BY <2>3, <1>b, JournalAssumption DEF Ring
    <2>3b. a \in Nat
        BY <2>3a, Wraps DEF Distance, Ring
    <2>4. n \in 0..MaxRefs /\ n <= Len(h.refs)
        BY <2>2, <2>3b, JournalAssumption
    <2>5. SubSeq(h.refs, 1, n) \in RefSeqs /\ Len(SubSeq(h.refs, 1, n)) = n
        BY <2>2, <2>4, SubRefs
    <2>6. Staged(rp.pos, n) \in Staging /\ Len(Staged(rp.pos, n)) = n
        BY <1>a, <2>4, StagedType
    <2>c. rp.pos + n + 1 \in Nat
        BY <1>a, <2>4 DEF Ring
    <2>7. (rp.pos + n + 1) % RingSize \in Ring
        BY <2>c, Wraps
    <2>7a. rp.ok \in BOOLEAN /\ 1 \in 1..(MaxRefs + 1)
        BY <1>a, CursorFacts, JournalAssumption
    <2>7b. rp' = [pos |-> (rp.pos + n + 1) % RingSize, seq |-> h.seq,
                  refs |-> SubSeq(h.refs, 1, n), data |-> Staged(rp.pos, n),
                  i |-> 1, ok |-> rp.ok]
        BY <1>10 DEF ScanLegacy
    <2> HIDE DEF n, h
    <2>8. rp' \in Cursors
        BY <2>2, <2>5, <2>6, <2>7, <2>7a, <2>7b DEF Cursors
    <2>9. RamInv' /\ HistoryInv'
        BY <1>10, <2>8 DEF ScanLegacy, RamInv, HistoryInv, historyVars, Phases
    <2> QED
        BY <2>1, <2>9
<1>11. CASE ScanAuth
    <2>1. DeviceInv'
        BY <1>11, DeviceKept DEF ScanAuth
    <2> DEFINE h == vring[rp.pos]
               n == Len(h.refs)
    <2>2. h.seq \in Nat /\ h.refs \in RefSeqs /\ n \in 0..MaxRefs
        BY <1>a, BlockFacts DEF DeviceInv
    <2>6. Staged(rp.pos, n) \in Staging /\ Len(Staged(rp.pos, n)) = n
        BY <1>a, <2>2, StagedType
    <2>c. rp.pos + n + 2 \in Nat
        BY <1>a, <2>2 DEF Ring
    <2>7. (rp.pos + n + 2) % RingSize \in Ring
        BY <2>c, Wraps
    <2>7a. rp.ok \in BOOLEAN /\ 1 \in 1..(MaxRefs + 1)
        BY <1>a, CursorFacts, JournalAssumption
    <2>7b. rp' = [pos |-> (rp.pos + n + 2) % RingSize, seq |-> h.seq,
                  refs |-> h.refs, data |-> Staged(rp.pos, n),
                  i |-> 1, ok |-> rp.ok]
        BY <1>11 DEF ScanAuth
    <2>7c. Len(h.refs) = n
        OBVIOUS
    <2> HIDE DEF n, h
    <2>8. rp' \in Cursors
        BY <2>2, <2>6, <2>7, <2>7a, <2>7b, <2>7c DEF Cursors
    <2>9. RamInv' /\ HistoryInv'
        BY <1>11, <2>8 DEF ScanAuth, RamInv, HistoryInv, historyVars, Phases
    <2> QED
        BY <2>1, <2>9
<1>12. CASE ApplyBlock
    <2>1. rp.i \in 1..Len(rp.refs) /\ Len(rp.refs) \in 0..MaxRefs
        BY <1>12, <1>a, CursorFacts DEF ApplyBlock
    <2>2. rp.refs[rp.i] \in Targets /\ rp.data[rp.i] \in Values \union {NoValue}
        BY <2>1, <1>a, CursorFacts, RefFacts, StagingFacts
    <2>3. DeviceInv'
        BY <1>12, <2>2, DeviceKept, PutHomeType DEF ApplyBlock, Ignoring
    <2>4. errors' \in 0..MaxErrors
        BY <1>12, ErrorsType DEF ApplyBlock, HistoryInv, Ignoring
    <2>5. rp' \in Cursors
        <3>1. rp.i <= MaxRefs /\ TRUE \in BOOLEAN
            BY <2>1, JournalAssumption
        <3>2. [rp EXCEPT !.i = @ + 1] \in Cursors
            BY <3>1, <1>a, CursorMoves
        <3> QED
            BY <3>2, <1>12 DEF ApplyBlock
    <2>6. RamInv' /\ HistoryInv'
        BY <1>12, <2>4, <2>5 DEF ApplyBlock, RamInv, HistoryInv, historyVars, Phases
    <2> QED
        BY <2>3, <2>6
<1>13. CASE EntryApplied
    <2>1. DeviceInv'
        BY <1>13, DeviceKept DEF EntryApplied
    <2>2. RamInv' /\ HistoryInv'
        BY <1>13 DEF EntryApplied, RamInv, HistoryInv, historyVars, ramVars, Phases
    <2> QED
        BY <2>1, <2>2
<1>14. CASE ScanBreaks
    <2>1. PICK ok \in BOOLEAN : StopScan(ok)
        BY <1>14, <1>a, CursorFacts DEF ScanBreaks
    <2>2. DeviceInv'
        BY <2>1, DeviceKept DEF StopScan
    <2>3. errors' \in 0..MaxErrors
        BY <1>14, ErrorsType DEF ScanBreaks, HistoryInv
    <2>4. rp' \in Cursors
        BY <2>1, <1>a, <1>b, CursorMoves DEF StopScan
    <2>5. pc = "scan"
        BY <1>14 DEF ScanBreaks, Scanning
    <2>6. RamInv' /\ HistoryInv'
        BY <2>1, <2>3, <2>4, <2>5 DEF StopScan, RamInv, HistoryInv, historyVars, Phases
    <2> QED
        BY <2>2, <2>6
<1>15. CASE ReplayDone
    <2>1. jsb' \in Superblocks /\ jsb'.seq \in Nat
        BY <1>15, <1>a, Released DEF ReplayDone
    <2>2. DeviceInv'
        BY <1>15, <2>1, DeviceKept, PutSbType DEF ReplayDone, Ignoring
    <2>3. errors' \in 0..MaxErrors
        BY <1>15, ErrorsType DEF ReplayDone, HistoryInv, Ignoring
    <2>4. RamInv' /\ HistoryInv'
        BY <1>15, <2>1, <2>3, Constants DEF ReplayDone, RamInv, HistoryInv, historyVars, Phases
    <2> QED
        BY <2>2, <2>4
<1>16. CASE StartUse
    <2>1. DeviceInv'
        BY <1>16, DeviceKept DEF StartUse
    <2>2. RamInv' /\ HistoryInv'
        BY <1>16 DEF StartUse, RamInv, HistoryInv, DeviceInv, ramVars, Phases
    <2> QED
        BY <2>1, <2>2
<1>17. ASSUME NEW n \in 1..MaxRefs, NEW refs \in RefsOf(n), NEW data \in PayloadsOf(n),
              Begin(refs, data)
       PROVE  TypeInv'
    <2>1. DeviceInv'
        BY <1>17, DeviceKept DEF Begin
    <2>2. current \in Nat /\ Entry(current, refs, data) \in Transactions /\ Len(data) = n
        BY NewTransaction DEF RamInv
    <2>3. txn' \in Transactions /\ Len(txn'.data) >= 1
        BY <1>17, <2>2 DEF Begin, Entry
    <2>4. inflight' \in Contents
        BY <1>17, <2>3, ApplyType DEF Begin, HistoryInv
    <2>5. RamInv' /\ HistoryInv'
        BY <1>17, <2>2, <2>3, <2>4 DEF Begin, RamInv, HistoryInv, Phases
    <2> QED
        BY <2>1, <2>5
<1>18. CASE Refused
    <2>1. DeviceInv'
        BY <1>18, DeviceKept DEF Refused
    <2>2. RamInv' /\ HistoryInv'
        BY <1>18 DEF Refused, RamInv, HistoryInv, historyVars, Phases
    <2> QED
        BY <2>1, <2>2
<1>19. ASSUME NEW b \in SoundBlocks, NEW next \in Phases, AppendBlock(b, next)
       PROVE  DeviceInv' /\ HistoryInv' /\ jsb' \in Superblocks
    <2>1. DeviceInv'
        BY <1>19, <1>b, DeviceKept, PutRingType DEF AppendBlock, Ignoring
    <2>2. errors' \in 0..MaxErrors
        BY <1>19, ErrorsType DEF AppendBlock, HistoryInv, Ignoring
    <2>3. jsb' \in Superblocks
        BY <1>19, <1>a, <1>b, SuccType DEF AppendBlock, Superblocks
    <2> QED
        BY <1>19, <2>1, <2>2, <2>3 DEF AppendBlock, HistoryInv, historyVars
<1>20. CASE CommitMeta
    <2>1. MetaBlock(txn) \in SoundBlocks /\ "data" \in Phases
        BY <1>a, EntryBlocks DEF Phases
    <2>2. DeviceInv' /\ HistoryInv' /\ jsb' \in Superblocks
        BY <1>20, <2>1, <1>19 DEF CommitMeta
    <2>3. RamInv'
        BY <1>20, <2>2, Constants DEF CommitMeta, AppendBlock, RamInv, Phases, NoReplay
    <2> QED
        BY <2>2, <2>3
<1>21. CASE CommitData
    <2>1. rp.i \in 1..Len(txn.data) /\ Len(txn.data) \in 0..MaxRefs
        BY <1>21, <1>a, CursorFacts, TxnFacts DEF CommitData, RamInv
    <2>2. DataBlock(txn.data[rp.i]) \in SoundBlocks
        BY <1>a, <2>1, EntryBlocks
    <2> DEFINE next == IF rp.i < Len(txn.data) THEN "data" ELSE "commit"
    <2>3. next \in Phases
        BY DEF Phases
    <2>4. DeviceInv' /\ HistoryInv' /\ jsb' \in Superblocks
        BY <1>21, <2>2, <2>3, <1>19 DEF CommitData
    <2>5. rp' \in Cursors /\ rp'.i = rp.i + 1
        <3>1. rp.i <= MaxRefs /\ TRUE \in BOOLEAN
            BY <2>1, JournalAssumption
        <3>2. [rp EXCEPT !.i = @ + 1] \in Cursors
            BY <3>1, <1>a, CursorMoves
        <3>3. rp' = [rp EXCEPT !.i = @ + 1]
            BY <1>21 DEF CommitData
        <3>4. [rp EXCEPT !.i = @ + 1].i = rp.i + 1
            BY <1>a DEF Cursors
        <3> QED
            BY <3>2, <3>3, <3>4
    <2>6. pc' = next /\ txn' = txn
        BY <1>21 DEF CommitData, AppendBlock
    <2>7. pc' = "data" => rp'.i <= Len(txn'.data)
        BY <2>1, <2>5, <2>6, <1>a, CursorFacts
    <2>8. RamInv'
        BY <1>21, <2>4, <2>5, <2>6, <2>7, <2>3 DEF CommitData, AppendBlock, RamInv
    <2> QED
        BY <2>4, <2>8
<1>22. CASE CommitMark
    <2>1. CommitBlock(txn) \in SoundBlocks /\ "sb" \in Phases
        BY <1>a, EntryBlocks DEF Phases
    <2>2. DeviceInv' /\ HistoryInv' /\ jsb' \in Superblocks
        BY <1>22, <2>1, <1>19 DEF CommitMark
    <2>3. RamInv'
        BY <1>22, <2>2, Constants DEF CommitMark, AppendBlock, RamInv, Phases
    <2> QED
        BY <2>2, <2>3
<1>23. CASE CommitDone
    <2>1. DeviceInv'
        BY <1>23, <1>a, DeviceKept, PutSbType DEF CommitDone, Ignoring
    <2>2. errors' \in 0..MaxErrors
        BY <1>23, ErrorsType DEF CommitDone, HistoryInv, Ignoring
    <2>3. {txn.refs[i] : i \in DOMAIN txn.refs} \subseteq Targets
        BY <1>a, TxnFacts
    <2>4. RamInv' /\ HistoryInv'
        BY <1>23, <2>2, <2>3, Constants DEF CommitDone, RamInv, HistoryInv, Phases
    <2> QED
        BY <2>1, <2>4
<1>24. ASSUME NEW t \in Targets, WriteHome(t)
       PROVE  TypeInv'
    <2>1. logical[t] \in Values \union {NoValue}
        BY DEF HistoryInv, Contents
    <2>2. DeviceInv'
        BY <1>24, <2>1, PutHomeType DEF WriteHome
    <2>3. RamInv' /\ HistoryInv'
        BY <1>24 DEF WriteHome, RamInv, HistoryInv, historyVars, Phases
    <2> QED
        BY <2>2, <2>3
<1>25. CASE Checkpoint
    <2>1. jsb' \in Superblocks /\ jsb'.seq \in Nat
        BY <1>25, <1>a, Released DEF Checkpoint
    <2>2. DeviceInv'
        BY <1>25, <2>1, DeviceKept, PutSbType DEF Checkpoint, Ignoring
    <2>3. errors' \in 0..MaxErrors
        BY <1>25, ErrorsType DEF Checkpoint, HistoryInv, Ignoring
    <2>4. RamInv' /\ HistoryInv'
        BY <1>25, <2>1, <2>3 DEF Checkpoint, RamInv, HistoryInv, historyVars, Phases
    <2> QED
        BY <2>2, <2>4
<1>26. CASE UNCHANGED vars
    BY <1>26 DEF vars, deviceVars, ramVars, historyVars, DeviceInv, RamInv, HistoryInv
<1> QED
    BY <1>1, <1>2, <1>3, <1>4, <1>5, <1>6, <1>7, <1>8, <1>9, <1>10, <1>11, <1>12,
       <1>13, <1>14, <1>15, <1>16, <1>17, <1>18, <1>20, <1>21, <1>22, <1>23, <1>24,
       <1>25, <1>26
    DEF Next, Opening, Recovery, Committing

LEMMA TypeImplies == TypeInv => TypeOK
<1> SUFFICES ASSUME TypeInv PROVE TypeOK
    OBVIOUS
<1>1. txn.refs \in RefSeqs /\ Len(txn.data) = Len(txn.refs)
    BY TxnFacts DEF TypeInv, RamInv
<1>2. rp.pos \in Ring /\ Len(rp.data) = Len(rp.refs) /\ rp.i \in 1..(MaxRefs + 1)
    BY CursorFacts DEF TypeInv, RamInv
<1>3. SoundBlocks \subseteq Blocks
    BY DEF SoundBlocks
<1>4. ring \in [Ring -> Blocks] /\ vring \in [Ring -> Blocks]
    BY <1>3 DEF TypeInv, DeviceInv
<1> QED
    BY <1>1, <1>2, <1>4 DEF TypeOK, TypeInv, DeviceInv, RamInv, HistoryInv, Phases, RefSeqs

\* The ring positions, counters and cursors of journal.c stay in range on any
\* device: writes cached or not, blocks lost at a crash, reads and writes failing.
THEOREM TypeCorrect == Spec => []TypeOK
<1>1. Spec => []TypeInv
    BY TypeInit, TypeNext, PTL DEF Spec
<1> QED
    BY <1>1, TypeImplies, PTL

-----------------------------------------------------------------------------
(* Authentication *)

\* A commit block on the medium, or in the cache, carries the tag of an entry
\* that some transaction logged.
Tagged(b) == b.type = "commit" => Entry(b.seq, b.refs, b.data) \in issued

TagsIssued ==
    /\ \A k \in Ring : Tagged(ring[k]) /\ Tagged(vring[k])
    /\ pc \in {"meta", "data", "commit"} => txn \in issued

AuthInv == TypeInv /\ TagsIssued /\ AppliesOnlyIssued

LEMMA AuthInit == Init => TagsIssued /\ AppliesOnlyIssued
BY DEF Init, TagsIssued, Tagged, AppliesOnlyIssued, ZeroBlock, Block

\* A write of a block that is not a commit block, or is the mark of the
\* transaction in progress, keeps every tag one that was issued.
LEMMA TagsKept ==
    ASSUME TypeInv, TagsIssued, NEW k \in Ring, NEW b,
           Tagged(b), PutRing(k, b) \/ UNCHANGED <<ring, vring>>, issued' = issued
    PROVE  \A j \in Ring : Tagged(ring[j])' /\ Tagged(vring[j])'
BY DEF TypeInv, DeviceInv, TagsIssued, Tagged, PutRing

LEMMA TagsUntouched ==
    ASSUME TagsIssued, UNCHANGED <<ring, vring>>, issued \subseteq issued'
    PROVE  \A j \in Ring : Tagged(ring[j])' /\ Tagged(vring[j])'
BY DEF TagsIssued, Tagged

\* What ScanAuth stages is the entry whose tag it has compared.
LEMMA AuthenticIssued ==
    ASSUME TypeInv, TagsIssued, NEW k \in Ring, Authentic(k)
    PROVE  Entry(vring[k].seq, vring[k].refs, Staged(k, Len(vring[k].refs))) \in issued
<1> DEFINE n == Len(vring[k].refs)
           j == (k + n + 1) % RingSize
<1>1. n \in Nat
    BY BlockFacts DEF TypeInv, DeviceInv
<1>2. k + n + 1 \in Nat
    BY <1>1 DEF Ring
<1>3. j \in Ring
    BY <1>2, Wraps
<1>4. vring[j].type = "commit"
      /\ Entry(vring[j].seq, vring[j].refs, vring[j].data)
         = Entry(vring[k].seq, vring[k].refs, Staged(k, n))
    BY DEF Authentic
<1> QED
    BY <1>3, <1>4 DEF TagsIssued, Tagged

LEMMA AuthNext ==
    ASSUME Auth, AuthInv, [Next]_vars
    PROVE  (TagsIssued /\ AppliesOnlyIssued)'
<1> USE DEF AuthInv
<1>a. rp.pos \in Ring /\ txn \in Transactions /\ rp \in Cursors /\ jsb.head \in Ring
    BY CursorFacts DEF TypeInv, RamInv, Superblocks
<1>b. ASSUME UNCHANGED <<ring, vring, issued, txn>>,
             pc' \in {"meta", "data", "commit"} => pc' = pc,
             pc' # "apply"
      PROVE  (TagsIssued /\ AppliesOnlyIssued)'
    BY <1>b, TagsUntouched DEF TagsIssued, AppliesOnlyIssued
<1>1. CASE Crash
    <2>1. \A j \in Ring : ring'[j] \in {ring[j], vring[j]} /\ vring'[j] = ring'[j]
        BY <1>1 DEF Crash
    <2>2. issued' = issued /\ pc' = "off"
        BY <1>1 DEF Crash, PowerOff, historyVars
    <2> QED
        BY <2>1, <2>2 DEF TagsIssued, Tagged, AppliesOnlyIssued
<1>2. CASE Reboot
    BY <1>2, TagsUntouched DEF Reboot, PowerOff, historyVars, deviceVars, TagsIssued, AppliesOnlyIssued
<1>3. CASE Mount
    BY <1>3, <1>b DEF Mount, historyVars, deviceVars
<1>4. CASE MountFormat
    BY <1>4, <1>b DEF MountFormat, historyVars, deviceVars
<1>5. CASE FormatZeroSb
    BY <1>5, <1>b DEF FormatZeroSb, Ignoring, PutSb, historyVars, deviceVars
<1>6. CASE FormatZero
    <2>1. Tagged(ZeroBlock)
        BY DEF Tagged, ZeroBlock, Block
    <2>2. \A j \in Ring : Tagged(ring[j])' /\ Tagged(vring[j])'
        BY <1>6, <1>a, <2>1, TagsKept DEF FormatZero, Ignoring, historyVars, deviceVars
    <2> QED
        BY <1>6, <2>2 DEF FormatZero, TagsIssued, AppliesOnlyIssued
<1>7. CASE FormatDone
    BY <1>7, <1>b DEF FormatDone, PutSb, historyVars
<1>8. CASE FormatFailed
    BY <1>8, <1>b DEF FormatFailed, historyVars, deviceVars, ramVars
<1>9. CASE SkipCommit
    BY <1>9, <1>b DEF SkipCommit, Scanning, historyVars, deviceVars
<1>10. CASE ScanLegacy
    BY <1>10 DEF ScanLegacy
<1>11. CASE ScanAuth
    <2>1. Entry(rp'.seq, rp'.refs, rp'.data) \in issued
        BY <1>11, <1>a, AuthenticIssued DEF ScanAuth
    <2>2. UNCHANGED <<ring, vring, issued>> /\ pc' = "apply"
        BY <1>11 DEF ScanAuth, historyVars, deviceVars
    <2> QED
        BY <2>1, <2>2, TagsUntouched DEF TagsIssued, AppliesOnlyIssued
<1>12. CASE ApplyBlock
    <2>1. rp'.seq = rp.seq /\ rp'.refs = rp.refs /\ rp'.data = rp.data
        BY <1>12, <1>a DEF ApplyBlock, Cursors
    <2>2. UNCHANGED <<ring, vring, issued, pc>>
        BY <1>12 DEF ApplyBlock, Ignoring, PutHome, historyVars, deviceVars
    <2> QED
        BY <1>12, <2>1, <2>2, TagsUntouched DEF ApplyBlock, TagsIssued, AppliesOnlyIssued
<1>13. CASE EntryApplied
    BY <1>13, <1>b DEF EntryApplied, historyVars, deviceVars, ramVars
<1>14. CASE ScanBreaks
    BY <1>14, <1>b DEF ScanBreaks, Scanning, StopScan, historyVars, deviceVars
<1>15. CASE ReplayDone
    BY <1>15, <1>b DEF ReplayDone, Ignoring, PutSb, historyVars, deviceVars
<1>16. CASE StartUse
    BY <1>16, <1>b DEF StartUse, ramVars, deviceVars
<1>17. ASSUME NEW n \in 1..MaxRefs, NEW refs \in RefsOf(n), NEW data \in PayloadsOf(n),
              Begin(refs, data)
       PROVE  (TagsIssued /\ AppliesOnlyIssued)'
    BY <1>17, TagsUntouched DEF Begin, deviceVars, TagsIssued, AppliesOnlyIssued
<1>18. CASE Refused
    BY <1>18, <1>b DEF Refused, historyVars, deviceVars
<1>19. ASSUME NEW b, NEW next \in {"data", "commit", "sb"}, AppendBlock(b, next),
              pc \in {"meta", "data", "commit"}, Tagged(b)
       PROVE  (TagsIssued /\ AppliesOnlyIssued)'
    <2>1. \A j \in Ring : Tagged(ring[j])' /\ Tagged(vring[j])'
        BY <1>19, <1>a, TagsKept DEF AppendBlock, Ignoring, historyVars, deviceVars
    <2> QED
        BY <1>19, <2>1 DEF AppendBlock, TagsIssued, AppliesOnlyIssued, historyVars
<1>20. CASE CommitMeta
    <2>1. Tagged(MetaBlock(txn))
        BY DEF Tagged, MetaBlock, Block
    <2> QED
        BY <1>20, <2>1, <1>19 DEF CommitMeta
<1>21. CASE CommitData
    <2>1. Tagged(DataBlock(txn.data[rp.i]))
        BY DEF Tagged, DataBlock, Block
    <2> QED
        BY <1>21, <2>1, <1>19 DEF CommitData
<1>22. CASE CommitMark
    <2>1. txn = Entry(txn.seq, txn.refs, txn.data) /\ txn \in issued
        BY <1>22, <1>a DEF Transactions, Entry, CommitMark, TagsIssued
    <2>2. Tagged(CommitBlock(txn))
        BY <2>1 DEF Tagged, CommitBlock, Block
    <2> QED
        BY <1>22, <2>2, <1>19 DEF CommitMark
<1>23. CASE CommitDone
    <2>1. UNCHANGED <<ring, vring, issued>> /\ pc' = "idle"
        BY <1>23 DEF CommitDone, Ignoring, PutSb, deviceVars
    <2> QED
        BY <2>1, TagsUntouched DEF TagsIssued, AppliesOnlyIssued
<1>24. ASSUME NEW t \in Targets, WriteHome(t)
       PROVE  (TagsIssued /\ AppliesOnlyIssued)'
    BY <1>24, <1>b DEF WriteHome, PutHome, historyVars
<1>25. CASE Checkpoint
    BY <1>25, <1>b DEF Checkpoint, Ignoring, PutSb, historyVars, deviceVars
<1>26. CASE UNCHANGED vars
    BY <1>26, TagsUntouched DEF vars, deviceVars, ramVars, historyVars, TagsIssued, AppliesOnlyIssued
<1> QED
    BY <1>1, <1>2, <1>3, <1>4, <1>5, <1>6, <1>7, <1>8, <1>9, <1>10, <1>11, <1>12,
       <1>13, <1>14, <1>15, <1>16, <1>17, <1>18, <1>20, <1>21, <1>22, <1>23, <1>24,
       <1>25, <1>26
    DEF Next, Opening, Recovery, Committing

\* journal_replay of an authenticated journal writes home only entries that
\* journal_commit built, whole: on any device, whatever blocks of the ring it
\* lost at any number of crashes and whichever of its reads and writes failed.
THEOREM ReplayAppliesIssued ==
    ASSUME Auth
    PROVE  Spec => []AppliesOnlyIssued
<1>1. Init => AuthInv
    BY TypeInit, AuthInit DEF AuthInv
<1>2. AuthInv /\ [Next]_vars => AuthInv'
    BY TypeNext, AuthNext DEF AuthInv
<1>3. AuthInv => AppliesOnlyIssued
    BY DEF AuthInv
<1> QED
    BY <1>1, <1>2, <1>3, PTL DEF Spec

-----------------------------------------------------------------------------
(* Write-ahead logging on a device that writes through *)

\* The ring position of the block at an offset from the tail, and the number
\* of blocks of the ring that hold live entries.
Pos(t, x) == (t + x) % RingSize
At(x) == Pos(vsb.tail, x)
Live  == Distance(vsb.tail, vsb.head)

\* The offsets at which an entry starts, and what it logs.
Heads      == {x \in 0..(RingSize - 1) : x < Live /\ vring[At(x)].type = "meta"}
Refs(x)    == vring[At(x)].refs
Size(x)    == Len(Refs(x))
Logged(x, i) == Content(vring[At(x + i)])
Touches(x, t) == \E i \in 1..Size(x) : Refs(x)[i] = t

WriteThrough == dsb = vsb /\ ring = vring /\ home = vhome

\* The entry at offset x is complete, and the next one follows it.
Complete(x) ==
    /\ x + Size(x) + 2 <= Live
    /\ \A i \in 1..Size(x) : vring[At(x + i)].type = "data"
    /\ vring[At(x + Size(x) + 1)].type = "commit"
    /\ vring[At(x + Size(x) + 1)].seq = vring[At(x)].seq
    /\ Auth => /\ vring[At(x + Size(x) + 1)].refs = Refs(x)
               /\ vring[At(x + Size(x) + 1)].data =
                     [i \in 1..Size(x) |-> Logged(x, i)]
    /\ x + Size(x) + 2 = Live \/ x + Size(x) + 2 \in Heads

\* The live part of the ring is a chain of complete entries.
Chain ==
    /\ Live # 0 => 0 \in Heads
    /\ \A x \in Heads : Complete(x)

\* Home plus the log is the acknowledged contents: the last entry that touches
\* a block holds it, and a block no entry touches is home already.
Covered ==
    \A t \in Targets :
        /\ \A x \in Heads : \A i \in 1..Size(x) :
              /\ Refs(x)[i] = t
              /\ \A z \in Heads : z > x => ~Touches(z, t)
              => Logged(x, i) = logical[t]
        /\ (\A x \in Heads : ~Touches(x, t)) => vhome[t] = logical[t]

\* What the entries before offset x say is home, or said again later.
AppliedUpTo(x) ==
    \A t \in Targets : \A y \in Heads :
        y < x /\ Touches(y, t) =>
            vhome[t] = logical[t] \/ \E z \in Heads : z >= x /\ Touches(z, t)

Busy == {"meta", "data", "commit", "sb"}

\* Blocks of the entry in progress that are in the ring already.
Written ==
    CASE pc = "meta"   -> 0
      [] pc = "data"   -> rp.i
      [] pc = "commit" -> Len(txn.refs) + 1
      [] OTHER         -> Len(txn.refs) + 2

\* The superblock in RAM, and the entry being appended beyond the live part.
Appending ==
    /\ pc \in {"mounted", "idle"} => jsb.head = vsb.head /\ jsb.tail = vsb.tail
    /\ pc \in Busy =>
          /\ jsb.tail = vsb.tail
          /\ Live + Len(txn.refs) + 2 <= RingSize - 1
          /\ jsb.head = At(Live + Written)
          /\ Written > 0 => vring[At(Live)] = MetaBlock(txn)
          /\ \A i \in 1..Len(txn.refs) : i < Written =>
                vring[At(Live + i)] = DataBlock(txn.data[i])
          /\ pc = "sb" => vring[At(Live + Len(txn.refs) + 1)] = CommitBlock(txn)
          /\ inflight = Apply(logical, txn)

\* Formatting happens only before the first superblock.
Formatting ==
    /\ ~vsb.magic => vsb = Unformatted
    /\ pc \in {"zero", "zeroring", "format"} =>
          ~vsb.magic /\ jsb.head = 0 /\ jsb.tail = 0
    /\ pc # "off" => jsb.magic
    /\ pc # "unjournaled"

\* The metadata that is home while the system runs.
Homed ==
    /\ pc = "mounted" => vsb.head = vsb.tail
    /\ pc = "idle" \/ pc \in Busy =>
          \A t \in Targets \ unsaved : vhome[t] = logical[t]

\* The scan stands at the start of an entry, at its commit block, or at the end.
ScanAt(x) ==
    \/ x = Live
    \/ x \in Heads
    \/ \E h \in Heads : x = h + Size(h) + 1

Replaying ==
    /\ pc \in {"scan", "apply"} => jsb = vsb
    /\ pc = "scan" =>
          \E x \in 0..Live : rp.pos = At(x) /\ ScanAt(x) /\ AppliedUpTo(x)
    /\ pc = "apply" =>
          \E h \in Heads :
              /\ rp.refs = Refs(h)
              /\ rp.data = [i \in 1..Size(h) |-> Logged(h, i)]
              /\ rp.pos = At(h + Size(h) + IF Auth THEN 2 ELSE 1)
              /\ AppliedUpTo(h)
              /\ \A i \in 1..Size(h) : i < rp.i => vhome[Refs(h)[i]] = Logged(h, i)

Wal ==
    /\ WriteThrough /\ Chain /\ Covered /\ Appending /\ Formatting /\ Homed
    /\ Replaying

WalInv == TypeInv /\ Wal

-----------------------------------------------------------------------------
(* Positions of the ring *)

LEMMA PosValue ==
    ASSUME NEW t \in Ring, NEW x \in Nat, x <= RingSize
    PROVE  Pos(t, x) = IF t + x < RingSize THEN t + x ELSE t + x - RingSize
<1>1. RingSize \in Nat \ {0} /\ t \in Nat /\ t < RingSize
    BY JournalAssumption DEF Ring
<1>2. CASE t + x < RingSize
    BY <1>1, <1>2 DEF Pos
<1>3. CASE t + x >= RingSize
    <2>1. t + x < 2 * RingSize
        BY <1>1
    <2> DEFINE y == t + x
    <2>2. y \in Nat /\ y >= RingSize /\ y < 2 * RingSize
        BY <1>1, <1>3, <2>1
    <2> HIDE DEF y
    <2>3. y % RingSize = y - RingSize
        BY <1>1, <2>2
    <2> QED
        BY <1>1, <1>3, <2>3 DEF Pos, y
<1> QED
    BY <1>1, <1>2, <1>3

LEMMA DistanceValue ==
    ASSUME NEW a \in Ring, NEW b \in Ring
    PROVE  Distance(a, b) = IF a <= b THEN b - a ELSE b + RingSize - a
<1>1. RingSize \in Nat \ {0} /\ a \in Nat /\ a < RingSize /\ b \in Nat /\ b < RingSize
    BY JournalAssumption DEF Ring
<1> DEFINE y == b + RingSize - a
<1>2. CASE a <= b
    <2>1. y \in Nat /\ y >= RingSize /\ y < 2 * RingSize
        BY <1>1, <1>2
    <2> HIDE DEF y
    <2>2. y % RingSize = y - RingSize
        BY <1>1, <2>1
    <2> QED
        BY <1>1, <1>2, <2>2 DEF Distance, y
<1>3. CASE a > b
    <2>1. y \in Nat /\ y < RingSize
        BY <1>1, <1>3
    <2> HIDE DEF y
    <2>2. y % RingSize = y
        BY <1>1, <2>1
    <2> QED
        BY <1>1, <1>3, <2>2 DEF Distance, y
<1> QED
    BY <1>1, <1>2, <1>3

LEMMA PosType == \A t \in Ring, x \in Nat : Pos(t, x) \in Ring
BY JournalAssumption DEF Pos, Ring

LEMMA DistanceType == \A a, b \in Ring : Distance(a, b) \in Ring
BY DistanceValue, JournalAssumption DEF Ring

LEMMA PosInjective ==
    ASSUME NEW t \in Ring, NEW x \in Ring, NEW y \in Ring, Pos(t, x) = Pos(t, y)
    PROVE  x = y
<1>1. x \in Nat /\ y \in Nat /\ t \in Nat /\ x < RingSize /\ y < RingSize /\ t < RingSize
      /\ RingSize \in Nat
    BY JournalAssumption DEF Ring
<1>2. Pos(t, x) = (IF t + x < RingSize THEN t + x ELSE t + x - RingSize)
      /\ Pos(t, y) = (IF t + y < RingSize THEN t + y ELSE t + y - RingSize)
    BY <1>1, PosValue
<1>3. (IF t + x < RingSize THEN t + x ELSE t + x - RingSize)
      = (IF t + y < RingSize THEN t + y ELSE t + y - RingSize)
    BY <1>2
<1> QED
    BY <1>1, <1>3

LEMMA DistancePos ==
    ASSUME NEW t \in Ring, NEW x \in Ring
    PROVE  Distance(t, Pos(t, x)) = x
<1>1. x \in Nat /\ t \in Nat /\ x < RingSize /\ t < RingSize /\ RingSize \in Nat
    BY JournalAssumption DEF Ring
<1>2. Pos(t, x) = IF t + x < RingSize THEN t + x ELSE t + x - RingSize
    BY <1>1, PosValue
<1>3. Pos(t, x) \in Ring
    BY <1>1, PosType
<1>4. Distance(t, Pos(t, x)) = IF t <= Pos(t, x) THEN Pos(t, x) - t ELSE Pos(t, x) + RingSize - t
    BY <1>3, DistanceValue
<1> QED
    BY <1>1, <1>2, <1>4

LEMMA PosDistance ==
    ASSUME NEW t \in Ring, NEW k \in Ring
    PROVE  Pos(t, Distance(t, k)) = k
<1>1. k \in Nat /\ t \in Nat /\ k < RingSize /\ t < RingSize /\ RingSize \in Nat
    BY JournalAssumption DEF Ring
<1>2. Distance(t, k) = IF t <= k THEN k - t ELSE k + RingSize - t
    BY DistanceValue
<1>3. Distance(t, k) \in Nat /\ Distance(t, k) <= RingSize
    BY <1>1, <1>2
<1>4. Pos(t, Distance(t, k)) = IF t + Distance(t, k) < RingSize THEN t + Distance(t, k)
                               ELSE t + Distance(t, k) - RingSize
    BY <1>3, PosValue
<1> QED
    BY <1>1, <1>2, <1>4

\* Moving on from an offset, within one turn of the ring.
LEMMA PosAdd ==
    ASSUME NEW t \in Ring, NEW x \in Nat, NEW y \in Nat, x + y < RingSize
    PROVE  (Pos(t, x) + y) % RingSize = Pos(t, x + y)
<1>1. t \in Nat /\ t < RingSize /\ RingSize \in Nat /\ x <= RingSize /\ y <= RingSize
      /\ x + y \in Nat /\ x + y <= RingSize
    BY JournalAssumption DEF Ring
<1>2. Pos(t, x) = IF t + x < RingSize THEN t + x ELSE t + x - RingSize
    BY <1>1, PosValue
<1>3. Pos(t, x + y) = IF t + (x + y) < RingSize THEN t + (x + y) ELSE t + (x + y) - RingSize
    BY <1>1, PosValue
<1>4. Pos(t, x) \in Ring
    BY PosType
<1>5. Pos(Pos(t, x), y) = IF Pos(t, x) + y < RingSize THEN Pos(t, x) + y ELSE Pos(t, x) + y - RingSize
    BY <1>1, <1>4, PosValue
<1>6. Pos(Pos(t, x), y) = Pos(t, x + y)
    BY <1>1, <1>2, <1>3, <1>5
<1> QED
    BY <1>6 DEF Pos

LEMMA PosSucc ==
    ASSUME NEW t \in Ring, NEW x \in Nat, x + 1 < RingSize
    PROVE  Succ(Pos(t, x)) = Pos(t, x + 1)
BY PosAdd DEF Succ

\* The distance between two offsets.
LEMMA DistanceBetween ==
    ASSUME NEW t \in Ring, NEW x \in Nat, NEW y \in Nat, x <= y, y < RingSize
    PROVE  Distance(Pos(t, x), Pos(t, y)) = y - x
<1>1. t \in Nat /\ t < RingSize /\ RingSize \in Nat
    BY JournalAssumption DEF Ring
<1>2. Pos(t, x) = (IF t + x < RingSize THEN t + x ELSE t + x - RingSize)
      /\ Pos(t, y) = (IF t + y < RingSize THEN t + y ELSE t + y - RingSize)
    BY <1>1, PosValue
<1>3. Pos(t, x) \in Ring /\ Pos(t, y) \in Ring
    BY PosType
<1>4. Distance(Pos(t, x), Pos(t, y)) =
         IF Pos(t, x) <= Pos(t, y) THEN Pos(t, y) - Pos(t, x) ELSE Pos(t, y) + RingSize - Pos(t, x)
    BY <1>3, DistanceValue
<1> QED
    BY <1>1, <1>2, <1>4

-----------------------------------------------------------------------------
(* The log *)

LEMMA LiveType ==
    ASSUME TypeInv
    PROVE  /\ vsb.tail \in Ring /\ vsb.head \in Ring
           /\ Live \in Ring /\ Live \in Nat /\ Live < RingSize /\ RingSize \in Nat
           /\ \A x \in Nat : At(x) \in Ring
           /\ At(Live) = vsb.head
<1>1. vsb.tail \in Ring /\ vsb.head \in Ring
    BY DEF TypeInv, DeviceInv, Superblocks
<1>2. Live \in Ring
    BY <1>1, DistanceType DEF Live
<1>3. \A x \in Nat : At(x) \in Ring
    BY <1>1, PosType DEF At
<1>4. At(Live) = vsb.head
    BY <1>1, PosDistance DEF At, Live
<1> QED
    BY <1>1, <1>2, <1>3, <1>4, JournalAssumption DEF Ring

LEMMA AtInjective ==
    ASSUME TypeInv, NEW x \in Nat, NEW y \in Nat, x < RingSize, y < RingSize, x # y
    PROVE  At(x) # At(y)
<1>1. x \in Ring /\ y \in Ring
    BY JournalAssumption DEF Ring
<1> QED
    BY <1>1, LiveType, PosInjective DEF At

LEMMA HeadFacts ==
    ASSUME TypeInv, Chain, NEW x \in Heads
    PROVE  /\ x \in Nat /\ x < Live
           /\ Size(x) \in 0..MaxRefs /\ Size(x) \in Nat
           /\ x + Size(x) + 2 <= Live
           /\ Refs(x) \in RefSeqs
           /\ Refs(x) \in [1..Size(x) -> Targets]
           /\ \A i, k \in 1..Size(x) : Refs(x)[i] = Refs(x)[k] => i = k
           /\ vring[At(x)].type = "meta"
<1>1. x \in Nat /\ x < Live /\ vring[At(x)].type = "meta"
    BY JournalAssumption DEF Heads
<1>2. vring[At(x)] \in SoundBlocks
    BY <1>1, LiveType DEF TypeInv, DeviceInv
<1>3. Refs(x) \in RefSeqs
    BY <1>2, BlockFacts DEF Refs
<1>4. Size(x) \in 0..MaxRefs /\ Size(x) \in Nat
    BY <1>3, RefFacts, JournalAssumption DEF Size
<1>5. Refs(x) \in [1..Size(x) -> Targets]
      /\ \A i, k \in 1..Size(x) : Refs(x)[i] = Refs(x)[k] => i = k
    BY <1>3, RefFacts DEF Size
<1> QED
    BY <1>1, <1>3, <1>4, <1>5 DEF Chain, Complete

\* No entry starts inside another one.
LEMMA HeadsApart ==
    ASSUME TypeInv, Chain, NEW x \in Heads, NEW y \in Heads, y > x
    PROVE  y >= x + Size(x) + 2
<1>1. x \in Nat /\ y \in Nat /\ Size(x) \in Nat /\ vring[At(y)].type = "meta"
    BY HeadFacts
<1>2. ASSUME y < x + Size(x) + 2 PROVE FALSE
    <2>1. CASE y = x + Size(x) + 1
        BY <2>1, <1>1 DEF Chain, Complete
    <2>2. CASE y < x + Size(x) + 1
        <3>0. y - x \in 1..Size(x) /\ x + (y - x) = y
            BY <1>1, <2>2
        <3>1. PICK i \in 1..Size(x) : x + i = y
            BY <3>0
        <3>2. Complete(x)
            BY DEF Chain
        <3>3. \A j \in 1..Size(x) : vring[At(x + j)].type = "data"
            BY <3>2 DEF Complete
        <3> QED
            BY <3>1, <3>3, <1>1
    <2> QED
        BY <1>1, <1>2, <2>1, <2>2
<1> QED
    BY <1>1, <1>2

LogKept ==
    /\ vsb'.tail = vsb.tail /\ vsb'.head = vsb.head
    /\ \A x \in Nat : x < Live => vring'[At(x)] = vring[At(x)]

LEMMA KeptEntries ==
    ASSUME TypeInv, Chain, LogKept
    PROVE  /\ Live' = Live /\ Heads' = Heads /\ \A x \in Nat : At(x)' = At(x)
           /\ \A x \in Heads :
                 /\ Refs(x)' = Refs(x) /\ Size(x)' = Size(x)
                 /\ \A i \in 1..Size(x) : Logged(x, i)' = Logged(x, i)
                 /\ \A t : Touches(x, t)' = Touches(x, t)
<1>1. Live' = Live /\ \A x : At(x)' = At(x)
    BY DEF LogKept, Live, At
<1>2. ASSUME NEW x \in 0..(RingSize - 1), x < Live
      PROVE  vring'[At(x)'] = vring[At(x)]
    BY <1>1, <1>2, JournalAssumption DEF LogKept
<1>3. Heads' = Heads
    BY <1>1, <1>2 DEF Heads
<1>4. ASSUME NEW x \in Heads
      PROVE  /\ Refs(x)' = Refs(x) /\ Size(x)' = Size(x)
             /\ \A i \in 1..Size(x) : Logged(x, i)' = Logged(x, i)
             /\ \A t : Touches(x, t)' = Touches(x, t)
    <2>1. x \in 0..(RingSize - 1) /\ x < Live /\ x \in Nat /\ Size(x) \in Nat
          /\ x + Size(x) + 2 <= Live
        BY HeadFacts DEF Heads
    <2>2. Refs(x)' = Refs(x) /\ Size(x)' = Size(x)
        BY <1>2, <2>1 DEF Refs, Size
    <2>3. ASSUME NEW i \in 1..Size(x) PROVE Logged(x, i)' = Logged(x, i)
        <3>1. x + i \in Nat /\ x + i < Live
            BY <2>1, LiveType
        <3>2. vring'[At(x + i)] = vring[At(x + i)] /\ At(x + i)' = At(x + i)
            BY <3>1, <1>1 DEF LogKept
        <3> QED
            BY <3>2 DEF Logged
    <2> QED
        BY <2>2, <2>3 DEF Touches
<1> QED
    BY <1>1, <1>3, <1>4

LEMMA KeptChain ==
    ASSUME TypeInv, Chain, LogKept
    PROVE  Chain'
<1>1. Live' = Live /\ Heads' = Heads /\ \A x \in Nat : At(x)' = At(x)
    BY KeptEntries
<1>2. Live # 0 => 0 \in Heads
    BY DEF Chain
<1>3. ASSUME NEW x \in Heads PROVE Complete(x)'
    <2>1. x \in Nat /\ x < Live /\ Size(x) \in Nat /\ x + Size(x) + 2 <= Live
        BY HeadFacts
    <2>2. Refs(x)' = Refs(x) /\ Size(x)' = Size(x)
          /\ \A i \in 1..Size(x) : Logged(x, i)' = Logged(x, i)
        BY KeptEntries
    <2>3. ASSUME NEW y \in Nat, y < Live PROVE vring'[At(y)'] = vring[At(y)]
        BY <1>1, <2>3 DEF LogKept
    <2>n. PICK n \in Nat : n = Size(x)
        BY <2>1
    <2>4. x + n + 1 \in Nat /\ x + n + 1 < Live
          /\ \A i \in 1..n : x + i \in Nat /\ x + i < Live
        BY <2>1, <2>n, LiveType
    <2>5. vring'[At(x + n + 1)'] = vring[At(x + n + 1)]
        BY <2>3, <2>4
    <2>6. \A i \in 1..n : vring'[At(x + i)'] = vring[At(x + i)]
        BY <2>3, <2>4
    <2>7. vring'[At(x)'] = vring[At(x)]
        BY <2>1, <2>3
    <2>8. [i \in 1..n |-> Logged(x, i)'] = [i \in 1..n |-> Logged(x, i)]
        BY <2>2, <2>n
    <2>9. Complete(x)
        BY DEF Chain
    <2> QED
        BY <1>1, <2>2, <2>n, <2>5, <2>6, <2>7, <2>8, <2>9 DEF Complete
<1> QED
    BY <1>1, <1>2, <1>3 DEF Chain

LEMMA KeptCovered ==
    ASSUME TypeInv, Chain, LogKept, Covered, logical' = logical,
           \A t \in Targets : \/ vhome'[t] = vhome[t]
                              \/ vhome'[t] = logical[t]
                              \/ \E x \in Heads : Touches(x, t)
    PROVE  Covered'
<1>1. Heads' = Heads
      /\ \A x \in Heads :
            /\ Refs(x)' = Refs(x) /\ Size(x)' = Size(x)
            /\ \A i \in 1..Size(x) : Logged(x, i)' = Logged(x, i)
            /\ \A t : Touches(x, t)' = Touches(x, t)
    BY KeptEntries
<1> QED
    BY <1>1 DEF Covered

\* An empty log.
LEMMA EmptyLog ==
    ASSUME TypeInv, vsb.head = vsb.tail
    PROVE  Live = 0 /\ Heads = {} /\ Chain
<1>1. Live = 0
    BY LiveType, DistanceValue DEF Live, Ring
<1>2. Heads = {}
    BY <1>1 DEF Heads
<1> QED
    BY <1>1, <1>2 DEF Chain

\* A step that empties the log when everything is home.
LEMMA Emptied ==
    ASSUME TypeInv', vsb'.head = vsb'.tail, \A t \in Targets : vhome'[t] = logical'[t]
    PROVE  Live' = 0 /\ Heads' = {} /\ Chain' /\ Covered'
<1>1. vsb'.head \in Ring /\ vsb'.tail \in Ring
    BY DEF TypeInv, DeviceInv, Superblocks
<1>2. Live' = 0
    BY <1>1, DistanceValue DEF Live, Ring
<1>3. Heads' = {}
    BY <1>2 DEF Heads
<1> QED
    BY <1>2, <1>3 DEF Chain, Covered

LEMMA NotEmpty ==
    ASSUME TypeInv, vsb.head # vsb.tail
    PROVE  Live # 0
<1>1. vsb.head \in Nat /\ vsb.tail \in Nat /\ vsb.head < RingSize /\ vsb.tail < RingSize /\ RingSize \in Nat
    BY LiveType, JournalAssumption DEF Ring
<1>2. Live = IF vsb.tail <= vsb.head THEN vsb.head - vsb.tail ELSE vsb.head + RingSize - vsb.tail
    BY LiveType, DistanceValue DEF Live
<1> QED
    BY <1>1, <1>2

-----------------------------------------------------------------------------
(* Reading and extending the log *)

\* What journal_replay reads at the start of a live entry.
LEMMA ReadsEntry ==
    ASSUME TypeInv, Chain, NEW x \in Heads
    PROVE  /\ Distance(Succ(At(x)), vsb.head) = Live - x - 1
           /\ Staged(At(x), Size(x)) = [i \in 1..Size(x) |-> Logged(x, i)]
           /\ (At(x) + Size(x) + 1) % RingSize = At(x + Size(x) + 1)
           /\ (At(x) + Size(x) + 2) % RingSize = At(x + Size(x) + 2)
<1>1. x \in Nat /\ Size(x) \in Nat /\ x + Size(x) + 2 <= Live
    BY HeadFacts
<1>2. vsb.tail \in Ring /\ Live \in Nat /\ Live < RingSize /\ RingSize \in Nat /\ At(Live) = vsb.head
    BY LiveType
<1>3. Succ(At(x)) = At(x + 1)
    BY <1>1, <1>2, PosSucc DEF At
<1>4. Distance(At(x + 1), At(Live)) = Live - (x + 1)
    BY <1>1, <1>2, DistanceBetween DEF At
<1>5. Distance(Succ(At(x)), vsb.head) = Live - x - 1
    BY <1>1, <1>2, <1>3, <1>4
<1>6. ASSUME NEW y \in Nat, x + y < RingSize
      PROVE  (At(x) + y) % RingSize = At(x + y)
    BY <1>1, <1>2, <1>6, PosAdd DEF At
<1>7. \A i \in 1..Size(x) : (At(x) + i) % RingSize = At(x + i)
    BY <1>1, <1>2, <1>6
<1>8. Staged(At(x), Size(x)) = [i \in 1..Size(x) |-> Logged(x, i)]
    BY <1>7 DEF Staged, Logged
<1>9. At(x) \in Nat
    BY <1>1, LiveType DEF Ring
<1>10. Size(x) + 1 \in Nat /\ x + (Size(x) + 1) < RingSize /\ x + (Size(x) + 1) = x + Size(x) + 1
       /\ At(x) + (Size(x) + 1) = At(x) + Size(x) + 1
       /\ Size(x) + 2 \in Nat /\ x + (Size(x) + 2) < RingSize /\ x + (Size(x) + 2) = x + Size(x) + 2
       /\ At(x) + (Size(x) + 2) = At(x) + Size(x) + 2
    BY <1>1, <1>2, <1>9
<1>11. (At(x) + (Size(x) + 1)) % RingSize = At(x + (Size(x) + 1))
       /\ (At(x) + (Size(x) + 2)) % RingSize = At(x + (Size(x) + 2))
    BY <1>6, <1>10
<1> QED
    BY <1>5, <1>8, <1>10, <1>11

\* A live entry carries its tag.
LEMMA EntryAuthentic ==
    ASSUME TypeInv, Chain, Auth, jsb = vsb, NEW x \in Heads
    PROVE  Authentic(At(x))
<1>1. x \in Nat /\ Size(x) \in Nat /\ x + Size(x) + 2 <= Live /\ Live \in Nat
    BY HeadFacts, LiveType
<1>2. Size(x) < Distance(Succ(At(x)), vsb.head)
    BY <1>1, ReadsEntry
<1>3. Complete(x)
    BY DEF Chain
<1>4. vring[At(x + Size(x) + 1)].type = "commit"
      /\ vring[At(x + Size(x) + 1)].seq = vring[At(x)].seq
      /\ vring[At(x + Size(x) + 1)].refs = vring[At(x)].refs
      /\ vring[At(x + Size(x) + 1)].data = Staged(At(x), Size(x))
    BY <1>3, ReadsEntry DEF Complete, Refs
<1>5. (At(x) + Size(x) + 1) % RingSize = At(x + Size(x) + 1)
    BY ReadsEntry
<1> QED
    BY <1>2, <1>4, <1>5 DEF Authentic, Entry, Size, Refs

\* Where the scan stands there is an entry or a commit block.
LEMMA ScanStands ==
    ASSUME TypeInv, Chain, NEW x \in Nat, ScanAt(x), x # Live
    PROVE  /\ x < Live
           /\ \/ x \in Heads /\ vring[At(x)].type = "meta"
              \/ /\ x \notin Heads /\ vring[At(x)].type = "commit"
                 /\ x + 1 = Live \/ x + 1 \in Heads
<1>1. CASE x \in Heads
    BY <1>1, HeadFacts
<1>2. CASE \E h \in Heads : x = h + Size(h) + 1
    <2>1. PICK h \in Heads : x = h + Size(h) + 1
        BY <1>2
    <2>2. h \in Nat /\ Size(h) \in Nat /\ h + Size(h) + 2 <= Live /\ Live \in Nat
        BY HeadFacts, LiveType
    <2>3. Complete(h)
        BY DEF Chain
    <2>4. vring[At(x)].type = "commit"
          /\ (h + Size(h) + 2 = Live \/ h + Size(h) + 2 \in Heads)
        BY <2>1, <2>3 DEF Complete
    <2>5. x \notin Heads
        BY <2>4, HeadFacts
    <2>6. x + 1 = h + Size(h) + 2 /\ x < Live
        BY <2>1, <2>2
    <2> QED
        BY <2>4, <2>5, <2>6
<1> QED
    BY <1>1, <1>2 DEF ScanAt

LEMMA ApplyHit ==
    ASSUME NEW c, NEW t \in Transactions, NEW i \in 1..Len(t.refs)
    PROVE  Apply(c, t)[t.refs[i]] = t.data[i]
<1> DEFINE x == t.refs[i]
           hits == {j \in DOMAIN t.refs : t.refs[j] = x}
<1>1. DOMAIN t.refs = 1..Len(t.refs) /\ x \in Targets /\ Len(t.refs) \in Nat
      /\ \A j, k \in 1..Len(t.refs) : t.refs[j] = t.refs[k] => j = k
    BY TxnFacts
<1>2. hits = {i}
    BY <1>1
<1>3. (CHOOSE j \in hits : \A k \in hits : k <= j) = i
    <2>1. i \in hits /\ \A k \in hits : k <= i
        BY <1>1, <1>2
    <2>2. \A j : j \in hits => j = i
        BY <1>2
    <2> HIDE DEF hits
    <2>3. (CHOOSE j \in hits : \A k \in hits : k <= j) \in hits
        BY <2>1
    <2> QED
        BY <2>2, <2>3
<1>4. Apply(c, t)[x] = IF hits = {} THEN c[x]
                       ELSE t.data[CHOOSE j \in hits : \A k \in hits : k <= j]
    BY <1>1 DEF Apply
<1> HIDE DEF hits
<1>5. Apply(c, t)[x] = t.data[i]
    BY <1>2, <1>3, <1>4
<1> QED
    BY <1>5

LEMMA ApplyMiss ==
    ASSUME NEW c, NEW t \in Transactions, NEW x \in Targets,
           \A i \in 1..Len(t.refs) : t.refs[i] # x
    PROVE  Apply(c, t)[x] = c[x]
<1>1. DOMAIN t.refs = 1..Len(t.refs)
    BY TxnFacts
<1>2. {j \in DOMAIN t.refs : t.refs[j] = x} = {}
    BY <1>1
<1> QED
    BY <1>2 DEF Apply

\* A block written beyond the live part leaves the log alone.
LEMMA AppendsBeyond ==
    ASSUME TypeInv, NEW y \in Nat, Live <= y, y < RingSize, NEW b, PutRing(At(y), b)
    PROVE  /\ LogKept
           /\ vring'[At(y)] = b
           /\ \A z \in Nat : z < RingSize /\ z # y => vring'[At(z)] = vring[At(z)]
           /\ \A z \in Nat : At(z)' = At(z)
           /\ Live' = Live
<1>1. vsb' = vsb /\ vring' = [vring EXCEPT ![At(y)] = b]
    BY DEF PutRing
<1>2. At(y) \in Ring /\ DOMAIN vring = Ring /\ Live \in Nat /\ Live < RingSize /\ RingSize \in Nat
    BY LiveType DEF TypeInv, DeviceInv
<1>3. ASSUME NEW z \in Nat, z < RingSize, z # y
      PROVE  vring'[At(z)] = vring[At(z)]
    BY <1>1, <1>2, <1>3, AtInjective, LiveType
<1>4. vring'[At(y)] = b
    BY <1>1, <1>2
<1>5. LogKept
    BY <1>1, <1>2, <1>3 DEF LogKept
<1> QED
    BY <1>1, <1>3, <1>4, <1>5 DEF At, Live

-----------------------------------------------------------------------------
(* The steps, on a device that writes through and does not fail *)

LEMMA NoError == ASSUME TypeInv, MaxErrors = 0 PROVE ~Error
BY DEF TypeInv, HistoryInv, Error

\* A step that writes no block.
LEMMA QuietStep ==
    ASSUME TypeInv, WriteThrough, Chain, Covered,
           UNCHANGED deviceVars, logical' = logical
    PROVE  LogKept /\ WriteThrough' /\ Chain' /\ Covered'
<1>1. LogKept
    BY DEF LogKept, deviceVars
<1>2. WriteThrough'
    BY DEF WriteThrough, deviceVars
<1>3. vhome' = vhome
    BY DEF deviceVars
<1> QED
    BY <1>1, <1>2, <1>3, KeptChain, KeptCovered

LEMMA KeptApplied ==
    ASSUME TypeInv, Chain, LogKept, vhome' = vhome, logical' = logical, NEW x,
           AppliedUpTo(x)
    PROVE  AppliedUpTo(x)'
<1>1. Heads' = Heads /\ \A y \in Heads : \A t : Touches(y, t)' = Touches(y, t)
    BY KeptEntries
<1> QED
    BY <1>1 DEF AppliedUpTo

LEMMA KeptScanAt ==
    ASSUME TypeInv, Chain, LogKept, NEW x, ScanAt(x)
    PROVE  ScanAt(x)'
<1>1. Live' = Live /\ Heads' = Heads /\ \A y \in Heads : Size(y)' = Size(y)
    BY KeptEntries
<1> QED
    BY <1>1 DEF ScanAt

\* The power goes off, or is off.
LEMMA OffStep ==
    ASSUME Formatting, vsb' = vsb, pc' = "off"
    PROVE  (Appending /\ Formatting /\ Homed /\ Replaying)'
BY DEF Appending, Formatting, Homed, Replaying, Busy

LEMMA CrashKeeps ==
    ASSUME WriteThrough, TypeInv, Crash
    PROVE  UNCHANGED deviceVars
<1>1. dsb' = dsb /\ vsb' = vsb
    BY DEF Crash, WriteThrough
<1>2. DOMAIN ring = Ring /\ ring = [k \in Ring |-> ring[k]] /\ home = [t \in Targets |-> home[t]]
    BY DEF TypeInv, DeviceInv, Contents
<1>3. ring' = [k \in Ring |-> ring[k]] /\ vring' = ring'
    BY DEF Crash, WriteThrough
<1>4. home' = [t \in Targets |-> home[t]] /\ vhome' = home'
    BY DEF Crash, WriteThrough
<1> QED
    BY <1>1, <1>2, <1>3, <1>4 DEF deviceVars, WriteThrough

LEMMA OpeningSteps ==
    ASSUME ~DeviceCache, MaxErrors = 0, WalInv, TypeInv',
           Crash \/ Reboot \/ Opening \/ StartUse
    PROVE  Wal'
<1> USE DEF WalInv, Wal
<1>1. CASE Crash
    <2>1. UNCHANGED deviceVars /\ logical' = logical /\ pc' = "off"
        BY <1>1, CrashKeeps DEF Crash, PowerOff, historyVars
    <2> QED
        BY <2>1, QuietStep, OffStep DEF deviceVars
<1>2. CASE Reboot
    <2>1. UNCHANGED deviceVars /\ logical' = logical /\ pc' = "off"
        BY <1>2 DEF Reboot, PowerOff, historyVars
    <2> QED
        BY <2>1, QuietStep, OffStep DEF deviceVars
<1>3. CASE Mount
    <2>1. UNCHANGED deviceVars /\ logical' = logical /\ vsb' = vsb /\ jsb' = vsb /\ vsb.magic
        BY <1>3 DEF Mount, historyVars, deviceVars
    <2>2. LogKept /\ WriteThrough' /\ Chain' /\ Covered'
        BY <2>1, QuietStep
    <2>3. CASE vsb.head # vsb.tail
        <3>1. pc' = "scan" /\ rp'.pos = vsb.tail
            BY <1>3, <2>3 DEF Mount, NoReplay
        <3>2. Live # 0 /\ 0 \in Heads /\ Live \in Nat
            BY <2>3, NotEmpty, LiveType DEF Chain
        <3>3. ScanAt(0) /\ AppliedUpTo(0)
            BY <3>2, HeadFacts DEF ScanAt, AppliedUpTo
        <3>4. At(0) = vsb.tail
            BY LiveType, PosValue, JournalAssumption DEF At, Ring
        <3>5. Live' = Live /\ At(0)' = At(0) /\ ScanAt(0)' /\ AppliedUpTo(0)'
            BY <3>3, <2>1, <2>2, KeptEntries, KeptScanAt, KeptApplied DEF deviceVars
        <3>6. \E x \in 0..Live' : rp'.pos = At(x)' /\ ScanAt(x)' /\ AppliedUpTo(x)'
            BY <3>1, <3>2, <3>4, <3>5
        <3> QED
            BY <2>1, <2>2, <3>1, <3>6 DEF Appending, Formatting, Homed, Replaying, Busy
    <2>4. CASE vsb.head = vsb.tail
        <3>1. pc' = "mounted"
            BY <1>3, <2>4 DEF Mount
        <3> QED
            BY <2>1, <2>2, <2>4, <3>1 DEF Appending, Formatting, Homed, Replaying, Busy
    <2> QED
        BY <2>3, <2>4
<1>4. CASE MountFormat
    <2>1. UNCHANGED deviceVars /\ logical' = logical /\ vsb' = vsb /\ pc' = "zero"
          /\ ~vsb.magic /\ jsb' = [magic |-> TRUE, head |-> 0, tail |-> 0, seq |-> 1]
        BY <1>4, NoError DEF MountFormat, historyVars, deviceVars
    <2>2. LogKept /\ WriteThrough' /\ Chain' /\ Covered'
        BY <2>1, QuietStep
    <2> QED
        BY <2>1, <2>2 DEF Appending, Formatting, Homed, Replaying, Busy
<1>5. CASE FormatZeroSb
    <2>1. PutSb(Unformatted) /\ pc' = "zeroring" /\ logical' = logical /\ jsb' = jsb
        BY <1>5, NoError DEF FormatZeroSb, Ignoring, historyVars
    <2>2. vsb = Unformatted /\ jsb.head = 0 /\ jsb.tail = 0 /\ jsb.magic
        BY <1>5 DEF FormatZeroSb, Formatting
    <2>3. UNCHANGED deviceVars
        BY <2>1, <2>2 DEF PutSb, WriteThrough, deviceVars
    <2>4. LogKept /\ WriteThrough' /\ Chain' /\ Covered'
        BY <2>1, <2>3, QuietStep
    <2> QED
        BY <2>1, <2>2, <2>3, <2>4 DEF Appending, Formatting, Homed, Replaying, Busy, deviceVars, Unformatted
<1>6. CASE FormatZero
    <2>1. PutRing(rp.pos, ZeroBlock) /\ pc' \in {"zeroring", "format"} /\ logical' = logical /\ jsb' = jsb
        BY <1>6, NoError DEF FormatZero, Ignoring, historyVars
    <2>2. vsb = Unformatted /\ ~vsb.magic /\ jsb.head = 0 /\ jsb.tail = 0 /\ jsb.magic
        BY <1>6 DEF FormatZero, Formatting
    <2>3. vsb' = vsb /\ vhome' = vhome /\ WriteThrough'
        BY <2>1 DEF PutRing, WriteThrough
    <2>4. Heads = {} /\ vsb'.head = vsb'.tail /\ Live = 0
        BY <2>2, <2>3, EmptyLog DEF Unformatted
    <2>5. LogKept
        BY <2>3, <2>4 DEF LogKept
    <2>6. Chain' /\ Covered'
        BY <2>1, <2>3, <2>5, KeptChain, KeptCovered
    <2> QED
        BY <2>1, <2>2, <2>3, <2>6 DEF Appending, Formatting, Homed, Replaying, Busy
<1>7. CASE FormatDone
    <2>1. PutSb(jsb) /\ pc' = "mounted" /\ logical' = logical /\ jsb' = jsb
        BY <1>7 DEF FormatDone, historyVars
    <2>2. vsb = Unformatted /\ jsb.head = 0 /\ jsb.tail = 0 /\ jsb.magic
        BY <1>7 DEF FormatDone, Formatting
    <2>3. vsb' = jsb /\ vhome' = vhome /\ vring' = vring /\ WriteThrough'
        BY <2>1 DEF PutSb, WriteThrough
    <2>4. LogKept
        BY <2>2, <2>3 DEF LogKept, Unformatted
    <2>6. Chain' /\ Covered'
        BY <2>1, <2>3, <2>4, KeptChain, KeptCovered
    <2> QED
        BY <2>1, <2>2, <2>3, <2>6 DEF Appending, Formatting, Homed, Replaying, Busy
<1>8. CASE FormatFailed
    BY <1>8, NoError DEF FormatFailed
<1>9. CASE StartUse
    <2>1. UNCHANGED deviceVars /\ logical' = vhome /\ pc' = "idle" /\ pc = "mounted"
          /\ jsb' = jsb /\ vsb' = vsb /\ vhome' = vhome /\ unsaved' = unsaved
        BY <1>9 DEF StartUse, deviceVars, ramVars
    <2>2. vsb.head = vsb.tail /\ jsb.head = vsb.head /\ jsb.tail = vsb.tail /\ jsb.magic
        BY <2>1 DEF Homed, Appending, Formatting
    <2>3. LogKept
        BY <2>1 DEF LogKept, deviceVars
    <2>4. Chain' /\ WriteThrough'
        BY <2>1, <2>3, KeptChain DEF WriteThrough, deviceVars
    <2>5. Covered'
        BY <2>1, <2>2, Emptied
    <2> QED
        BY <2>1, <2>2, <2>4, <2>5 DEF Appending, Formatting, Homed, Replaying, Busy
<1> QED
    BY <1>1, <1>2, <1>3, <1>4, <1>5, <1>6, <1>7, <1>8, <1>9 DEF Opening

LEMMA ReplaySteps ==
    ASSUME ~DeviceCache, MaxErrors = 0, WalInv, TypeInv', Recovery
    PROVE  Wal'
<1> USE DEF WalInv, Wal
<1>a. Live \in Nat /\ Live < RingSize /\ RingSize \in Nat /\ At(Live) = vsb.head /\ vsb.tail \in Ring
      /\ rp \in Cursors
    BY LiveType DEF TypeInv, RamInv
<1>b. ASSUME pc = "scan"
      PROVE  /\ jsb = vsb /\ jsb.magic
             /\ \E x \in Nat : /\ x <= Live /\ rp.pos = At(x) /\ ScanAt(x) /\ AppliedUpTo(x)
                               /\ rp.pos = jsb.head <=> x = Live
    <2>1. jsb = vsb /\ jsb.magic
        BY <1>b DEF Replaying, Formatting
    <2>2. PICK x \in 0..Live : rp.pos = At(x) /\ ScanAt(x) /\ AppliedUpTo(x)
        BY <1>b DEF Replaying
    <2>3. rp.pos = jsb.head <=> x = Live
        BY <2>1, <2>2, <1>a, AtInjective
    <2> QED
        BY <2>1, <2>2, <2>3, <1>a
<1>c. ASSUME Scanning
      PROVE  \E x \in Nat : /\ x < Live /\ rp.pos = At(x) /\ ScanAt(x) /\ AppliedUpTo(x)
                            /\ \/ x \in Heads /\ vring[At(x)].type = "meta"
                               \/ /\ x \notin Heads /\ vring[At(x)].type = "commit"
                                  /\ x + 1 = Live \/ x + 1 \in Heads
    <2>1. PICK x \in Nat : x <= Live /\ rp.pos = At(x) /\ ScanAt(x) /\ AppliedUpTo(x) /\ x # Live
        BY <1>b, <1>c DEF Scanning
    <2> QED
        BY <2>1, ScanStands
<1>1. CASE SkipCommit
    <2>1. UNCHANGED deviceVars /\ logical' = logical /\ vsb' = vsb /\ vhome' = vhome
          /\ pc' = "scan" /\ jsb' = jsb /\ Scanning /\ pc = "scan"
        BY <1>1 DEF SkipCommit, Scanning, historyVars, deviceVars
    <2>2. LogKept /\ WriteThrough' /\ Chain' /\ Covered'
        BY <2>1, QuietStep
    <2>3. PICK x \in Nat : /\ x < Live /\ rp.pos = At(x) /\ AppliedUpTo(x)
                           /\ x \notin Heads /\ (x + 1 = Live \/ x + 1 \in Heads)
        BY <1>1, <2>1, <1>c DEF SkipCommit
    <2>4. rp'.pos = Succ(rp.pos)
        BY <1>1, <1>a DEF SkipCommit, Cursors
    <2>5. rp'.pos = At(x + 1) /\ x + 1 \in 0..Live
        BY <2>3, <2>4, <1>a, PosSucc DEF At
    <2>6. ScanAt(x + 1)
        BY <2>3 DEF ScanAt
    <2>7. AppliedUpTo(x + 1)
        <3>1. \A y \in Heads : y \in Nat /\ y # x
            BY <2>3, HeadFacts
        <3>2. \A y \in Heads : (y < x + 1 => y < x) /\ (y >= x => y >= x + 1)
            BY <2>3, <3>1
        <3> QED
            BY <2>3, <3>2 DEF AppliedUpTo
    <2>8. Live' = Live /\ At(x + 1)' = At(x + 1) /\ ScanAt(x + 1)' /\ AppliedUpTo(x + 1)'
        BY <2>1, <2>2, <2>6, <2>7, KeptEntries, KeptScanAt, KeptApplied
    <2>9. \E y \in 0..Live' : rp'.pos = At(y)' /\ ScanAt(y)' /\ AppliedUpTo(y)'
        BY <2>5, <2>8
    <2>10. jsb = vsb /\ jsb.magic
        BY <2>1, <1>b
    <2> QED
        BY <2>1, <2>2, <2>9, <2>10 DEF Appending, Formatting, Homed, Replaying, Busy
\* Both versions of the journal read the entry the scan stands at.
<1>2. ASSUME NEW h \in Heads, AppliedUpTo(h), pc = "scan", pc' = "apply",
             UNCHANGED deviceVars, logical' = logical, jsb' = jsb,
             rp'.refs = Refs(h), rp'.data = [i \in 1..Size(h) |-> Logged(h, i)],
             rp'.pos = At(h + Size(h) + IF Auth THEN 2 ELSE 1), rp'.i = 1
      PROVE  Wal'
    <2>1. LogKept /\ WriteThrough' /\ Chain' /\ Covered' /\ vsb' = vsb /\ vhome' = vhome
        BY <1>2, QuietStep DEF deviceVars
    <2>2. Heads' = Heads /\ Refs(h)' = Refs(h) /\ Size(h)' = Size(h)
          /\ \A i \in 1..Size(h) : Logged(h, i)' = Logged(h, i)
        BY <2>1, KeptEntries
    <2>3. AppliedUpTo(h)'
        BY <1>2, <2>1, KeptApplied
    <2>4. [i \in 1..Size(h) |-> Logged(h, i)]' = [i \in 1..Size(h) |-> Logged(h, i)]
        BY <2>2
    <2>5. At(h + Size(h) + IF Auth THEN 2 ELSE 1)' = At(h + Size(h) + IF Auth THEN 2 ELSE 1)
        BY <2>1, <2>2 DEF At
    <2>6. Size(h) \in Nat
        BY HeadFacts
    <2>7. \A i \in 1..Size(h) : ~(i < rp'.i)
        BY <1>2, <2>6
    <2>8. jsb = vsb /\ jsb.magic
        BY <1>2, <1>b
    <2>9. Replaying'
        BY <1>2, <2>1, <2>2, <2>3, <2>4, <2>5, <2>7, <2>8 DEF Replaying
    <2> QED
        BY <1>2, <2>1, <2>8, <2>9 DEF Appending, Formatting, Homed, Busy
<1>3. CASE ScanLegacy
    <2>1. UNCHANGED deviceVars /\ logical' = logical /\ pc' = "apply" /\ pc = "scan" /\ jsb' = jsb /\ ~Auth
          /\ Scanning /\ vring[rp.pos].type = "meta"
        BY <1>3 DEF ScanLegacy, Scanning, historyVars
    <2>2. PICK h \in Heads : rp.pos = At(h) /\ AppliedUpTo(h)
        BY <2>1, <1>c
    <2>3. h \in Nat /\ Size(h) \in Nat /\ h + Size(h) + 2 <= Live /\ Refs(h) \in RefSeqs
        BY HeadFacts
    <2>4. Distance(Succ(rp.pos), jsb.head) = Live - h - 1
        BY <2>1, <2>2, <1>b, ReadsEntry
    <2>5. Size(h) < Live - h - 1
        BY <2>3, <1>a
    <2>6. Len(vring[rp.pos].refs) = Size(h) /\ vring[rp.pos].refs = Refs(h)
        BY <2>2 DEF Size, Refs
    <2>7. rp' = [pos |-> (rp.pos + Size(h) + 1) % RingSize, seq |-> vring[rp.pos].seq,
                 refs |-> SubSeq(Refs(h), 1, Size(h)), data |-> Staged(rp.pos, Size(h)),
                 i |-> 1, ok |-> rp.ok]
        BY <1>3, <2>4, <2>5, <2>6 DEF ScanLegacy
    <2>8. SubSeq(Refs(h), 1, Size(h)) = Refs(h)
        BY <2>3, RefFacts DEF Size
    <2>9. rp'.refs = Refs(h) /\ rp'.data = [i \in 1..Size(h) |-> Logged(h, i)]
          /\ rp'.pos = At(h + Size(h) + 1) /\ rp'.i = 1
        BY <2>2, <2>7, <2>8, ReadsEntry
    <2> QED
        BY <1>2, <2>1, <2>2, <2>9
<1>4. CASE ScanAuth
    <2>1. UNCHANGED deviceVars /\ logical' = logical /\ pc' = "apply" /\ pc = "scan" /\ jsb' = jsb /\ Auth
          /\ Scanning /\ vring[rp.pos].type = "meta"
        BY <1>4 DEF ScanAuth, Scanning, historyVars
    <2>2. PICK h \in Heads : rp.pos = At(h) /\ AppliedUpTo(h)
        BY <2>1, <1>c
    <2>6. Len(vring[rp.pos].refs) = Size(h) /\ vring[rp.pos].refs = Refs(h)
        BY <2>2 DEF Size, Refs
    <2>7. rp' = [pos |-> (rp.pos + Size(h) + 2) % RingSize, seq |-> vring[rp.pos].seq,
                 refs |-> Refs(h), data |-> Staged(rp.pos, Size(h)),
                 i |-> 1, ok |-> rp.ok]
        BY <1>4, <2>6 DEF ScanAuth
    <2>9. rp'.refs = Refs(h) /\ rp'.data = [i \in 1..Size(h) |-> Logged(h, i)]
          /\ rp'.pos = At(h + Size(h) + 2) /\ rp'.i = 1
        BY <2>2, <2>7, ReadsEntry
    <2> QED
        BY <1>2, <2>1, <2>2, <2>9
<1>5. CASE ScanBreaks
    <2>1. PICK x \in Nat : rp.pos = At(x) /\ (\/ x \in Heads /\ vring[At(x)].type = "meta"
                                              \/ vring[At(x)].type = "commit")
        BY <1>5, <1>c DEF ScanBreaks
    <2>2. Auth /\ vring[rp.pos].type = "meta" /\ ~Authentic(rp.pos) /\ pc = "scan"
        BY <1>5, <2>1, NoError DEF ScanBreaks, Scanning
    <2>3. x \in Heads /\ jsb = vsb
        BY <2>1, <2>2, <1>b
    <2>4. Authentic(rp.pos)
        BY <2>1, <2>2, <2>3, EntryAuthentic
    <2> QED
        BY <2>2, <2>4
<1>d. ASSUME pc = "apply"
      PROVE  /\ jsb = vsb /\ jsb.magic
             /\ \E h \in Heads :
                   /\ rp.refs = Refs(h) /\ Len(rp.refs) = Size(h)
                   /\ rp.data = [i \in 1..Size(h) |-> Logged(h, i)]
                   /\ rp.pos = At(h + Size(h) + IF Auth THEN 2 ELSE 1)
                   /\ AppliedUpTo(h)
                   /\ \A i \in 1..Size(h) : i < rp.i => vhome[Refs(h)[i]] = Logged(h, i)
    BY <1>d DEF Replaying, Formatting, Size
<1>6. CASE ApplyBlock
    <2>0. pc = "apply" /\ pc' = "apply" /\ jsb' = jsb /\ logical' = logical
          /\ rp.i <= Len(rp.refs) /\ PutHome(rp.refs[rp.i], rp.data[rp.i])
          /\ rp' = [rp EXCEPT !.i = @ + 1]
        BY <1>6, NoError DEF ApplyBlock, Ignoring, historyVars
    <2>1. PICK h \in Heads :
                   /\ rp.refs = Refs(h) /\ Len(rp.refs) = Size(h)
                   /\ rp.data = [i \in 1..Size(h) |-> Logged(h, i)]
                   /\ rp.pos = At(h + Size(h) + IF Auth THEN 2 ELSE 1)
                   /\ AppliedUpTo(h)
                   /\ \A i \in 1..Size(h) : i < rp.i => vhome[Refs(h)[i]] = Logged(h, i)
        BY <2>0, <1>d
    <2>2. rp.i \in Nat /\ rp.i >= 1
        BY <1>a, CursorFacts
    <2>3. Size(h) \in Nat /\ Refs(h) \in [1..Size(h) -> Targets]
          /\ \A i, k \in 1..Size(h) : Refs(h)[i] = Refs(h)[k] => i = k
        BY HeadFacts
    <2>4. rp.i \in 1..Size(h)
        BY <2>0, <2>1, <2>2, <2>3
    <2> DEFINE t0 == Refs(h)[rp.i]
    <2>5. t0 \in Targets /\ Touches(h, t0)
        BY <2>3, <2>4 DEF Touches
    <2>6. vhome' = [vhome EXCEPT ![t0] = Logged(h, rp.i)] /\ vsb' = vsb /\ vring' = vring
        BY <2>0, <2>1, <2>4 DEF PutHome
    <2>7. DOMAIN vhome = Targets
        BY DEF TypeInv, DeviceInv, Contents
    <2>8. vhome'[t0] = Logged(h, rp.i) /\ \A t \in Targets : t # t0 => vhome'[t] = vhome[t]
        BY <2>5, <2>6, <2>7
    <2>9. LogKept
        BY <2>6 DEF LogKept
    <2>10. WriteThrough'
        BY <2>0 DEF WriteThrough, PutHome
    <2> HIDE DEF t0
    <2>11. Chain' /\ Covered'
        BY <2>0, <2>5, <2>8, <2>9, KeptChain, KeptCovered
    <2>12. Heads' = Heads /\ Refs(h)' = Refs(h) /\ Size(h)' = Size(h)
           /\ (\A i \in 1..Size(h) : Logged(h, i)' = Logged(h, i))
           /\ \A y \in Heads : \A t : Touches(y, t)' = Touches(y, t)
        BY <2>9, KeptEntries
    <2>13. AppliedUpTo(h)'
        <3>1. SUFFICES ASSUME NEW t \in Targets, NEW y \in Heads, y < h, Touches(y, t)
                       PROVE  vhome'[t] = logical[t] \/ \E z \in Heads : z >= h /\ Touches(z, t)
            BY <2>0, <2>12 DEF AppliedUpTo
        <3>2. vhome[t] = logical[t] \/ \E z \in Heads : z >= h /\ Touches(z, t)
            BY <2>1, <3>1 DEF AppliedUpTo
        <3>3. h >= h
            BY HeadFacts
        <3> QED
            BY <2>5, <2>8, <3>2, <3>3
    <2>14. rp'.refs = rp.refs /\ rp'.data = rp.data /\ rp'.pos = rp.pos /\ rp'.i = rp.i + 1
        BY <2>0, <1>a DEF Cursors
    <2>15. [i \in 1..Size(h) |-> Logged(h, i)]' = [i \in 1..Size(h) |-> Logged(h, i)]
        BY <2>12
    <2>16. At(h + Size(h) + IF Auth THEN 2 ELSE 1)' = At(h + Size(h) + IF Auth THEN 2 ELSE 1)
        BY <2>6, <2>12 DEF At
    <2>17. ASSUME NEW i \in 1..Size(h), i < rp'.i
           PROVE  vhome'[Refs(h)[i]] = Logged(h, i)
        <3>1. CASE i = rp.i
            BY <3>1, <2>8 DEF t0
        <3>2. CASE i # rp.i
            <4>1. i < rp.i
                BY <3>2, <2>17, <2>14, <2>2, <2>3
            <4>2. Refs(h)[i] # t0 /\ Refs(h)[i] \in Targets
                BY <3>2, <2>3, <2>4 DEF t0
            <4> QED
                BY <4>1, <4>2, <2>1, <2>8
        <3> QED
            BY <3>1, <3>2
    <2>18. jsb = vsb /\ jsb.magic
        BY <2>0, <1>d
    <2>19. Replaying'
        BY <2>0, <2>1, <2>6, <2>12, <2>13, <2>14, <2>15, <2>16, <2>17, <2>18 DEF Replaying
    <2> QED
        BY <2>0, <2>6, <2>10, <2>11, <2>18, <2>19 DEF Appending, Formatting, Homed, Busy
<1>7. CASE EntryApplied
    <2>0. pc = "apply" /\ pc' = "scan" /\ jsb' = jsb /\ logical' = logical /\ rp' = rp
          /\ rp.i > Len(rp.refs) /\ UNCHANGED deviceVars /\ vsb' = vsb /\ vhome' = vhome
        BY <1>7 DEF EntryApplied, historyVars, ramVars, deviceVars
    <2>1. PICK h \in Heads :
                   /\ rp.refs = Refs(h) /\ Len(rp.refs) = Size(h)
                   /\ rp.data = [i \in 1..Size(h) |-> Logged(h, i)]
                   /\ rp.pos = At(h + Size(h) + IF Auth THEN 2 ELSE 1)
                   /\ AppliedUpTo(h)
                   /\ \A i \in 1..Size(h) : i < rp.i => vhome[Refs(h)[i]] = Logged(h, i)
        BY <2>0, <1>d
    <2>2. rp.i \in Nat /\ Size(h) \in Nat /\ h \in Nat /\ h + Size(h) + 2 <= Live
        BY <1>a, CursorFacts, HeadFacts
    <2>3. \A i \in 1..Size(h) : vhome[Refs(h)[i]] = Logged(h, i)
        BY <2>0, <2>1, <2>2
    <2> DEFINE x == h + Size(h) + IF Auth THEN 2 ELSE 1
    <2>4. x \in 0..Live /\ rp.pos = At(x)
        BY <2>1, <2>2, <1>a
    <2>5. ScanAt(x)
        <3>1. Complete(h)
            BY DEF Chain
        <3>2. h + Size(h) + 2 = Live \/ h + Size(h) + 2 \in Heads
            BY <3>1 DEF Complete
        <3> QED
            BY <3>2 DEF ScanAt
    <2>6. \A y \in Heads : y \in Nat /\ (y < x => y <= h) /\ (y > h => y >= x)
        <3>1. \A y \in Heads : y \in Nat /\ (y > h => y >= h + Size(h) + 2)
            BY HeadFacts, HeadsApart
        <3> QED
            BY <3>1, <2>2
    <2> HIDE DEF x
    <2>7. AppliedUpTo(x)
        <3>1. SUFFICES ASSUME NEW t \in Targets, NEW y \in Heads, y < x, Touches(y, t)
                       PROVE  vhome[t] = logical[t] \/ \E z \in Heads : z >= x /\ Touches(z, t)
            BY DEF AppliedUpTo
        <3>2. CASE Touches(h, t)
            <4>1. PICK i \in 1..Size(h) : Refs(h)[i] = t
                BY <3>2 DEF Touches
            <4>2. vhome[t] = Logged(h, i)
                BY <4>1, <2>3
            <4>3. CASE \E z \in Heads : z > h /\ Touches(z, t)
                BY <4>3, <2>6
            <4>4. CASE \A z \in Heads : z > h => ~Touches(z, t)
                <5>1. Logged(h, i) = logical[t]
                    BY <4>1, <4>4 DEF Covered
                <5> QED
                    BY <4>2, <5>1
            <4> QED
                BY <4>3, <4>4
        <3>3. CASE ~Touches(h, t)
            <4>1. y < h
                BY <3>1, <3>3, <2>2, <2>6
            <4>2. vhome[t] = logical[t] \/ \E z \in Heads : z >= h /\ Touches(z, t)
                BY <4>1, <3>1, <2>1 DEF AppliedUpTo
            <4>3. \A z \in Heads : z >= h /\ Touches(z, t) => z >= x
                BY <3>3, <2>2, <2>6
            <4> QED
                BY <4>2, <4>3
        <3> QED
            BY <3>2, <3>3
    <2>8. LogKept /\ WriteThrough' /\ Chain' /\ Covered'
        BY <2>0, QuietStep
    <2>9. PICK p \in 0..Live : p = x
        BY <2>4
    <2>10. Live' = Live /\ At(p)' = At(p) /\ ScanAt(p)' /\ AppliedUpTo(p)'
        BY <2>0, <2>5, <2>7, <2>8, <2>9, <1>a, KeptEntries, KeptScanAt, KeptApplied
    <2>11. \E y \in 0..Live' : rp'.pos = At(y)' /\ ScanAt(y)' /\ AppliedUpTo(y)'
        BY <2>0, <2>4, <2>9, <2>10
    <2>12. jsb = vsb /\ jsb.magic
        BY <2>0, <1>d
    <2> QED
        BY <2>0, <2>8, <2>11, <2>12 DEF Appending, Formatting, Homed, Replaying, Busy
<1>8. CASE ReplayDone
    <2>0. pc = "scan" /\ rp.pos = jsb.head /\ pc' = "mounted" /\ PutSb(jsb') /\ logical' = logical
          /\ jsb' = [jsb EXCEPT !.tail = jsb.head, !.seq = @ + 1]
        BY <1>8, NoError DEF ReplayDone, Ignoring, historyVars
    <2>1. AppliedUpTo(Live) /\ jsb = vsb /\ jsb.magic
        BY <2>0, <1>b
    <2>2. jsb'.head = jsb'.tail /\ jsb'.magic
        BY <2>0, <2>1 DEF TypeInv, RamInv, Superblocks
    <2>3. vsb' = jsb' /\ vhome' = vhome /\ WriteThrough'
        BY <2>0 DEF PutSb, WriteThrough
    <2>4. ASSUME NEW t \in Targets PROVE vhome[t] = logical[t]
        <3>1. CASE \E y \in Heads : Touches(y, t)
            <4>1. \A y \in Heads : y < Live /\ ~(y >= Live)
                BY HeadFacts, <1>a
            <4> QED
                BY <3>1, <4>1, <2>1 DEF AppliedUpTo
        <3>2. CASE \A y \in Heads : ~Touches(y, t)
            BY <3>2 DEF Covered
        <3> QED
            BY <3>1, <3>2
    <2>5. Chain' /\ Covered'
        BY <2>0, <2>2, <2>3, <2>4, Emptied
    <2> QED
        BY <2>0, <2>2, <2>3, <2>5 DEF Appending, Formatting, Homed, Replaying, Busy
<1> QED
    BY <1>1, <1>3, <1>4, <1>5, <1>6, <1>7, <1>8 DEF Recovery

LEMMA BeginStep ==
    ASSUME WalInv, TypeInv', NEW n \in 1..MaxRefs, NEW refs \in RefsOf(n),
           NEW data \in PayloadsOf(n), Begin(refs, data)
    PROVE  Wal'
<1> USE DEF WalInv, Wal
<1>0. UNCHANGED deviceVars /\ logical' = logical /\ jsb' = jsb /\ unsaved' = unsaved
      /\ pc = "idle" /\ pc' = "meta" /\ Fits(Len(refs)) /\ txn'.refs = refs
      /\ inflight' = Apply(logical, txn') /\ vsb' = vsb /\ vhome' = vhome
    BY DEF Begin, deviceVars, Entry
<1>1. LogKept /\ WriteThrough' /\ Chain' /\ Covered'
    BY <1>0, QuietStep
<1>2. jsb.head = vsb.head /\ jsb.tail = vsb.tail /\ jsb.magic
    BY <1>0 DEF Appending, Formatting
<1>3. Live \in Nat /\ At(Live) = vsb.head
    BY LiveType
<1>4. Live' = Live /\ At(Live)' = At(Live) /\ Live + 0 = Live
    BY <1>0, <1>3 DEF Live, At
<1>5. Live + Len(refs) + 2 <= RingSize - 1
    BY <1>0, <1>2 DEF Fits, Live
<1>6. Written' = 0
    BY <1>0 DEF Written
<1>7. At(Live + Written)' = vsb.head
    BY <1>3, <1>4, <1>6
<1>7a. Len(refs) \in Nat
    BY NewTransaction
<1>8. Appending'
    BY <1>0, <1>2, <1>4, <1>5, <1>6, <1>7, <1>7a DEF Appending, Busy
<1> QED
    BY <1>0, <1>1, <1>2, <1>8 DEF Formatting, Homed, Replaying, Busy

LEMMA RefusedStep ==
    ASSUME WalInv, Refused
    PROVE  Wal'
<1> USE DEF WalInv, Wal
<1>0. UNCHANGED deviceVars /\ logical' = logical /\ jsb' = jsb /\ unsaved' = unsaved
      /\ pc = "idle" /\ pc' = "idle" /\ vsb' = vsb /\ vhome' = vhome
    BY DEF Refused, deviceVars, historyVars
<1>1. LogKept /\ WriteThrough' /\ Chain' /\ Covered'
    BY <1>0, QuietStep
<1> QED
    BY <1>0, <1>1 DEF Appending, Formatting, Homed, Replaying, Busy

\* One block of the entry in progress is appended after those already there.
LEMMA AppendStep ==
    ASSUME ~DeviceCache, MaxErrors = 0, WalInv, TypeInv',
           CommitMeta \/ CommitData \/ CommitMark
    PROVE  Wal' /\ LogKept
<1> USE DEF WalInv, Wal
<1>a. Live \in Nat /\ Live < RingSize /\ RingSize \in Nat /\ vsb.tail \in Ring
      /\ txn \in Transactions /\ rp \in Cursors /\ rp.i \in Nat
    BY LiveType, CursorFacts DEF TypeInv, RamInv
<1>b. /\ pc \in Busy /\ pc # "sb" /\ pc' \in Busy /\ pc' # "meta"
      /\ txn' = txn /\ logical' = logical /\ inflight' = inflight /\ unsaved' = unsaved
      /\ jsb' = [jsb EXCEPT !.head = Succ(@)]
    BY DEF CommitMeta, CommitData, CommitMark, AppendBlock, Busy, historyVars
<1>c. PICK n \in Nat : n = Len(txn.refs) /\ n = Len(txn.data)
    BY <1>a, TxnFacts
<1>d. Written \in Nat /\ Written <= n + 1 /\ Written' = Written + 1
    <2>1. CASE CommitMeta
        BY <2>1, <1>c DEF CommitMeta, AppendBlock, Written, NoReplay
    <2>2. CASE CommitData
        <3>1. rp.i <= n /\ pc = "data" /\ pc' = IF rp.i < n THEN "data" ELSE "commit"
            BY <2>2, <1>c DEF CommitData, AppendBlock, TypeInv, RamInv
        <3>2. rp'.i = rp.i + 1
            BY <2>2, <1>a DEF CommitData, Cursors
        <3> QED
            BY <3>1, <3>2, <1>a, <1>b, <1>c DEF Written
    <2>3. CASE CommitMark
        BY <2>3, <1>c DEF CommitMark, AppendBlock, Written
    <2> QED
        BY <2>1, <2>2, <2>3
<1>e. PICK w \in Nat : w = Written
    BY <1>d
<1>f. jsb.tail = vsb.tail /\ jsb.magic /\ jsb.head = At(Live + w) /\ Live + n + 2 <= RingSize - 1
    BY <1>b, <1>c, <1>e DEF Appending, Formatting, Busy
<1>g. Live + w \in Nat /\ Live <= Live + w /\ Live + w + 1 < RingSize
    BY <1>a, <1>c, <1>d, <1>e, <1>f
<1> DEFINE B == IF pc = "meta" THEN MetaBlock(txn)
                ELSE IF pc = "data" THEN DataBlock(txn.data[rp.i])
                ELSE CommitBlock(txn)
<1>1. PutRing(At(Live + w), B)
    BY NoError, <1>f DEF CommitMeta, CommitData, CommitMark, AppendBlock, Ignoring
<1> HIDE DEF B
<1>2. /\ LogKept /\ vring'[At(Live + w)] = B /\ Live' = Live
      /\ \A z \in Nat : z < RingSize /\ z # Live + w => vring'[At(z)] = vring[At(z)]
      /\ \A z \in Nat : At(z)' = At(z)
    BY <1>1, <1>g, <1>a, AppendsBeyond
<1>3. vsb' = vsb /\ vhome' = vhome /\ WriteThrough'
    BY <1>1 DEF PutRing, WriteThrough
<1>4. Chain' /\ Covered'
    BY <1>2, <1>3, <1>b, KeptChain, KeptCovered
<1>5. jsb'.head = At(Live + w + 1) /\ jsb'.tail = jsb.tail /\ jsb'.magic = jsb.magic
    <2>1. Succ(At(Live + w)) = At(Live + w + 1)
        BY <1>a, <1>g, PosSucc DEF At
    <2> QED
        BY <2>1, <1>b, <1>f DEF TypeInv, RamInv, Superblocks
<1>6. Written' = w + 1 /\ Live + (w + 1) = Live + w + 1 /\ Live + w + 1 \in Nat
    BY <1>a, <1>d, <1>e
<1>7. At(Live + Written)' = At(Live + w + 1)
    BY <1>2, <1>6
<1>8. (vring[At(Live)])' = MetaBlock(txn)
    <2>1. CASE w = 0
        <3>1. pc = "meta"
            BY <2>1, <1>a, <1>b, <1>c, <1>e, CursorFacts DEF Written, Busy
        <3> QED
            BY <3>1, <2>1, <1>2, <1>a DEF B
    <2>2. CASE w # 0
        <3>1. vring[At(Live)] = MetaBlock(txn)
            BY <2>2, <1>b, <1>d, <1>e DEF Appending
        <3> QED
            BY <3>1, <2>2, <1>2, <1>a, <1>g
    <2> QED
        BY <2>1, <2>2
<1>9. ASSUME NEW i \in 1..n, i < w + 1
      PROVE  (vring[At(Live + i)])' = DataBlock(txn.data[i])
    <2>0. Live + i \in Nat /\ Live + i < RingSize /\ (vring[At(Live + i)])' = vring'[At(Live + i)]
        BY <1>a, <1>f, <1>2, <1>c
    <2>1. CASE i = w
        <3>1. pc = "data" /\ rp.i = i
            <4>1. i \in Nat /\ i >= 1 /\ i <= n
                OBVIOUS
            <4>2. pc # "meta"
                BY <2>1, <4>1, <1>e DEF Written
            <4>3. pc # "commit"
                <5> SUFFICES ASSUME pc = "commit" PROVE FALSE
                    OBVIOUS
                <5>1. Written = n + 1
                    BY <1>c DEF Written
                <5> QED
                    BY <5>1, <2>1, <4>1, <1>e, <1>c
            <4>4. pc = "data"
                BY <4>2, <4>3, <1>b DEF Busy
            <4> QED
                BY <4>4, <2>1, <1>e DEF Written
        <3> QED
            BY <3>1, <2>0, <2>1, <1>2 DEF B
    <2>2. CASE i # w
        <3>1. i < Written /\ i \in 1..Len(txn.refs)
            BY <2>2, <1>9, <1>c, <1>e
        <3>2. vring[At(Live + i)] = DataBlock(txn.data[i])
            BY <3>1, <1>b DEF Appending
        <3>3. Live + i # Live + w
            BY <2>2, <1>a
        <3> QED
            BY <3>2, <3>3, <2>0, <1>2
    <2> QED
        BY <2>1, <2>2
<1>10. ASSUME pc' = "sb"
       PROVE  (vring[At(Live + n + 1)])' = CommitBlock(txn)
    <2>1. CommitMark
        BY <1>10 DEF CommitMeta, CommitData, AppendBlock
    <2>2. pc = "commit" /\ w = n + 1
        BY <2>1, <1>c, <1>e DEF CommitMark, Written
    <2>3. Live + n + 1 = Live + w /\ B = CommitBlock(txn)
        BY <2>2, <1>a, <1>c DEF B
    <2> QED
        BY <2>3, <1>2, <1>g
<1>11. inflight = Apply(logical, txn)
    BY <1>b DEF Appending
<1>12. CommitBlock(txn)' = CommitBlock(txn) /\ MetaBlock(txn)' = MetaBlock(txn)
       /\ (\A i : DataBlock(txn.data[i])' = DataBlock(txn.data[i])) /\ Apply(logical, txn)' = Apply(logical, txn)
    BY <1>b DEF CommitBlock, MetaBlock, DataBlock, Apply
<1>13. Appending'
    <2>1. pc' \notin {"mounted", "idle"}
        BY <1>b DEF Busy
    <2>2. jsb'.tail = vsb'.tail /\ Live' + Len(txn'.refs) + 2 <= RingSize - 1
        BY <1>2, <1>3, <1>5, <1>f, <1>b, <1>c
    <2>3. jsb'.head = At(Live + Written)'
        BY <1>5, <1>7
    <2>4. \A i \in 1..Len(txn'.refs) : i < Written' => (vring[At(Live + i)])' = DataBlock(txn'.data[i])
        BY <1>9, <1>6, <1>b, <1>c
    <2>5. pc' = "sb" => (vring[At(Live + Len(txn.refs) + 1)])' = CommitBlock(txn)'
        BY <1>10, <1>12, <1>b, <1>c
    <2>6. (vring[At(Live)])' = MetaBlock(txn)' /\ inflight' = Apply(logical, txn)'
        BY <1>8, <1>11, <1>12, <1>b
    <2> QED
        BY <2>1, <2>2, <2>3, <2>4, <2>5, <2>6 DEF Appending
<1> QED
    BY <1>2, <1>3, <1>4, <1>5, <1>13, <1>b, <1>f DEF Formatting, Homed, Replaying, Busy

LEMMA DataBlockHolds ==
    ASSUME NEW v PROVE DataBlock(v).type = "data" /\ Content(DataBlock(v)) = v
<1>1. DataBlock(v).type = "data" /\ DataBlock(v).data = <<v>>
    BY DEF DataBlock, Block
<1>2. <<v>>[1] = v
    OBVIOUS
<1> QED
    BY <1>1, <1>2 DEF Content

\* The superblock write of journal_commit makes the entry part of the log.
LEMMA CommitDoneStep ==
    ASSUME ~DeviceCache, MaxErrors = 0, WalInv, TypeInv', CommitDone
    PROVE  Wal'
<1> USE DEF WalInv, Wal
<1>a. Live \in Nat /\ Live < RingSize /\ RingSize \in Nat /\ vsb.tail \in Ring
      /\ txn \in Transactions
    BY LiveType DEF TypeInv, RamInv
<1>b. /\ pc = "sb" /\ pc' = "idle" /\ jsb' = jsb /\ logical' = inflight
      /\ unsaved' = unsaved \union {txn.refs[i] : i \in DOMAIN txn.refs}
      /\ PutSb(jsb)
    BY NoError DEF CommitDone, Ignoring
<1>c. PICK n \in Nat : n = Len(txn.refs) /\ n = Len(txn.data)
    BY <1>a, TxnFacts
<1>d. PICK L \in Nat : L = Live
    BY <1>a
<1>e. Written = n + 2 /\ L + (n + 2) = L + n + 2
    BY <1>b, <1>c DEF Written
<1>f. /\ jsb.tail = vsb.tail /\ jsb.magic /\ L + n + 2 < RingSize /\ L + n + 2 \in Nat
      /\ jsb.head = At(L + n + 2)
      /\ vring[At(L)] = MetaBlock(txn)
      /\ \A i \in 1..n : vring[At(L + i)] = DataBlock(txn.data[i])
      /\ vring[At(L + n + 1)] = CommitBlock(txn)
      /\ inflight = Apply(logical, txn)
    <2>1. pc \in Busy
        BY <1>b DEF Busy
    <2>2. jsb.tail = vsb.tail /\ Live + n + 2 <= RingSize - 1 /\ jsb.head = At(Live + Written)
          /\ inflight = Apply(logical, txn) /\ vring[At(Live + n + 1)] = CommitBlock(txn)
          /\ (Written > 0 => vring[At(Live)] = MetaBlock(txn))
          /\ \A i \in 1..n : i < Written => vring[At(Live + i)] = DataBlock(txn.data[i])
        BY <2>1, <1>b, <1>c DEF Appending
    <2>3. jsb.magic
        BY <1>b DEF Formatting
    <2>4. Written > 0 /\ \A i \in 1..n : i < Written
        BY <1>e, <1>c
    <2> QED
        BY <2>2, <2>3, <2>4, <1>a, <1>d, <1>e
<1>1. vsb' = jsb /\ vring' = vring /\ vhome' = vhome /\ WriteThrough'
    BY <1>b DEF PutSb, WriteThrough
<1>2. (\A z : At(z)' = At(z)) /\ Live' = L + n + 2
    <2>1. \A z : At(z)' = At(z)
        BY <1>1, <1>f DEF At
    <2>2. L + n + 2 \in Ring
        BY <1>f, <1>a DEF Ring
    <2>3. Distance(vsb.tail, Pos(vsb.tail, L + n + 2)) = L + n + 2
        BY <2>2, <1>a, DistancePos
    <2> QED
        BY <2>1, <2>3, <1>1, <1>f DEF Live, At
<1>3. \A z : Refs(z)' = Refs(z) /\ Size(z)' = Size(z) /\ \A i, t : Logged(z, i)' = Logged(z, i) /\ Touches(z, t)' = Touches(z, t)
    <2>1. \A z : Refs(z)' = Refs(z) /\ Size(z)' = Size(z) /\ \A i : Logged(z, i)' = Logged(z, i)
        BY <1>1, <1>2 DEF Refs, Size, Logged
    <2> QED
        BY <2>1 DEF Touches
<1>4. Refs(L) = txn.refs /\ Size(L) = n /\ vring[At(L)].type = "meta" /\ vring[At(L)].seq = txn.seq
    <2>1. vring[At(L)] = MetaBlock(txn)
        BY <1>f
    <2>2. MetaBlock(txn).refs = txn.refs /\ MetaBlock(txn).type = "meta" /\ MetaBlock(txn).seq = txn.seq
        BY DEF MetaBlock, Block
    <2>3. Refs(L) = txn.refs
        BY <2>1, <2>2 DEF Refs
    <2>4. Size(L) = n
        BY <2>3, <1>c DEF Size
    <2> QED
        BY <2>1, <2>2, <2>3, <2>4
<1>5. \A i \in 1..n : vring[At(L + i)].type = "data" /\ Logged(L, i) = txn.data[i]
    BY <1>f, DataBlockHolds DEF Logged
<1>6. vring[At(L + n + 1)].type = "commit" /\ vring[At(L + n + 1)].seq = txn.seq
    BY <1>f DEF CommitBlock, Block
<1>7. Heads' = Heads \union {L}
    <2>1. ASSUME NEW x \in 0..(RingSize - 1), x < L + n + 2, vring[At(x)].type = "meta", ~(x < L)
          PROVE  x = L
        <3>1. CASE x = L + n + 1
            BY <3>1, <2>1, <1>6
        <3>2. CASE x > L /\ x < L + n + 1
            <4>1. x - L \in 1..n /\ L + (x - L) = x
                BY <3>2, <1>a, <1>c, <1>d
            <4>2. PICK i \in 1..n : L + i = x
                BY <4>1
            <4> QED
                BY <4>2, <1>5, <2>1
        <3> QED
            BY <3>1, <3>2, <2>1, <1>a, <1>c, <1>d
    <2>2. Heads' = {x \in 0..(RingSize - 1) : x < L + n + 2 /\ vring[At(x)].type = "meta"}
        BY <1>1, <1>2 DEF Heads
    <2>3. Heads = {x \in 0..(RingSize - 1) : x < L /\ vring[At(x)].type = "meta"}
        BY <1>d DEF Heads
    <2>4. L \in 0..(RingSize - 1) /\ L < L + n + 2
        BY <1>a, <1>d
    <2>5. \A x \in 0..(RingSize - 1) : x < L => x < L + n + 2
        BY <1>a, <1>d
    <2> QED
        BY <2>1, <2>2, <2>3, <2>4, <2>5, <1>4
<1>8. Chain'
    <2>1. Live' # 0 => 0 \in Heads'
        BY <1>7, <1>d DEF Chain
    <2>2. ASSUME NEW x \in Heads PROVE Complete(x)'
        <3>1. Complete(x) /\ x \in Nat /\ Size(x) \in Nat
            BY HeadFacts DEF Chain
        <3>2. x + Size(x) + 2 <= L /\ (x + Size(x) + 2 = L \/ x + Size(x) + 2 \in Heads)
            BY <3>1, <1>d DEF Complete
        <3>3. x + Size(x)' + 2 <= Live' /\ (x + Size(x)' + 2 = Live' \/ x + Size(x)' + 2 \in Heads')
            BY <3>1, <3>2, <1>2, <1>3, <1>7
        <3>4. \A i \in 1..Size(x) : vring[At(x + i)].type = "data"
            BY <3>1 DEF Complete
        <3>5. \A i \in 1..Size(x)' : (vring[At(x + i)].type = "data")'
            BY <3>4, <1>1, <1>2, <1>3
        <3>6. At(x + Size(x) + 1)' = At(x + Size(x) + 1)
            BY <1>2, <1>3
        <3>7. [i \in 1..Size(x) |-> Logged(x, i)]' = [i \in 1..Size(x) |-> Logged(x, i)]
            BY <1>3
        <3> QED
            BY <3>1, <3>3, <3>5, <3>6, <3>7, <1>1, <1>2, <1>3 DEF Complete
    <2>3. Complete(L)'
        <3>1. L + Size(L)' + 2 <= Live' /\ L + Size(L)' + 2 = Live'
            BY <1>2, <1>3, <1>4
        <3>2. \A i \in 1..Size(L)' : (vring[At(L + i)].type = "data")'
            BY <1>1, <1>2, <1>3, <1>4, <1>5
        <3>3. At(L + Size(L) + 1)' = At(L + n + 1)
            BY <1>2, <1>3, <1>4
        <3>4. ASSUME Auth
              PROVE  (vring[At(L + Size(L) + 1)].refs = Refs(L))'
                     /\ (vring[At(L + Size(L) + 1)].data = [i \in 1..Size(L) |-> Logged(L, i)])'
            <4>1. vring[At(L + n + 1)].refs = txn.refs /\ vring[At(L + n + 1)].data = txn.data
                BY <3>4, <1>f DEF CommitBlock, Block
            <4>2. txn.data = [i \in 1..n |-> txn.data[i]]
                BY <1>a, <1>c, TxnFacts
            <4>3. [i \in 1..Size(L) |-> Logged(L, i)]' = [i \in 1..n |-> txn.data[i]]
                BY <1>3, <1>4, <1>5
            <4> QED
                BY <4>1, <4>2, <4>3, <3>3, <1>1, <1>3, <1>4
        <3> QED
            BY <3>1, <3>2, <3>3, <3>4, <1>1, <1>2, <1>4, <1>6 DEF Complete
    <2> QED
        BY <2>1, <2>2, <2>3, <1>7 DEF Chain
<1>9. \A t \in Targets : (\A i \in 1..n : txn.refs[i] # t) => logical'[t] = logical[t]
    BY <1>a, <1>b, <1>c, <1>f, ApplyMiss, ZenonT(60)
<1>10. \A i \in 1..n : logical'[txn.refs[i]] = txn.data[i]
    <2>1. \A i \in 1..Len(txn.refs) : Apply(logical, txn)[txn.refs[i]] = txn.data[i]
        BY <1>a, ApplyHit
    <2>2. logical' = Apply(logical, txn)
        BY <1>b, <1>f
    <2> QED
        BY <2>1, <2>2, <1>c
<1>11. Covered'
    <2>1. ASSUME NEW t \in Targets, NEW x \in Heads \union {L}, NEW i \in 1..Size(x),
                 Refs(x)[i] = t, \A z \in Heads \union {L} : z > x => ~Touches(z, t)
          PROVE  Logged(x, i) = logical'[t]
        <3>1. CASE x = L
            BY <3>1, <2>1, <1>4, <1>5, <1>10
        <3>2. CASE x \in Heads
            <4>1. x \in Nat /\ L > x
                BY <3>2, HeadFacts, <1>d
            <4>2. ~Touches(L, t)
                BY <4>1, <2>1
            <4>3. logical'[t] = logical[t]
                BY <4>2, <1>4, <1>9 DEF Touches
            <4>4. Logged(x, i) = logical[t]
                BY <3>2, <2>1 DEF Covered
            <4> QED
                BY <4>3, <4>4
        <3> QED
            BY <3>1, <3>2
    <2>2. ASSUME NEW t \in Targets, \A x \in Heads \union {L} : ~Touches(x, t)
          PROVE  vhome[t] = logical'[t]
        <3>1. logical'[t] = logical[t]
            BY <2>2, <1>4, <1>9 DEF Touches
        <3> QED
            BY <3>1, <2>2 DEF Covered
    <2> QED
        BY <2>1, <2>2, <1>1, <1>3, <1>7 DEF Covered
<1>12. Homed'
    <2>1. ASSUME NEW t \in Targets, t \notin unsaved' PROVE vhome[t] = logical'[t]
        <3>1. DOMAIN txn.refs = 1..n
            BY <1>a, <1>c, TxnFacts
        <3>2. t \notin unsaved /\ \A i \in 1..n : txn.refs[i] # t
            BY <2>1, <3>1, <1>b
        <3>3. vhome[t] = logical[t]
            BY <3>2, <1>b DEF Homed, Busy
        <3> QED
            BY <3>2, <3>3, <1>9
    <2> QED
        BY <2>1, <1>1, <1>b DEF Homed, Busy
<1> QED
    BY <1>1, <1>8, <1>11, <1>12, <1>b, <1>f DEF Appending, Formatting, Replaying, Busy

LEMMA WriteHomeStep ==
    ASSUME ~DeviceCache, WalInv, NEW t \in Targets, WriteHome(t)
    PROVE  Wal'
<1> USE DEF WalInv, Wal
<1>0. /\ pc = "idle" /\ pc' = "idle" /\ jsb' = jsb /\ logical' = logical
      /\ PutHome(t, logical[t]) /\ unsaved' = unsaved \ {t}
    BY DEF WriteHome, historyVars
<1>1. vsb' = vsb /\ vring' = vring /\ WriteThrough' /\ vhome' = [vhome EXCEPT ![t] = logical[t]]
    BY <1>0 DEF PutHome, WriteThrough
<1>2. DOMAIN vhome = Targets
    BY DEF TypeInv, DeviceInv, Contents
<1>3. \A u \in Targets : vhome'[u] = IF u = t THEN logical[t] ELSE vhome[u]
    BY <1>1, <1>2
<1>4. LogKept
    BY <1>1 DEF LogKept
<1>5. Chain' /\ Covered'
    BY <1>0, <1>3, <1>4, KeptChain, KeptCovered
<1>6. Homed'
    BY <1>0, <1>3 DEF Homed, Busy
<1> QED
    BY <1>0, <1>1, <1>5, <1>6 DEF Appending, Formatting, Replaying, Busy

LEMMA CheckpointStep ==
    ASSUME ~DeviceCache, MaxErrors = 0, WalInv, TypeInv', Checkpoint
    PROVE  Wal'
<1> USE DEF WalInv, Wal
<1>0. /\ pc = "idle" /\ pc' = "idle" /\ logical' = logical /\ unsaved = {} /\ unsaved' = {}
      /\ PutSb(jsb') /\ jsb' = [jsb EXCEPT !.tail = jsb.head, !.seq = @ + 1]
    BY NoError DEF Checkpoint, Ignoring, historyVars
<1>1. jsb'.head = jsb'.tail /\ jsb'.magic
    BY <1>0 DEF TypeInv, RamInv, Superblocks, Formatting
<1>2. vsb' = jsb' /\ vhome' = vhome /\ WriteThrough'
    BY <1>0 DEF PutSb, WriteThrough
<1>3. \A t \in Targets : vhome[t] = logical[t]
    BY <1>0 DEF Homed
<1>4. Chain' /\ Covered'
    BY <1>0, <1>1, <1>2, <1>3, Emptied
<1> QED
    BY <1>0, <1>1, <1>2, <1>3, <1>4 DEF Appending, Formatting, Homed, Replaying, Busy

LEMMA WalInit == Init => Wal
<1> SUFFICES ASSUME Init PROVE Wal
    OBVIOUS
<1>1. TypeInv
    BY TypeInit
<1>2. vsb.head = vsb.tail /\ vhome = logical /\ pc = "off" /\ vsb = Unformatted
    BY DEF Init, Unformatted
<1>3. Heads = {} /\ Chain
    BY <1>1, <1>2, EmptyLog
<1>4. Covered
    BY <1>2, <1>3 DEF Covered
<1>5. WriteThrough
    BY DEF Init, WriteThrough
<1> QED
    BY <1>2, <1>3, <1>4, <1>5 DEF Wal, Appending, Formatting, Homed, Replaying, Busy

LEMMA WalNext ==
    ASSUME ~DeviceCache, MaxErrors = 0, WalInv, [Next]_vars
    PROVE  WalInv'
<1>1. TypeInv'
    BY TypeNext DEF WalInv
<1>2. CASE Next
    BY <1>1, <1>2, OpeningSteps, ReplaySteps, BeginStep, RefusedStep, AppendStep,
       CommitDoneStep, WriteHomeStep, CheckpointStep
    DEF Next, Committing, WalInv
<1>3. CASE UNCHANGED vars
    <2>1. UNCHANGED deviceVars /\ logical' = logical
        BY <1>3 DEF vars, historyVars
    <2>2. WriteThrough' /\ Chain' /\ Covered'
        BY <2>1, QuietStep DEF WalInv, Wal
    <2>u. /\ vsb' = vsb /\ vring' = vring /\ vhome' = vhome /\ jsb' = jsb /\ txn' = txn
          /\ unsaved' = unsaved /\ rp' = rp /\ logical' = logical /\ inflight' = inflight
          /\ pc' = pc
        BY <1>3 DEF vars, deviceVars, ramVars, historyVars
    <2>a. Live' = Live /\ Written' = Written /\ \A x : At(x)' = At(x)
        BY <2>u DEF Live, At, Written
    <2>b. Heads' = Heads /\ (\A x : Refs(x)' = Refs(x) /\ Size(x)' = Size(x))
          /\ (\A x, i : Logged(x, i)' = Logged(x, i))
        BY <2>a, <2>u DEF Heads, Refs, Size, Logged
    <2>c. (\A x, t : Touches(x, t)' = Touches(x, t)) /\ \A x : ScanAt(x)' = ScanAt(x)
        BY <2>a, <2>b DEF Touches, ScanAt
    <2>d. \A x : AppliedUpTo(x)' = AppliedUpTo(x)
        BY <2>u, <2>b, <2>c DEF AppliedUpTo
    <2>e. Appending'
        BY <2>u, <2>a DEF WalInv, Wal, Appending
    <2>f. Formatting' /\ Homed'
        BY <2>u DEF WalInv, Wal, Formatting, Homed
    <2>g. Replaying'
        BY <2>u, <2>a, <2>b, <2>c, <2>d DEF WalInv, Wal, Replaying
    <2>3. Appending' /\ Formatting' /\ Homed' /\ Replaying'
        BY <2>e, <2>f, <2>g
    <2> QED
        BY <1>1, <2>2, <2>3 DEF WalInv, Wal
<1> QED
    BY <1>2, <1>3

\* The write-ahead guarantee of capyfs_journal_write_metadata and journal_replay
\* on a device whose writes are durable when they return and do not fail, for
\* every ring and every number of crashes at any point.
THEOREM WriteAheadHolds ==
    ASSUME ~DeviceCache, MaxErrors = 0
    PROVE  Spec => []WalGuarantee
<1>1. Init => WalInv
    BY TypeInit, WalInit DEF WalInv
<1>2. WalInv /\ [Next]_vars => WalInv'
    BY WalNext
<1>3. WalInv => WalGuarantee
    <2> SUFFICES ASSUME WalInv, pc = "mounted" PROVE vhome = logical
        BY DEF WalGuarantee
    <2>1. TypeInv /\ vsb.head = vsb.tail /\ Covered
        BY DEF WalInv, Wal, Homed
    <2>2. Heads = {}
        BY <2>1, EmptyLog
    <2>3. \A t \in Targets : vhome[t] = logical[t]
        BY <2>1, <2>2 DEF Covered
    <2>4. vhome = [t \in Targets |-> vhome[t]] /\ logical = [t \in Targets |-> logical[t]]
        BY <2>1 DEF TypeInv, DeviceInv, HistoryInv, Contents
    <2> QED
        BY <2>3, <2>4
<1> QED
    BY <1>1, <1>2, <1>3, PTL DEF Spec

\* What LiveEntriesKept asks of a step.
LiveKept ==
    \A k \in Ring :
        Distance(dsb.tail, k) < Distance(dsb.tail, dsb.head) => vring'[k] = vring[k]

LEMMA LogKeptMeansLiveKept ==
    ASSUME TypeInv, WriteThrough, LogKept
    PROVE  LiveKept
<1> SUFFICES ASSUME NEW k \in Ring, Distance(vsb.tail, k) < Live
             PROVE  vring'[k] = vring[k]
    BY DEF LiveKept, WriteThrough, Live
<1>1. vsb.tail \in Ring
    BY LiveType
<1>2. Distance(vsb.tail, k) \in Nat /\ At(Distance(vsb.tail, k)) = k
    <2>1. Distance(vsb.tail, k) \in Ring
        BY <1>1, DistanceType
    <2>2. At(Distance(vsb.tail, k)) = k
        BY <1>1, PosDistance DEF At
    <2> QED
        BY <2>1, <2>2, JournalAssumption DEF Ring
<1> QED
    BY <1>2 DEF LogKept

LEMMA LiveKeptNext ==
    ASSUME ~DeviceCache, MaxErrors = 0, WalInv, [Next]_vars
    PROVE  LiveKept
<1> USE DEF WalInv, Wal
<1>1. CASE vring' = vring
    BY <1>1 DEF LiveKept
<1>2. CASE Crash
    <2>1. vring' = vring
        BY <1>2, CrashKeeps DEF deviceVars
    <2> QED
        BY <1>1, <2>1
<1>3. CASE FormatZero
    <2>1. vsb = Unformatted /\ vsb' = vsb
        BY <1>3, NoError DEF FormatZero, Formatting, Ignoring, PutRing
    <2>2. Live = 0
        BY <2>1, EmptyLog DEF Unformatted
    <2>3. LogKept
        BY <2>1, <2>2 DEF LogKept
    <2> QED
        BY <2>3, LogKeptMeansLiveKept
<1>4. CASE CommitMeta \/ CommitData \/ CommitMark
    <2>1. TypeInv'
        BY TypeNext
    <2>2. LogKept
        BY <1>4, <2>1, AppendStep
    <2> QED
        BY <2>2, LogKeptMeansLiveKept
<1>5. CASE ~(Crash \/ FormatZero \/ CommitMeta \/ CommitData \/ CommitMark)
    <2>1. vring' = vring
        BY <1>5 DEF Next, Reboot, Opening, Recovery, Committing, StartUse, Mount,
           MountFormat, FormatZeroSb, FormatDone, FormatFailed, SkipCommit, ScanLegacy,
           ScanAuth, ApplyBlock, EntryApplied, ScanBreaks, StopScan, ReplayDone, Begin,
           Refused, CommitDone, WriteHome, Checkpoint, Ignoring, PutSb, PutHome, vars,
           deviceVars
    <2> QED
        BY <1>1, <2>1
<1> QED
    BY <1>2, <1>3, <1>4, <1>5

\* journal_commit writes into the part of the ring that journal_checkpoint has
\* released, and a format never touches a journal that holds entries, on a
\* device whose writes are durable when they return and do not fail: for every
\* ring, however often it has wrapped around.
THEOREM LiveEntriesAlwaysKept ==
    ASSUME ~DeviceCache, MaxErrors = 0
    PROVE  Spec => LiveEntriesKept
<1>1. Init => WalInv
    BY TypeInit, WalInit DEF WalInv
<1>2. WalInv /\ [Next]_vars => WalInv'
    BY WalNext
<1>3. WalInv /\ [Next]_vars =>
          [\A k \in Ring :
              Distance(dsb.tail, k) < Distance(dsb.tail, dsb.head)
              => vring'[k] = vring[k]]_vars
    BY LiveKeptNext DEF LiveKept
<1> QED
    BY <1>1, <1>2, <1>3, PTL DEF Spec, LiveEntriesKept

=============================================================================

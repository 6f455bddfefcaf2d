------------------------ MODULE PackageInstallProofs ------------------------
(***************************************************************************)
(* Proofs about PackageInstall, for every catalogue, dependency relation   *)
(* and bound.  The inductive invariant is layered: TypeInv (types and      *)
(* control), Buffered (where unverified bytes may be), Closed (the tables  *)
(* list dependencies first), Phases (the frame of a call), Current (the    *)
(* database against the table), Agree (one call's payload, marker and      *)
(* table, step by step) and Survive (what one power cut leaves).           *)
(***************************************************************************)
EXTENDS PackageInstall, FiniteSetTheorems, SequenceTheorems, TLAPS

-----------------------------------------------------------------------------
(* The inductive invariant *)

Entries    == [pkg : Pkgs, ver : Versions]
Unique(t)  == \A i, j \in DOMAIN t : t[i].pkg = t[j].pkg => i = j
Tables     == {t \in Seq(Entries) : Len(t) <= MaxInstalled /\ Unique(t)}
Catalogues == [Pkgs -> 0..MaxVersion]
Files      == [Pkgs -> Contents]
Codes      == {"ok", "again", "refused"}
Frames     == [existing : BOOLEAN, buf : Contents, staged : BOOLEAN,
               atomic : BOOLEAN, backed : BOOLEAN, was : Contents,
               old : 0..MaxVersion, resave : BOOLEAN, hurt : BOOLEAN, rc : Codes]

\* Labels of capypkg_install: Checked once the payload passed the digest,
\* Placing while target is being replaced, Metadata once it is in place.
Placing  == {"keep", "swap", "write"}
Metadata == {"clean", "marker", "save"}
Checked  == {"drop", "parts", "undo"} \union Placing \union Metadata
Loaded   == {"stage", "verify"} \union Checked
Calls    == {"resolve", "fetch", "commit", "return"} \union Loaded
Quiet    == {"idle", "index", "next", "finish", "off"}
Labels   == Calls \union Quiet \union {"forget"}

FilesTyped ==
    /\ repo \in Catalogues /\ cache.ver \in Catalogues /\ avail \in Catalogues
    /\ target \in Files /\ backup \in Files /\ staging \in Files
    /\ parts \in Files /\ marker \in Files
    /\ table \in Tables /\ db \in Tables
    /\ auth \in BOOLEAN /\ done \in BOOLEAN

ControlTyped ==
    /\ stack \in Seq(Pkgs) /\ Len(stack) <= Budget
    /\ queue \in Seq(Pkgs) /\ failed \in Nat /\ failed + Len(queue) <= N
    /\ tries \in 0..Attempts /\ job \in {"user", "sweep"}
    /\ pc \in Labels /\ fr \in Frames /\ removed \subseteq Pkgs
    /\ io \in Nat /\ net \in Nat /\ cuts \in Nat /\ commands \in Nat

\* The stack, the queue and the frame at each label.
Framed ==
    /\ pc \in Calls \union {"forget"} => stack # <<>>
    /\ pc \in Calls => queue # <<>> /\ \A i \in DOMAIN stack : avail[stack[i]] # 0
    /\ pc = "next" => tries < Attempts
    /\ pc \in Quiet \union {"resolve"} => fr = NoFrame

\* What the frame of a commit knows about the table it may have to restore.
Restorable ==
    /\ pc = "save" => fr.old = VersionIn(table, Top)
    /\ pc = "undo" => /\ fr.old # 0 => Installed(Top)
                      /\ ~fr.resave => fr.old = VersionIn(table, Top)

TypeInv == FilesTyped /\ ControlTyped /\ Framed /\ Restorable

\* The downloaded bytes, and where they are.
Buffered ==
    /\ pc \in {"stage", "verify"} => fr.buf \in {avail[Top], Bad}
    /\ pc \in Checked => fr.buf = avail[Top]
    /\ pc \in {"verify", "drop"} \union Placing /\ fr.staged => staging[Top] = fr.buf
    /\ pc = "stage" => ~fr.staged
    /\ pc \in {"drop", "keep", "swap"} => fr.staged

VerifiedInv == TypeInv /\ Buffered /\ NoUnverified

\* Every dependency is listed before the packages that depend on it, those of B
\* aside, which were installed by an entry that had lost its dependencies.
Owed(p, B) == {d \in DepSet(p) : p \notin B}
Ordered(t, B) ==
    \A i \in DOMAIN t : \A d \in Owed(t[i].pkg, B) :
        \E j \in DOMAIN t : j < i /\ t[j].pkg = d

Closed ==
    removed = {} =>
        /\ Ordered(table, bared) /\ Ordered(db, bared)
        /\ pc \in {"fetch"} \union Loaded =>
              \A d \in Owed(Top, bared) : Installed(d)
        /\ pc = "undo" /\ fr.old = 0 =>
              \A i \in DOMAIN table : table[i].pkg = Top => i = Len(table)
Forgetting == pc = "forget" => removed # {} /\ Top \in removed

\* The frame of a call: what was installed, what is staged, what failed.
Phases ==
    /\ pc \in {"stage", "verify", "drop", "keep"} => ~fr.backed
    /\ pc \in {"verify", "write"} /\ ~fr.staged /\ Top \notin Big => fr.hurt
    /\ pc = "parts" /\ Top \notin Big => fr.hurt
    /\ pc \in Loaded \ {"undo"} => fr.existing = Installed(Top) /\ ~fr.resave
    /\ pc \in Loaded \ {"undo"} /\ io = 0 => ~fr.hurt
    /\ pc = "undo" /\ fr.old # 0 => fr.existing
    /\ pc = "undo" /\ io = 0 => ~fr.resave /\ ~Installed(Top)

\* db.idx is the table, as far as it fits; after a cut or a removal it still
\* lists no package that the table does not, the removed ones aside.
Current ==
    /\ cuts = 0 /\ removed = {} /\ ~(pc = "undo" /\ fr.resave) => db = Serialized(table)
    /\ pc # "off" => \A p \in Pkgs \ removed : VersionIn(db, p) # 0 => Installed(p)
    /\ pc = "off" => cuts > 0

-----------------------------------------------------------------------------
(* One call, step by step, on a machine that never lost power *)

PayloadFine(p) == Installed(p) /\ p \notin Big => Payload(p) = VersionIn(table, p)
MarkerFine(p)  == marker[p] = VersionIn(table, p)
Fine(p)        == PayloadFine(p) /\ MarkerFine(p)

\* The labels at which the files of Top are not those of its table entry.
Unsettled == {"swap", "parts", "undo"} \union Metadata

SwapFine(p) ==
    /\ MarkerFine(p)
    /\ fr.backed => target[p] = Absent /\ fr.existing
                    /\ (p \notin Big => backup[p] = VersionIn(table, p))
    /\ ~fr.backed => PayloadFine(p)
    /\ fr.existing /\ ~fr.hurt => target[p] = Absent

\* What a rollback would bring back.
Recoverable(p, v) ==
    /\ fr.atomic
    /\ fr.backed  => backup[p] = v
    /\ ~fr.backed => parts[p] = v

MetadataFine(p) ==
    /\ p \notin Big => Payload(p) = avail[p]
    /\ fr.existing /\ ~fr.hurt /\ p \notin Big => Recoverable(p, VersionIn(table, p))

SaveFine(p) ==
    /\ marker[p] = avail[p]
    /\ ~fr.hurt \/ fr.old = 0 => fr.was = fr.old

UndoFine(p) ==
    /\ fr.was = fr.old
    /\ p \notin Big => Payload(p) = avail[p]
    /\ fr.old # 0 /\ p \notin Big => Recoverable(p, fr.old)

TopFine(p) ==
    /\ pc = "keep" /\ fr.existing => backup[p] = Absent \/ fr.hurt
    /\ pc = "swap" => SwapFine(p)
    /\ pc = "write" => ~fr.backed /\ (p \notin Big /\ fr.existing => fr.hurt)
    /\ pc = "parts" => /\ target[p] = Absent /\ MarkerFine(p) /\ ~fr.backed
                       /\ p \notin Big => fr.hurt /\ ~fr.existing
    /\ pc \in {"clean", "marker"} => MarkerFine(p)
    /\ pc \in Metadata => MetadataFine(p)
    /\ pc = "save" => SaveFine(p)
    /\ pc = "undo" => UndoFine(p)

Agree ==
    cuts = 0 =>
        \A p \in Pkgs \ removed :
            /\ ~(pc \in Unsettled /\ p = Top) => Fine(p)
            /\ pc \in Calls /\ p = Top => TopFine(p)

-----------------------------------------------------------------------------
(* One power cut *)

Safe(p) == {target[p], backup[p], parts[p]} \intersect Versions # {}

Survive ==
    cuts = 1 /\ io = 0 =>
        /\ pc \in Metadata \union {"commit"} /\ Top \notin removed \union Big =>
              Payload(Top) = avail[Top]
        /\ \A p \in Pkgs \ (removed \union Big) :
              VersionIn(db, p) # 0 \/ Installed(p) =>
                  Safe(p) \/ (pc \in Placing /\ p = Top)

-----------------------------------------------------------------------------
(* Tables *)

\* capypkg_find_installed answers 0 exactly when no entry is p's, and the
\* version of p's entry otherwise.
LEMMA VersionInFacts ==
    ASSUME NEW t \in Tables, NEW p
    PROVE  /\ VersionIn(t, p) \in 0..MaxVersion
           /\ VersionIn(t, p) # 0 <=> \E i \in DOMAIN t : t[i].pkg = p
           /\ \A i \in DOMAIN t : t[i].pkg = p => VersionIn(t, p) = t[i].ver
  <1> DEFINE at == {i \in DOMAIN t : t[i].pkg = p}
  <1>1. /\ t \in Seq(Entries) /\ DOMAIN t = 1..Len(t)
        /\ \A i \in DOMAIN t : t[i] \in Entries
    BY DEF Tables
  <1>2. \A i \in DOMAIN t : t[i].ver \in 1..MaxVersion
    BY <1>1 DEF Entries, Versions
  <1>3. \A i, j \in at : i = j
    BY DEF Tables, Unique
  <1>4. CASE at = {}
    BY <1>4, PackageAssumption DEF VersionIn
  <1>5. CASE at # {}
    <2>1. PICK k \in at : TRUE
      BY <1>5
    <2>2. (CHOOSE i \in at : TRUE) = k
      BY <1>3, <2>1
    <2>3. VersionIn(t, p) = t[k].ver
      BY <1>5, <2>2 DEF VersionIn
    <2> QED
      BY <1>2, <1>3, <2>1, <2>3, PackageAssumption
  <1> QED
    BY <1>4, <1>5

LEMMA TableShape ==
    ASSUME NEW t \in Tables
    PROVE  /\ t \in Seq(Entries) /\ Len(t) \in Nat /\ Len(t) <= MaxInstalled
           /\ DOMAIN t = 1..Len(t)
           /\ \A i \in DOMAIN t : t[i] \in Entries /\ t[i].pkg \in Pkgs /\ t[i].ver \in Versions
           /\ \A i, j \in DOMAIN t : t[i].pkg = t[j].pkg => i = j
  <1>1. t \in Seq(Entries) /\ Len(t) <= MaxInstalled /\ Unique(t)
    BY DEF Tables
  <1>2. Len(t) \in Nat /\ DOMAIN t = 1..Len(t) /\ \A i \in DOMAIN t : t[i] \in Entries
    BY <1>1
  <1>3. \A i \in DOMAIN t : t[i].pkg \in Pkgs /\ t[i].ver \in Versions
    BY <1>2 DEF Entries
  <1> QED
    BY <1>1, <1>2, <1>3 DEF Unique

LEMMA EntryFacts ==
    ASSUME NEW p \in Pkgs, NEW v \in Versions
    PROVE  Entry(p, v) \in Entries /\ Entry(p, v).pkg = p /\ Entry(p, v).ver = v
  BY DEF Entry, Entries

\* append_or_replace_installed keeps the table a table, changes the version of
\* one package and moves no entry.
LEMMA PutFacts ==
    ASSUME NEW t \in Tables, NEW p \in Pkgs, NEW v \in Versions,
           VersionIn(t, p) # 0 \/ Len(t) < MaxInstalled
    PROVE  /\ Put(t, p, v) \in Tables
           /\ \A q : VersionIn(Put(t, p, v), q) = IF q = p THEN v ELSE VersionIn(t, q)
           /\ \A i \in DOMAIN t : i \in DOMAIN Put(t, p, v) /\ Put(t, p, v)[i].pkg = t[i].pkg
           /\ VersionIn(t, p) # 0 => DOMAIN Put(t, p, v) = DOMAIN t
           /\ VersionIn(t, p) = 0 =>
                 /\ Len(Put(t, p, v)) = Len(t) + 1
                 /\ Put(t, p, v)[Len(t) + 1].pkg = p
  <1> DEFINE u == Put(t, p, v)
  <1>0. MaxInstalled \in Nat
    BY PackageAssumption
  <1>1. v # 0
    BY PackageAssumption DEF Versions
  <1>2. CASE VersionIn(t, p) = 0
    <2>1. u = Append(t, Entry(p, v))
      BY <1>2 DEF Put
    <2>2. /\ u \in Seq(Entries) /\ Len(u) = Len(t) + 1 /\ DOMAIN u = 1..(Len(t) + 1)
          /\ \A i \in DOMAIN t : i \in DOMAIN u /\ u[i] = t[i]
          /\ u[Len(t) + 1] = Entry(p, v)
      BY <2>1, TableShape, EntryFacts
    <2> HIDE DEF u
    <2>3. \A i \in DOMAIN t : t[i].pkg # p
      BY <1>2, VersionInFacts
    <2>4. \A i \in DOMAIN u : i \in DOMAIN t \/ i = Len(t) + 1
      BY <2>2, TableShape
    <2>5. u[Len(t) + 1].pkg = p /\ u[Len(t) + 1].ver = v
      BY <2>2, EntryFacts
    <2>6. Unique(u)
      BY <2>2, <2>3, <2>4, <2>5, TableShape DEF Unique
    <2>7. u \in Tables
      BY <1>0, <1>2, <2>2, <2>6, TableShape DEF Tables
    <2>8. ASSUME NEW q
          PROVE  VersionIn(u, q) = IF q = p THEN v ELSE VersionIn(t, q)
      <3>1. CASE q = p
        BY <2>2, <2>5, <2>7, <3>1, VersionInFacts, TableShape
      <3>2. CASE q # p
        <4>1. CASE \E i \in DOMAIN t : t[i].pkg = q
          BY <2>2, <2>7, <3>2, <4>1, VersionInFacts
        <4>2. CASE ~\E i \in DOMAIN t : t[i].pkg = q
          BY <2>2, <2>4, <2>5, <2>7, <3>2, <4>2, VersionInFacts, SMTT(60)
        <4> QED
          BY <4>1, <4>2
      <3> QED
        BY <3>1, <3>2
    <2> QED
      BY <1>2, <2>2, <2>5, <2>7, <2>8 DEF u
  <1>3. CASE VersionIn(t, p) # 0
    <2>1. u = [i \in DOMAIN t |-> IF t[i].pkg = p THEN Entry(p, v) ELSE t[i]]
      BY <1>3 DEF Put
    <2>2. u = [i \in 1..Len(t) |-> IF t[i].pkg = p THEN Entry(p, v) ELSE t[i]]
      BY <2>1, TableShape
    <2>3. /\ DOMAIN u = DOMAIN t /\ u \in Seq(Entries) /\ Len(u) = Len(t)
      BY <2>2, TableShape, EntryFacts
    <2>4. \A i \in DOMAIN t : u[i] = IF t[i].pkg = p THEN Entry(p, v) ELSE t[i]
      BY <2>1
    <2> HIDE DEF u
    <2>5. \A i \in DOMAIN t : /\ u[i].pkg = t[i].pkg
                             /\ u[i].ver = IF t[i].pkg = p THEN v ELSE t[i].ver
      BY <2>4, EntryFacts
    <2>6. Unique(u)
      BY <2>3, <2>5, TableShape DEF Unique
    <2>7. u \in Tables
      BY <2>3, <2>6, TableShape DEF Tables
    <2>8. ASSUME NEW q
          PROVE  VersionIn(u, q) = IF q = p THEN v ELSE VersionIn(t, q)
      <3>1. CASE \E i \in DOMAIN t : t[i].pkg = q
        BY <2>3, <2>5, <2>7, <3>1, VersionInFacts
      <3>2. CASE ~\E i \in DOMAIN t : t[i].pkg = q
        BY <1>3, <2>3, <2>5, <2>7, <3>2, VersionInFacts
      <3> QED
        BY <3>1, <3>2
    <2> QED
      BY <1>3, <2>3, <2>5, <2>7, <2>8 DEF u
  <1> QED
    BY <1>2, <1>3

\* remove_installed_at keeps the table a table and forgets one package.
LEMMA DropFacts ==
    ASSUME NEW t \in Tables, NEW p
    PROVE  /\ Drop(t, p) \in Tables
           /\ \A q : VersionIn(Drop(t, p), q) = IF q = p THEN 0 ELSE VersionIn(t, q)
           /\ VersionIn(t, p) = 0 => Drop(t, p) = t
  <1> DEFINE u == Drop(t, p)
  <1>1. CASE VersionIn(t, p) = 0
    BY <1>1 DEF Drop
  <1>2. CASE VersionIn(t, p) # 0
    <2>1. PICK k \in DOMAIN t : t[k].pkg = p
      BY <1>2, VersionInFacts
    <2>2. (CHOOSE i \in DOMAIN t : t[i].pkg = p) = k
      BY <2>1, TableShape
    <2>3. u = [i \in 1..(Len(t) - 1) |-> IF i < k THEN t[i] ELSE t[i + 1]]
      BY <1>2, <2>2 DEF Drop
    <2>4. Len(t) \in Nat /\ k \in 1..Len(t)
      BY <2>1, TableShape
    <2>5. /\ u \in Seq(Entries) /\ Len(u) = Len(t) - 1 /\ DOMAIN u = 1..(Len(t) - 1)
      <3>1. \A i \in 1..(Len(t) - 1) : i \in DOMAIN t /\ i + 1 \in DOMAIN t
        BY <2>4, TableShape
      <3>2. \A i \in 1..(Len(t) - 1) : (IF i < k THEN t[i] ELSE t[i + 1]) \in Entries
        BY <3>1, TableShape
      <3>3. Len(t) - 1 \in Nat
        BY <2>4
      <3> QED
        BY <2>3, <3>2, <3>3
    <2>6. \A i \in DOMAIN u : u[i] = IF i < k THEN t[i] ELSE t[i + 1]
      BY <2>3, <2>5
    <2> HIDE DEF u
    <2>7. Unique(u)
      <3> SUFFICES ASSUME NEW i \in DOMAIN u, NEW j \in DOMAIN u, u[i].pkg = u[j].pkg
                   PROVE  i = j
        BY DEF Unique
      <3>1. i \in DOMAIN t /\ i + 1 \in DOMAIN t /\ j \in DOMAIN t /\ j + 1 \in DOMAIN t
            /\ i \in Int /\ j \in Int /\ k \in Int
        BY <2>4, <2>5, TableShape
      <3>2. CASE i < k /\ j < k
        BY <2>6, <3>1, <3>2, TableShape
      <3>3. CASE i < k /\ ~(j < k)
        <4>1. t[i].pkg = t[j + 1].pkg
          BY <2>6, <3>3
        <4>2. i = j + 1
          BY <3>1, <4>1, TableShape
        <4> QED
          BY <3>1, <3>3, <4>2
      <3>4. CASE ~(i < k) /\ j < k
        <4>1. t[i + 1].pkg = t[j].pkg
          BY <2>6, <3>4
        <4>2. i + 1 = j
          BY <3>1, <4>1, TableShape
        <4> QED
          BY <3>1, <3>4, <4>2
      <3>5. CASE ~(i < k) /\ ~(j < k)
        <4>1. t[i + 1].pkg = t[j + 1].pkg
          BY <2>6, <3>5
        <4>2. i + 1 = j + 1
          BY <3>1, <4>1, TableShape
        <4> QED
          BY <3>1, <4>2
      <3> QED
        BY <3>2, <3>3, <3>4, <3>5
    <2>8. u \in Tables
      BY <2>4, <2>5, <2>7, TableShape, PackageAssumption DEF Tables
    <2>9. ASSUME NEW q
          PROVE  VersionIn(u, q) = IF q = p THEN 0 ELSE VersionIn(t, q)
      <3>1. ASSUME NEW i \in DOMAIN u
            PROVE  u[i].pkg # p /\ \E j \in DOMAIN t : u[i] = t[j]
        <4>1. i \in DOMAIN t /\ i + 1 \in DOMAIN t /\ i \in Int /\ k \in Int
          BY <2>4, <2>5, TableShape
        <4>2. CASE i < k
          BY <2>1, <2>6, <4>1, <4>2, TableShape
        <4>3. CASE ~(i < k)
          <5>1. i + 1 # k
            BY <4>1, <4>3
          <5> QED
            BY <2>1, <2>6, <4>1, <4>3, <5>1, TableShape
        <4> QED
          BY <4>2, <4>3
      <3>2. ASSUME NEW j \in DOMAIN t, t[j].pkg # p
            PROVE  \E i \in DOMAIN u : u[i] = t[j]
        <4>1. j # k /\ j \in 1..Len(t)
          BY <2>1, <3>2, TableShape
        <4>2. CASE j < k
          <5>1. j \in DOMAIN u
            BY <2>4, <2>5, <4>1, <4>2
          <5> QED
            BY <2>6, <4>2, <5>1
        <4>3. CASE j > k
          <5>1. j - 1 \in DOMAIN u /\ ~(j - 1 < k) /\ (j - 1) + 1 = j
            BY <2>4, <2>5, <4>1, <4>3
          <5> QED
            BY <2>6, <5>1
        <4> QED
          BY <2>4, <4>1, <4>2, <4>3
      <3>3. CASE q = p
        BY <2>8, <3>1, <3>3, VersionInFacts
      <3>4. CASE q # p
        <4>1. CASE VersionIn(t, q) # 0
          <5>1. PICK j \in DOMAIN t : t[j].pkg = q
            BY <4>1, VersionInFacts
          <5>2. PICK i \in DOMAIN u : u[i] = t[j]
            BY <3>2, <3>4, <5>1
          <5> QED
            BY <2>8, <3>4, <5>1, <5>2, VersionInFacts
        <4>2. CASE VersionIn(t, q) = 0
          <5>1. \A j \in DOMAIN t : t[j].pkg # q
            BY <4>2, VersionInFacts
          <5>2. \A i \in DOMAIN u : u[i].pkg # q
            BY <3>1, <5>1
          <5>3. VersionIn(u, q) = 0
            BY <2>8, <5>2, VersionInFacts
          <5> QED
            BY <3>4, <4>2, <5>3
        <4> QED
          BY <4>1, <4>2
      <3> QED
        BY <3>3, <3>4
    <2> QED
      BY <1>2, <2>8, <2>9 DEF u
  <1>3. \A q : VersionIn(Drop(t, p), q) = IF q = p THEN 0 ELSE VersionIn(t, q)
    BY <1>1, <1>2
  <1> QED
    BY <1>1, <1>2, <1>3

\* A database cut off anywhere is a table, with entries of the whole one.
LEMMA PrefixFacts ==
    ASSUME NEW t \in Tables, NEW k \in 0..Len(t)
    PROVE  /\ SubSeq(t, 1, k) \in Tables
           /\ Len(SubSeq(t, 1, k)) = k
           /\ DOMAIN SubSeq(t, 1, k) \subseteq DOMAIN t
           /\ \A i \in DOMAIN SubSeq(t, 1, k) : SubSeq(t, 1, k)[i] = t[i]
           /\ \A q : VersionIn(SubSeq(t, 1, k), q) \in {0, VersionIn(t, q)}
  <1> DEFINE u == SubSeq(t, 1, k)
  <1>1. t \in Seq(Entries) /\ Len(t) \in Nat /\ k \in Nat
    BY TableShape
  <1>2. /\ u \in Seq(Entries) /\ Len(u) = k /\ DOMAIN u = 1..k
        /\ \A i \in 1..k : u[i] = t[i]
    <2>1. \A i \in 1..k : t[i] \in Entries
      BY <1>1, TableShape
    <2>2. Len(u) = k
      BY <1>1
    <2>3. u \in Seq(Entries)
      BY <1>1, <2>1, TableShape
    <2> QED
      BY <1>1, <2>2, <2>3
  <1> HIDE DEF u
  <1>3. DOMAIN u \subseteq DOMAIN t /\ \A i \in DOMAIN u : u[i] = t[i]
    BY <1>1, <1>2, TableShape
  <1>4. u \in Tables
    BY <1>1, <1>2, <1>3, TableShape, PackageAssumption DEF Tables, Unique
  <1>5. ASSUME NEW q
        PROVE  VersionIn(u, q) \in {0, VersionIn(t, q)}
    <2>1. CASE VersionIn(u, q) # 0
      <3>1. PICK i \in DOMAIN u : u[i].pkg = q
        BY <1>4, <2>1, VersionInFacts
      <3> QED
        BY <1>3, <1>4, <3>1, VersionInFacts
    <2> QED
      BY <2>1
  <1> QED
    BY <1>2, <1>3, <1>4, <1>5 DEF u

\* Restoring the version an entry has changes nothing.
LEMMA PutSame ==
    ASSUME NEW t \in Tables, NEW p \in Pkgs, VersionIn(t, p) # 0
    PROVE  Put(t, p, VersionIn(t, p)) = t
  <1>1. Put(t, p, VersionIn(t, p))
            = [i \in DOMAIN t |-> IF t[i].pkg = p THEN Entry(p, VersionIn(t, p)) ELSE t[i]]
    BY DEF Put
  <1>2. ASSUME NEW i \in DOMAIN t, t[i].pkg = p
        PROVE  Entry(p, VersionIn(t, p)) = t[i]
    <2>1. VersionIn(t, p) = t[i].ver
      BY <1>2, VersionInFacts
    <2>2. t[i] \in [pkg : Pkgs, ver : Versions]
      BY TableShape DEF Entries
    <2> QED
      BY <1>2, <2>1, <2>2 DEF Entry
  <1>3. t = [i \in DOMAIN t |-> t[i]]
    BY TableShape, SMTT(60)
  <1> QED
    BY <1>1, <1>2, <1>3

\* What capypkg_db_save leaves is a table with entries of the one in memory;
\* the whole one when that fits in the buffer.
LEMMA SerializedFacts ==
    ASSUME NEW t \in Tables
    PROVE  /\ \E k \in 0..Len(t) : Serialized(t) = SubSeq(t, 1, k)
           /\ Serialized(t) \in Tables
           /\ \A q : VersionIn(Serialized(t), q) \in {0, VersionIn(t, q)}
           /\ Len(t) <= DbCapacity => Serialized(t) = t
  <1>1. DbCapacity \in Nat /\ Len(t) \in Nat /\ t \in Seq(Entries)
    BY PackageAssumption, TableShape
  <1>2. PICK k \in 0..Len(t) : k = IF Len(t) < DbCapacity THEN Len(t) ELSE DbCapacity
    BY <1>1
  <1>3. Serialized(t) = SubSeq(t, 1, k)
    BY <1>2 DEF Serialized
  <1>4. Len(t) <= DbCapacity => k = Len(t)
    BY <1>1, <1>2
  <1>5. SubSeq(t, 1, Len(t)) = t
    BY <1>1
  <1> QED
    BY <1>3, <1>4, <1>5, PrefixFacts

LEMMA PrefixOfPrefix ==
    ASSUME NEW t \in Tables, NEW k \in 0..Len(t), NEW l \in 0..k
    PROVE  SubSeq(SubSeq(t, 1, k), 1, l) = SubSeq(t, 1, l)
  <1>1. t \in Seq(Entries) /\ Len(t) \in Nat /\ l \in 0..Len(t)
    BY TableShape
  <1>2. Len(SubSeq(t, 1, k)) = k
    BY PrefixFacts
  <1> QED
    BY <1>1, <1>2

\* A write of db.idx that did not complete leaves the old one or a prefix.
LEMMA TornFacts ==
    ASSUME db \in Tables, NEW t \in Tables, NEW d \in TornDb(Serialized(t))
    PROVE  /\ d \in Tables
           /\ d = db \/ \E k \in 0..Len(t) : d = SubSeq(t, 1, k)
           /\ d = db \/ \A q : VersionIn(d, q) \in {0, VersionIn(t, q)}
  <1>1. PICK k \in 0..Len(t) : Serialized(t) = SubSeq(t, 1, k)
    BY SerializedFacts
  <1>2. CASE d = db
    BY <1>2
  <1>3. CASE d # db
    <2>1. PICK l \in 0..Len(Serialized(t)) : d = SubSeq(Serialized(t), 1, l)
      BY <1>3 DEF TornDb
    <2>2. Len(Serialized(t)) = k
      BY <1>1, PrefixFacts
    <2>3. l \in 0..k /\ l \in 0..Len(t)
      BY <2>1, <2>2, TableShape
    <2>4. d = SubSeq(t, 1, l)
      BY <1>1, <2>1, <2>3, PrefixOfPrefix
    <2> QED
      BY <2>3, <2>4, PrefixFacts
  <1> QED
    BY <1>2, <1>3

LEMMA EmptyTable ==
    <<>> \in Tables /\ (\A p : VersionIn(<<>>, p) = 0) /\ Serialized(<<>>) = <<>>
  <1>1. <<>> \in Seq(Entries) /\ Len(<<>>) = 0 /\ DOMAIN <<>> = {}
    OBVIOUS
  <1>2. <<>> \in Tables
    BY <1>1, PackageAssumption DEF Tables, Unique
  <1>3. 0 <= DbCapacity
    BY PackageAssumption
  <1> QED
    BY <1>1, <1>2, <1>3, VersionInFacts, SerializedFacts

LEMMA IntervalSize ==
    ASSUME NEW n \in Nat
    PROVE  IsFiniteSet(1..n) /\ Cardinality(1..n) = n
  <1>1. 1 \in Int /\ n \in Int
    OBVIOUS
  <1>2. IsFiniteSet(1..n) /\ Cardinality(1..n) = IF 1 > n THEN 0 ELSE n - 1 + 1
    BY <1>1, FS_Interval, Zenon
  <1> QED
    BY <1>2

\* A table lists every package at most once.
LEMMA TableIsShort ==
    ASSUME NEW t \in Tables
    PROVE  Len(t) <= N
  <1> DEFINE f == [i \in 1..Len(t) |-> t[i].pkg]
  <1>1. N \in Nat /\ Len(t) \in Nat
    BY PackageAssumption, TableShape
  <1>2. f \in [1..Len(t) -> 1..N] /\ \A i, j \in 1..Len(t) : f[i] = f[j] => i = j
    BY TableShape DEF Pkgs
  <1> HIDE DEF f
  <1>3. /\ IsFiniteSet(1..Len(t)) /\ IsFiniteSet(1..N)
        /\ Cardinality(1..Len(t)) = Len(t) /\ Cardinality(1..N) = N
    BY <1>1, IntervalSize
  <1>4. ~(Cardinality(1..N) < Cardinality(1..Len(t)))
    <2>1. SUFFICES ASSUME Cardinality(1..N) < Cardinality(1..Len(t))
                   PROVE  FALSE
      OBVIOUS
    <2>2. \E x, y \in 1..Len(t) : x # y /\ f[x] = f[y]
      BY <1>2, <1>3, <2>1, FS_PigeonHole, ZenonT(60)
    <2> QED
      BY <1>2, <2>2
  <1> QED
    BY <1>1, <1>3, <1>4

-----------------------------------------------------------------------------
(* Type correctness *)

LEMMA ConstantTypes ==
    /\ N \in Nat /\ N > 0 /\ MaxVersion \in Nat /\ MaxVersion > 0
    /\ Budget \in Nat /\ Budget > 0 /\ Attempts \in Nat /\ Attempts > 0
    /\ MaxInstalled \in Nat /\ MaxInstalled > 0 /\ DbCapacity \in Nat
    /\ Versions \subseteq 0..MaxVersion /\ 0 \notin Versions
    /\ Bad \notin Versions /\ Torn \notin Versions /\ Bad # Absent /\ Bad # Torn
    /\ 0..MaxVersion \subseteq Contents /\ Versions = 0..MaxVersion \ {0}
    /\ Absent \in Contents /\ Torn \in Contents /\ Bad \in Contents
    /\ \A p \in Pkgs : Deps[p] \in Seq(Pkgs)
  <1>1. N > 0
    <2>1. PICK p \in Listed : p \in 1..N
      BY PackageAssumption DEF Pkgs
    <2> QED
      BY <2>1, PackageAssumption
  <1> QED
    BY <1>1, PackageAssumption DEF Versions, Bad, Torn, Absent, Contents

LEMMA NoFrameType == NoFrame \in Frames /\ ~NoFrame.hurt /\ NoFrame.rc = "ok"
  BY ConstantTypes DEF NoFrame, Frames, Codes

LEMMA SetFacts ==
    ASSUME NEW f \in Files, NEW p \in Pkgs, NEW c \in Contents
    PROVE  /\ Set(f, p, c) \in Files
           /\ Set(f, p, c)[p] = c
           /\ \A q \in Pkgs : q # p => Set(f, p, c)[q] = f[q]
  BY DEF Set, Files

LEMMA LeftoverFacts ==
    ASSUME NEW f \in Files, NEW p \in Pkgs, NEW g \in Leftover(f, p)
    PROVE  /\ g \in Files
           /\ g[p] \in {f[p], Absent, Torn}
           /\ \A q \in Pkgs : q # p => g[q] = f[q]
  <1>1. Absent \in Contents /\ Torn \in Contents
    BY DEF Contents
  <1>2. CASE g = f
    BY <1>2
  <1>3. CASE g = Set(f, p, Absent)
    BY <1>1, <1>3, SetFacts
  <1>4. CASE g = Set(f, p, Torn)
    BY <1>1, <1>4, SetFacts
  <1> QED
    BY <1>2, <1>3, <1>4 DEF Leftover

LEMMA TopFacts ==
    ASSUME NEW s \in Seq(Pkgs), s # <<>>
    PROVE  /\ Last(s) \in Pkgs /\ Len(s) \in DOMAIN s /\ Last(s) = s[Len(s)]
           /\ Front(s) \in Seq(Pkgs) /\ Len(Front(s)) = Len(s) - 1
           /\ \A i \in DOMAIN Front(s) : i \in DOMAIN s /\ Front(s)[i] = s[i]
  <1>1. Len(s) \in Nat /\ Len(s) > 0 /\ DOMAIN s = 1..Len(s) /\ \A i \in DOMAIN s : s[i] \in Pkgs
    BY EmptySeq
  <1>2. Front(s) = [i \in 1..(Len(s) - 1) |-> s[i]]
    BY <1>1 DEF Front
  <1> QED
    BY <1>1, <1>2 DEF Last

LEMMA TopType ==
    ASSUME TypeInv, pc \in Calls \union {"forget"}
    PROVE  Top \in Pkgs /\ stack # <<>> /\ (pc \in Calls => avail[Top] \in Versions)
  <1>1. stack \in Seq(Pkgs) /\ stack # <<>>
    BY DEF TypeInv, ControlTyped, Framed
  <1>2. Top \in Pkgs /\ Len(stack) \in DOMAIN stack /\ Top = stack[Len(stack)]
    BY <1>1, TopFacts DEF Top
  <1>3. pc \in Calls => avail[Top] # 0
    BY <1>2 DEF TypeInv, Framed
  <1>4. avail[Top] \in 0..MaxVersion
    BY <1>2 DEF TypeInv, FilesTyped, Catalogues
  <1> QED
    BY <1>1, <1>2, <1>3, <1>4, ConstantTypes

LEMMA FrameFacts ==
    ASSUME NEW f \in Frames
    PROVE  /\ f.existing \in BOOLEAN /\ f.buf \in Contents /\ f.staged \in BOOLEAN
           /\ f.atomic \in BOOLEAN /\ f.backed \in BOOLEAN /\ f.was \in Contents
           /\ f.old \in 0..MaxVersion /\ f.resave \in BOOLEAN /\ f.hurt \in BOOLEAN
           /\ f.rc \in Codes
           /\ Hurt(f) \in Frames /\ Hurt(f).hurt
           /\ \A c \in Codes : Code(f, c) \in Frames
           /\ \A b \in BOOLEAN : /\ [f EXCEPT !.staged = b] \in Frames
                                 /\ [f EXCEPT !.backed = b] \in Frames
                                 /\ [f EXCEPT !.resave = b] \in Frames
  BY DEF Frames, Hurt, Code

LEMMA InstalledFacts ==
    ASSUME table \in Tables, NEW p
    PROVE  Installed(p) \in BOOLEAN /\ VersionIn(table, p) \in 0..MaxVersion
           /\ (Installed(p) => VersionIn(table, p) \in Versions)
  BY VersionInFacts, ConstantTypes DEF Installed

LEMMA TypeInit == Init => TypeInv
  <1> SUFFICES ASSUME Init PROVE TypeInv
    OBVIOUS
  <1>1. FilesTyped
    <2>1. repo \in Catalogues /\ NotListed \in Catalogues
      BY ConstantTypes DEF Init, Catalogues, NotListed
    <2>2. [p \in Pkgs |-> Absent] \in Files
      BY ConstantTypes DEF Files
    <2> QED
      BY <2>1, <2>2, EmptyTable DEF FilesTyped, Init, Cached
  <1>2. ControlTyped
    BY NoFrameType, ConstantTypes DEF ControlTyped, Init, Labels, Quiet
  <1>3. Framed /\ Restorable
    BY DEF Init, Framed, Restorable, Calls, Loaded, Checked, Placing, Metadata
  <1> QED
    BY <1>1, <1>2, <1>3 DEF TypeInv

\* A cached index lists what the catalogue does, cut off or torn or not.
LEMMA IndexType ==
    ASSUME cache.ver \in Catalogues, NEW c \in Catalogues
    PROVE  /\ \A k \in CachedIndex(c) : k.ver \in Catalogues
           /\ \A k \in TornIndex(c) : k.ver \in Catalogues
  <1>1. ASSUME NEW n, NEW k \in CutAfter(c, n)
        PROVE  k.ver \in Catalogues
    <2> DEFINE Upto(m) == [p \in Pkgs |->
                              IF Cardinality({q \in 1..p : c[q] # 0}) <= m THEN c[p] ELSE 0]
    <2>1. PICK m, p : k = Cached(Upto(m), p)
      BY <1>1 DEF CutAfter
    <2>2. Upto(m) \in Catalogues
      BY ConstantTypes DEF Catalogues
    <2> QED
      BY <2>1, <2>2 DEF Cached
  <1> QED
    BY <1>1 DEF CachedIndex, TornIndex

\* Removals, downloads and the caller's steps.
LEMMA TypeCallers ==
    ASSUME TypeInv,
           Ask \/ Refresh \/ Forced \/ Poll \/ Index \/ NextPkg \/ Publish \/ Finish
    PROVE  TypeInv'
  <1> USE DEF TypeInv
  <1>1. CASE Ask
    <2> USE <1>1 DEF Ask, Command, Goto, files, ram
    <2>1. FilesTyped'
      BY DEF FilesTyped
    <2>2. queue' \in Seq(Pkgs) /\ Len(queue') <= N
      <3>1. CASE \E p \in Pkgs : queue' = <<p>>
        BY <3>1, ConstantTypes
      <3>2. CASE queue' = [i \in DOMAIN table |-> table[i].pkg]
        <4>1. table \in Tables
          BY DEF FilesTyped
        <4>2. queue' = [i \in 1..Len(table) |-> table[i].pkg] /\ Len(table) \in Nat
          BY <3>2, <4>1, TableShape
        <4>3. queue' \in Seq(Pkgs) /\ Len(queue') = Len(table)
          BY <4>1, <4>2, TableShape
        <4> QED
          BY <4>1, <4>3, TableIsShort
      <3> QED
        BY <3>1, <3>2
    <2>3. ControlTyped'
      BY <2>2, ConstantTypes DEF ControlTyped, Labels, Quiet
    <2>4. Framed' /\ Restorable'
      BY ConstantTypes DEF Framed, Restorable, Calls, Loaded, Checked, Placing, Metadata, Quiet
    <2> QED
      BY <2>1, <2>3, <2>4
  <1>2. CASE Refresh \/ Forced \/ Poll
    <2> USE <1>2 DEF Refresh, Forced, Poll, Command, Goto, files, ram, bounds
    <2>1. FilesTyped'
      BY DEF FilesTyped
    <2>2. ControlTyped'
      BY DEF ControlTyped, Labels, Quiet
    <2>3. Framed' /\ Restorable'
      BY DEF Framed, Restorable, Calls, Loaded, Checked, Placing, Metadata, Quiet
    <2> QED
      BY <2>1, <2>2, <2>3
  <1>3. CASE Index
    <2> USE <1>3 DEF Index, Goto
    <2>0. NotListed \in Catalogues
      BY ConstantTypes DEF Catalogues, NotListed
    <2>1. FilesTyped'
      <3>1. avail' \in {repo, NotListed} /\ auth' \in {auth, TRUE}
            /\ (cache' = cache \/ cache' \in CachedIndex(repo) \/ cache' \in TornIndex(repo))
        OBVIOUS
      <3>2. cache'.ver \in Catalogues
        BY <3>1, IndexType DEF FilesTyped
      <3> QED
        BY <2>0, <3>1, <3>2 DEF FilesTyped
    <2>2. pc' \in {"next", "idle"} /\ queue' \in Seq(Pkgs) /\ failed' \in Nat
          /\ failed' + Len(queue') <= N
      <3>1. CASE pc' = "idle"
        BY <3>1 DEF ControlTyped
      <3>2. CASE failed' = 0 /\ queue' = <<>> /\ pc' = "next"
        BY <3>2, ConstantTypes
      <3>3. CASE failed' = 0 /\ queue' \in Plans({p \in Pkgs : repo[p] # 0}) /\ pc' = "next"
        <4> DEFINE T == {p \in Pkgs : repo[p] # 0}
        <4>1. IsFiniteSet(Pkgs) /\ Cardinality(Pkgs) = N
          BY IntervalSize, ConstantTypes DEF Pkgs
        <4>2. T \in SUBSET Pkgs
          OBVIOUS
        <4> HIDE DEF T
        <4>3. IsFiniteSet(T) /\ Cardinality(T) <= N
          BY <4>1, <4>2, FS_Subset
        <4>4. Cardinality(T) \in Nat
          BY <4>3, FS_CardinalityType
        <4>5. queue' \in [1..Cardinality(T) -> T]
          BY <3>3 DEF Plans, T
        <4> QED
          BY <3>3, <4>2, <4>3, <4>4, <4>5
      <3> QED
        BY <3>1, <3>2, <3>3
    <2>3. ControlTyped'
      BY <2>2, ConstantTypes, SMTT(60) DEF ControlTyped, Labels, Quiet, IoFails, NetFails
    <2>4. Framed' /\ Restorable'
      BY <2>2, ConstantTypes
         DEF Framed, Restorable, Calls, Loaded, Checked, Placing, Metadata, Quiet
    <2> QED
      BY <2>1, <2>3, <2>4
  <1>4. CASE NextPkg
    <2> USE <1>4 DEF NextPkg, Goto, files, ram, bounds
    <2>1. FilesTyped'
      BY DEF FilesTyped
    <2>2. CASE queue = <<>>
      <3>1. pc' \in {"finish", "idle"} /\ UNCHANGED <<queue, tries, failed, stack>>
        BY <2>2
      <3>2. ControlTyped'
        BY <3>1, NoFrameType DEF ControlTyped, Labels, Quiet
      <3>3. Framed' /\ Restorable'
        BY <3>1 DEF Framed, Restorable, Calls, Loaded, Checked, Placing, Metadata, Quiet
      <3> QED
        BY <2>1, <3>2, <3>3
    <2>3. CASE queue # <<>>
      <3> DEFINE p == Head(queue)
      <3>0. queue \in Seq(Pkgs) /\ failed \in Nat /\ failed + Len(queue) <= N
            /\ tries \in 0..Attempts /\ tries < Attempts
        BY DEF ControlTyped, Framed
      <3>1. p \in Pkgs /\ Tail(queue) \in Seq(Pkgs) /\ Len(Tail(queue)) = Len(queue) - 1
            /\ Len(queue) \in Nat
        BY <2>3, <3>0
      <3>2. CASE avail[p] \in {0, VersionIn(table, p)}
        <4>1. /\ failed' \in {failed, failed + 1} /\ queue' = Tail(queue) /\ tries' = 0
              /\ pc' = "next" /\ stack' = stack
          BY <2>3, <3>2
        <4>2. ControlTyped'
          BY <3>0, <3>1, <4>1, NoFrameType, ConstantTypes DEF ControlTyped
        <4>3. Framed' /\ Restorable'
          BY <4>1, ConstantTypes
             DEF Framed, Restorable, Calls, Loaded, Checked, Placing, Metadata, Quiet
        <4> QED
          BY <2>1, <4>2, <4>3
      <3>3. CASE avail[p] \notin {0, VersionIn(table, p)}
        <4>1. /\ stack' = <<p>> /\ tries' = tries + 1 /\ pc' = "resolve"
              /\ failed' = failed /\ queue' = queue
          BY <2>3, <3>3
        <4>2. stack' \in Seq(Pkgs) /\ Len(stack') = 1 /\ DOMAIN stack' = {1} /\ stack'[1] = p
          BY <3>1, <4>1
        <4> HIDE DEF p
        <4>3. ControlTyped'
          BY <3>0, <3>1, <4>1, <4>2, NoFrameType, ConstantTypes
             DEF ControlTyped, Labels, Calls
        <4>4. Framed' /\ Restorable'
          BY <2>3, <3>1, <3>3, <4>1, <4>2
             DEF Framed, Restorable, Calls, Loaded, Checked, Placing, Metadata, Quiet
        <4> QED
          BY <2>1, <4>3, <4>4
      <3> QED
        BY <3>2, <3>3
    <2> QED
      BY <2>2, <2>3
  <1>5. CASE Publish
    <2> USE <1>5 DEF Publish, Command, files, ram, control
    <2>1. PICK p \in Pkgs : repo[p] < MaxVersion /\ repo' = Set(repo, p, repo[p] + 1)
      OBVIOUS
    <2>2. repo \in [Pkgs -> 0..MaxVersion]
      BY DEF FilesTyped, Catalogues
    <2>3. repo[p] + 1 \in 0..MaxVersion
      BY <2>1, <2>2, ConstantTypes
    <2>4. repo' \in Catalogues
      BY <2>1, <2>2, <2>3 DEF Set, Catalogues
    <2>5. FilesTyped'
      BY <2>4 DEF FilesTyped
    <2>6. ControlTyped'
      BY DEF ControlTyped
    <2>7. Framed' /\ Restorable'
      BY DEF Framed, Restorable, Calls, Loaded, Checked, Placing, Metadata, Quiet
    <2> QED
      BY <2>5, <2>6, <2>7
  <1>6. CASE Finish
    <2> USE <1>6 DEF Finish, Goto, ram, control
    <2>1. FilesTyped'
      BY DEF FilesTyped
    <2>2. ControlTyped'
      <3>1. io' \in {io, io + 1}
        BY DEF IoFails
      <3> QED
        BY <3>1 DEF ControlTyped, Labels, Quiet
    <2>3. Framed' /\ Restorable'
      BY DEF Framed, Restorable, Calls, Loaded, Checked, Placing, Metadata, Quiet
    <2> QED
      BY <2>1, <2>2, <2>3
  <1> QED
    BY <1>1, <1>2, <1>3, <1>4, <1>5, <1>6

LEMMA FramedCall ==
    ASSUME TypeInv, pc \in Calls, UNCHANGED <<control, avail, removed>>,
           pc' \in Calls \ {"resolve"}, fr' \in Frames, io' \in {io, io + 1},
           net' \in {net, net + 1}, UNCHANGED <<cuts, commands>>
    PROVE  Framed' /\ ControlTyped'
  <1>1. Framed'
    BY DEF TypeInv, Framed, control, Calls, Loaded, Checked, Placing, Metadata, Quiet
  <1>2. ControlTyped'
    BY DEF TypeInv, ControlTyped, control, Labels
  <1> QED
    BY <1>1, <1>2

\* The download, and the staging, verification and swap of the payload.
LEMMA TypePayload ==
    ASSUME TypeInv,
           Fetch \/ Stage \/ Verify \/ DropBackup \/ Keep \/ Swap \/ WriteTarget
             \/ WriteParts \/ CleanStaging
    PROVE  TypeInv'
  <1>1. pc \in Calls /\ pc' \in Calls \ {"resolve", "save", "undo"}
    BY DEF Fetch, Stage, Verify, DropBackup, Keep, Swap, WriteTarget, WriteParts, CleanStaging,
           Goto, Calls, Loaded, Checked, Placing, Metadata
  <1>2. Top \in Pkgs /\ avail[Top] \in Versions
    BY <1>1, TopType
  <1>3. /\ target \in Files /\ backup \in Files /\ staging \in Files /\ parts \in Files
        /\ fr \in Frames /\ fr.buf \in Contents /\ fr.staged \in BOOLEAN /\ fr.backed \in BOOLEAN
        /\ avail[Top] \in Contents /\ table \in Tables
    BY <1>2, FrameFacts, ConstantTypes DEF TypeInv, FilesTyped, ControlTyped
  <1>4. \A c \in Codes : Code(fr, c) \in Frames
    BY <1>3, FrameFacts
  <1>5. Hurt(fr) \in Frames
    BY <1>3, FrameFacts
  <1>6. /\ target[Top] \in Contents /\ backup[Top] \in Contents
        /\ staging[Top] \in Contents /\ parts[Top] \in Contents
    BY <1>2, <1>3 DEF Files
  <1>7. Absent \in Contents
    BY ConstantTypes
  <1>8. /\ UNCHANGED <<control, ram, repo, marker, db, cache, done, removed, cuts, commands>>
        /\ io' \in {io, io + 1} /\ net' \in {net, net + 1}
        /\ target' \in Files /\ backup' \in Files /\ staging' \in Files /\ parts' \in Files
        /\ fr' \in Frames
    <2>1. CASE Fetch
      <3> DEFINE f == [NoFrame EXCEPT !.existing = Installed(Top), !.buf = avail[Top]]
      <3>1. Installed(Top) \in BOOLEAN
        BY <1>3, InstalledFacts
      <3>2. f \in Frames /\ [f EXCEPT !.buf = Bad] \in Frames
        BY <1>3, <3>1, NoFrameType, ConstantTypes DEF Frames
      <3>3. \A c \in Codes : Code(f, c) \in Frames
        BY <3>2, FrameFacts
      <3>4. fr' \in {f, [f EXCEPT !.buf = Bad], Code(f, "again"), Code(f, "refused")}
        BY <2>1 DEF Fetch
      <3> HIDE DEF f
      <3>5. fr' \in Frames
        BY <3>2, <3>3, <3>4 DEF Codes
      <3> QED
        BY <1>3, <2>1, <3>5 DEF Fetch, NetFails, control, ram, files
    <2>2. CASE Stage
      <3>1. fr' \in {fr, [fr EXCEPT !.staged = TRUE], Hurt(fr)}
        BY <2>2 DEF Stage
      <3>0. [fr EXCEPT !.staged = TRUE] \in Frames
        BY <1>3, FrameFacts
      <3>2. fr' \in Frames
        BY <1>3, <1>5, <3>0, <3>1
      <3>3. staging' = Set(staging, Top, fr.buf) \/ staging' \in Leftover(staging, Top)
        BY <2>2 DEF Stage
      <3>4. staging' \in Files
        BY <1>2, <1>3, <3>3, SetFacts, LeftoverFacts
      <3> QED
        BY <1>3, <2>2, <3>2, <3>4 DEF Stage, WriteFails, IoFails, control, ram
    <2>3. CASE Verify
      <3>1. fr' \in {fr, Code(fr, "again"), Code(fr, "refused")}
        BY <2>3 DEF Verify
      <3>2. fr' \in Frames
        BY <1>3, <1>4, <3>1 DEF Codes
      <3> QED
        BY <1>3, <2>3, <3>2 DEF Verify, control, ram, files, bounds
    <2>4. CASE DropBackup
      <3>1. Set(backup, Top, Absent) \in Files
        BY <1>2, <1>3, <1>7, SetFacts
      <3> QED
        BY <1>3, <1>5, <2>4, <3>1 DEF DropBackup, IoFails, control, ram
    <2>5. CASE Keep
      <3>1. Set(backup, Top, target[Top]) \in Files /\ Set(target, Top, Absent) \in Files
        BY <1>2, <1>3, <1>6, <1>7, SetFacts
      <3>2. [fr EXCEPT !.backed = TRUE] \in Frames
        BY <1>3, FrameFacts
      <3> QED
        BY <1>3, <1>5, <2>5, <3>1, <3>2 DEF Keep, IoFails, control, ram
    <2>6. CASE Swap
      <3>1. /\ Set(target, Top, staging[Top]) \in Files /\ Set(staging, Top, Absent) \in Files
            /\ Set(target, Top, backup[Top]) \in Files /\ Set(backup, Top, Absent) \in Files
        BY <1>2, <1>3, <1>6, <1>7, SetFacts
      <3>2. [fr EXCEPT !.atomic = TRUE, !.staged = FALSE] \in Frames
        BY <1>3 DEF Frames
      <3>3. [fr EXCEPT !.backed = FALSE] \in Frames /\ [Hurt(fr) EXCEPT !.backed = FALSE] \in Frames
        BY <1>3, <1>5, FrameFacts
      <3> QED
        BY <1>3, <2>6, <3>1, <3>2, <3>3 DEF Swap, IoFails, control, ram
    <2>7. CASE WriteTarget
      <3>1. Set(target, Top, fr.buf) \in Files /\ Set(target, Top, Absent) \in Files
        BY <1>2, <1>3, <1>7, SetFacts
      <3> QED
        BY <1>3, <1>5, <2>7, <3>1 DEF WriteTarget, WriteFails, IoFails, control, ram
    <2>8. CASE WriteParts
      <3>1. parts' = Set(parts, Top, fr.buf) \/ parts' \in Leftover(parts, Top)
        BY <2>8 DEF WriteParts
      <3>2. parts' \in Files
        BY <1>2, <1>3, <3>1, SetFacts, LeftoverFacts
      <3>3. Hurt(Code(fr, "again")) \in Frames
        BY <1>4, FrameFacts DEF Codes
      <3> QED
        BY <1>3, <2>8, <3>2, <3>3 DEF WriteParts, IoFails, control, ram
    <2>9. CASE CleanStaging
      <3>1. Set(staging, Top, Absent) \in Files
        BY <1>2, <1>3, <1>7, SetFacts
      <3> QED
        BY <1>3, <1>5, <2>9, <3>1 DEF CleanStaging, IoFails, control, ram
    <2> QED
      BY <2>1, <2>2, <2>3, <2>4, <2>5, <2>6, <2>7, <2>8, <2>9
  <1>9. FilesTyped'
    BY <1>8 DEF TypeInv, FilesTyped, ram
  <1>10. Restorable'
    BY <1>1 DEF Restorable
  <1>11. Framed' /\ ControlTyped'
    <2>1. UNCHANGED avail
      BY <1>8 DEF ram
    <2> QED
      BY <1>1, <1>8, <2>1, FramedCall
  <1> QED
    BY <1>9, <1>10, <1>11 DEF TypeInv

\* commit_install_metadata and its rollback.
LEMMA TypeMetadata ==
    ASSUME TypeInv, WriteMarker \/ Save \/ Undo \/ Commit
    PROVE  TypeInv'
  <1>1. pc \in Calls /\ pc' \in Calls \ {"resolve"}
    BY DEF WriteMarker, Save, Undo, Commit, Goto, Calls, Loaded, Checked, Placing, Metadata
  <1>2. Top \in Pkgs /\ avail[Top] \in Versions
    BY <1>1, TopType
  <1>3. /\ target \in Files /\ backup \in Files /\ marker \in Files /\ fr \in Frames
        /\ table \in Tables /\ db \in Tables /\ avail[Top] \in Contents
        /\ fr.was \in Contents /\ fr.old \in 0..MaxVersion
        /\ fr.atomic \in BOOLEAN /\ fr.backed \in BOOLEAN
    BY <1>2, FrameFacts, ConstantTypes DEF TypeInv, FilesTyped, ControlTyped
  <1>4. target[Top] \in Contents /\ backup[Top] \in Contents /\ marker[Top] \in Contents
    BY <1>2, <1>3 DEF Files
  <1>5. Absent \in Contents
    BY ConstantTypes
  <1>6. Hurt(fr) \in Frames
    BY <1>3, FrameFacts
  <1>7. \A c \in Codes : Hurt(Code(fr, c)) \in Frames
    BY <1>3, FrameFacts
  <1>8. Set(backup, Top, Absent) \in Files
    BY <1>2, <1>3, <1>5, SetFacts
  <1>9. UNCHANGED <<control, avail, auth, repo, staging, parts, cache, done, removed, cuts, commands>>
        /\ io' \in {io, io + 1} /\ net' \in {net, net + 1} /\ Top' = Top
    BY DEF WriteMarker, Save, Undo, Commit, IoFails, control, ram, bounds, Top
  <1>10. CASE WriteMarker
    <2>1. \A b \in BOOLEAN : Snapshot(fr, Top, b) \in Frames
      <3>1. VersionIn(table, Top) \in 0..MaxVersion
        BY <1>3, InstalledFacts
      <3>2. \A b \in BOOLEAN : (IF Installed(Top) /\ b THEN marker[Top] ELSE Absent) \in Contents
        BY <1>4, <1>5
      <3> QED
        BY <1>3, <3>1, <3>2 DEF Snapshot, Frames
    <2>2. \A b \in BOOLEAN : Snapshot(fr, Top, b).old = VersionIn(table, Top)
                             /\ Snapshot(fr, Top, b).hurt = fr.hurt
                             /\ Snapshot(fr, Top, b).resave = fr.resave
      BY <1>3 DEF Snapshot, Frames
    <2> HIDE DEF Snapshot
    <2>3. CASE pc' = "save"
      <3>1. /\ marker' = Set(marker, Top, avail[Top])
            /\ fr' \in {Snapshot(fr, Top, TRUE), Hurt(Snapshot(fr, Top, FALSE))}
        BY <1>10, <2>3 DEF WriteMarker, Goto
      <3>0. Hurt(Snapshot(fr, Top, FALSE)) \in Frames
        BY <2>1, FrameFacts
      <3>2. fr' \in Frames
        BY <2>1, <3>0, <3>1
      <3>3. fr'.old = VersionIn(table, Top)
        BY <2>1, <2>2, <3>1 DEF Hurt, Frames
      <3>4. marker' \in Files /\ UNCHANGED <<target, backup, db, table>>
        BY <1>2, <1>3, <1>10, <3>1, SetFacts DEF WriteMarker, ram
      <3>5. Restorable'
        BY <1>9, <2>3, <3>3, <3>4 DEF Restorable
      <3> QED
        BY <1>1, <1>9, <3>2, <3>4, <3>5, FramedCall DEF TypeInv, FilesTyped
    <2>4. CASE pc' = "undo"
      <3> DEFINE f == Snapshot(fr, Top, TRUE)
      <3>1. marker' \in Leftover(marker, Top) /\ fr' = Hurt(Code(f, "again"))
        BY <1>10, <2>4 DEF WriteMarker, Goto
      <3>2. f \in Frames /\ f.old = VersionIn(table, Top)
        BY <2>1, <2>2
      <3> HIDE DEF f
      <3>3. fr' \in Frames
        BY <3>1, <3>2, FrameFacts DEF Codes
      <3>4. fr'.old = VersionIn(table, Top)
        BY <3>1, <3>2 DEF Hurt, Code, Frames
      <3>5. marker' \in Files /\ UNCHANGED <<target, backup, db, table>>
        BY <1>2, <1>3, <1>10, <3>1, LeftoverFacts DEF WriteMarker, ram
      <3>6. Restorable'
        BY <1>9, <2>4, <3>4, <3>5 DEF Restorable, Installed
      <3> QED
        BY <1>1, <1>9, <3>3, <3>5, <3>6, FramedCall DEF TypeInv, FilesTyped
    <2> QED
      BY <1>10, <2>3, <2>4 DEF WriteMarker, Goto
  <1>11. CASE Save
    <2> DEFINE t == Put(table, Top, avail[Top])
    <2>0. fr.old = VersionIn(table, Top)
      BY <1>11 DEF Save, TypeInv, Restorable
    <2>1. CASE Full /\ pc' = "undo" /\ UNCHANGED <<table, db, io>> /\ fr' = Hurt(Code(fr, "refused"))
      <3>1. fr' \in Frames
        BY <1>7, <2>1 DEF Codes
      <3>2. fr'.old = fr.old
        BY <1>3, <2>1 DEF Hurt, Code, Frames
      <3>3. Restorable'
        BY <1>9, <2>0, <2>1, <3>2 DEF Restorable, Installed
      <3>4. FilesTyped'
        BY <1>9, <1>11, <2>1 DEF Save, TypeInv, FilesTyped
      <3> QED
        BY <1>1, <1>9, <3>1, <3>3, <3>4, FramedCall DEF TypeInv
    <2>2. ASSUME ~Full
          PROVE  t \in Tables /\ VersionIn(t, Top) = avail[Top] /\ Serialized(t) \in Tables
      <3>1. VersionIn(table, Top) # 0 \/ Len(table) < MaxInstalled
        BY <1>3, <2>2, TableShape, ConstantTypes DEF Full, Installed
      <3>2. t \in Tables /\ VersionIn(t, Top) = avail[Top]
        BY <1>2, <1>3, <3>1, PutFacts
      <3> QED
        BY <3>2, SerializedFacts
    <2> HIDE DEF t
    <2>3. CASE ~Full /\ pc' = "commit" /\ table' = t /\ db' = Serialized(t) /\ UNCHANGED fr
      <3>1. FilesTyped'
        BY <1>9, <1>11, <2>2, <2>3 DEF Save, TypeInv, FilesTyped
      <3>2. Restorable'
        BY <2>3 DEF Restorable
      <3> QED
        BY <1>1, <1>3, <1>9, <2>3, <3>1, <3>2, FramedCall DEF TypeInv
    <2>4. CASE /\ ~Full /\ pc' = "undo" /\ table' = t /\ db' \in TornDb(Serialized(t))
               /\ fr' = [Hurt(Code(fr, "again")) EXCEPT !.resave = TRUE]
      <3>1. fr' \in Frames
        BY <1>7, <2>4, FrameFacts DEF Codes
      <3>2. fr'.resave
        BY <1>3, <2>4 DEF Hurt, Code, Frames
      <3>3. db' \in Tables
        BY <1>3, <2>2, <2>4, TornFacts
      <3>4. FilesTyped'
        BY <1>9, <1>11, <2>2, <2>4, <3>3 DEF Save, TypeInv, FilesTyped
      <3>5. VersionIn(table', Top') # 0
        BY <1>2, <1>9, <2>2, <2>4, ConstantTypes
      <3>6. Restorable'
        BY <2>4, <3>2, <3>5 DEF Restorable, Installed
      <3> QED
        BY <1>1, <1>9, <3>1, <3>4, <3>6, FramedCall DEF TypeInv
    <2> QED
      BY <1>11, <2>1, <2>3, <2>4 DEF Save, Goto, t
  <1>12. CASE Undo
    <2>1. RestoredTable \in Tables
      <3>1. CASE fr.old = 0
        BY <1>3, <3>1, DropFacts DEF RestoredTable
      <3>2. CASE fr.old # 0
        <4>1. fr.old \in Versions
          BY <1>3, <3>2, ConstantTypes
        <4>2. VersionIn(table, Top) # 0
          BY <1>12, <3>2 DEF Undo, TypeInv, Restorable, Installed
        <4> QED
          BY <1>2, <1>3, <3>2, <4>1, <4>2, PutFacts DEF RestoredTable
      <3> QED
        BY <3>1, <3>2
    <2>2. RestoredMarker \in Files
      BY <1>2, <1>3, SetFacts DEF RestoredMarker
    <2>3. RestoredTarget \in Files
      <3> DEFINE kept == IF fr.atomic THEN Set(target, Top, Absent) ELSE target
      <3>1. kept \in Files
        BY <1>2, <1>3, <1>5, SetFacts
      <3>2. RestoredTarget \in {kept, Set(kept, Top, backup[Top])}
        BY DEF RestoredTarget
      <3> HIDE DEF kept
      <3> QED
        BY <1>2, <1>4, <3>1, <3>2, SetFacts
    <2>4. Serialized(RestoredTable) \in Tables
      BY <2>1, SerializedFacts
    <2>5. FilesTyped'
      BY <1>3, <1>8, <1>9, <1>12, <2>1, <2>2, <2>3, <2>4 DEF Undo, TypeInv, FilesTyped
    <2>6. Restorable' /\ UNCHANGED fr
      BY <1>12 DEF Undo, Goto, Restorable
    <2> QED
      BY <1>1, <1>3, <1>9, <2>5, <2>6, FramedCall DEF TypeInv
  <1>13. CASE Commit
    <2>1. FilesTyped'
      BY <1>8, <1>9, <1>13 DEF Commit, TypeInv, FilesTyped, ram
    <2>2. Restorable'
      BY <1>13 DEF Commit, Goto, Restorable
    <2>3. fr' \in Frames
      BY <1>3, <1>6, <1>13 DEF Commit
    <2> QED
      BY <1>1, <1>9, <2>1, <2>2, <2>3, FramedCall DEF TypeInv
  <1> QED
    BY <1>10, <1>11, <1>12, <1>13

\* A set of numbers that is not empty has a smallest one.
LEMMA SmallestIn ==
    ASSUME NEW S, S \subseteq Nat, S # {}
    PROVE  \E i \in S : \A j \in S : i <= j
  <1>1. \E i \in S : \A j \in S : ~(j < i)
    <2>1. PICK i \in S : \A j \in S : <<j, i>> \notin OpToRel(<, Nat)
      BY NatLessThanWellFounded, WFMin, Zenon
    <2>2. \A j \in S : ~(j < i)
      BY <2>1 DEF OpToRel
    <2> QED
      BY <2>2, Zenon
  <1> QED
    BY <1>1

\* What a cut at any step leaves of db.idx: the old one, or a prefix of the
\* table the call was saving.
CutTable == IF pc = "forget" THEN Drop(table, Top) ELSE Put(table, Top, avail[Top])
LEMMA CutDb ==
    ASSUME TypeInv, PowerCut
    PROVE  /\ db' \in Tables
           /\ \/ db' = db
              \/ /\ (pc = "save" /\ ~Full) \/ pc = "forget"
                 /\ CutTable \in Tables
                 /\ \E k \in 0..Len(CutTable) : db' = SubSeq(CutTable, 1, k)
                 /\ \A q : VersionIn(db', q) \in {0, VersionIn(CutTable, q)}
  <1>1. table \in Tables /\ db \in Tables
    BY DEF TypeInv, FilesTyped
  <1>2. CASE pc = "save" /\ ~Full
    <2>1. Top \in Pkgs /\ avail[Top] \in Versions
      BY <1>2, TopType DEF Calls, Loaded, Checked, Metadata
    <2>2. VersionIn(table, Top) # 0 \/ Len(table) < MaxInstalled
      BY <1>1, <1>2, TableShape, ConstantTypes DEF Full, Installed
    <2>3. CutTable \in Tables
      BY <1>1, <1>2, <2>1, <2>2, PutFacts DEF CutTable
    <2>4. db' \in TornDb(Serialized(CutTable))
      BY <1>2 DEF PowerCut, CutTable
    <2> QED
      BY <1>1, <1>2, <2>3, <2>4, TornFacts
  <1>3. CASE pc = "forget"
    <2>1. CutTable \in Tables
      BY <1>1, <1>3, DropFacts DEF CutTable
    <2>2. db' \in TornDb(Serialized(CutTable))
      BY <1>3 DEF PowerCut, CutTable
    <2> QED
      BY <1>1, <1>3, <2>1, <2>2, TornFacts
  <1>4. CASE ~(pc = "save" /\ ~Full) /\ pc # "forget"
    BY <1>1, <1>4 DEF PowerCut
  <1> QED
    BY <1>2, <1>3, <1>4

\* install_dependencies, the returns, capypkg_remove, and the power.
LEMMA TypeOthers ==
    ASSUME TypeInv, Resolve \/ Return \/ RemovePkg \/ Forget \/ PowerCut \/ Boot
    PROVE  TypeInv'
  <1>0. /\ table \in Tables /\ db \in Tables /\ fr \in Frames /\ fr.rc \in Codes
        /\ stack \in Seq(Pkgs) /\ Len(stack) <= Budget /\ queue \in Seq(Pkgs)
    BY FrameFacts DEF TypeInv, FilesTyped, ControlTyped
  <1>1. CASE Resolve
    <2>1. pc = "resolve" /\ UNCHANGED <<repo, files, ram, job, queue, tries, failed, removed, bounds>>
      BY <1>1 DEF Resolve
    <2>2. Top \in Pkgs /\ avail[Top] \in Versions
      BY <2>1, TopType DEF Calls
    <2>3. FilesTyped'
      BY <2>1 DEF TypeInv, FilesTyped, files, ram
    <2>4. CASE pc' = "fetch" /\ UNCHANGED <<stack, fr>>
      BY <1>0, <2>1, <2>3, <2>4, FramedCall
         DEF TypeInv, Restorable, ram, bounds, control, Calls
    <2>5. CASE pc' = "return" /\ UNCHANGED stack /\ fr' = Code(fr, "refused")
      <3>1. fr' \in Frames
        BY <1>0, <2>5, FrameFacts DEF Codes
      <3> QED
        BY <2>1, <2>3, <2>5, <3>1, FramedCall
           DEF TypeInv, Restorable, ram, bounds, control, Calls
    <2>6. CASE /\ Missing # {} /\ avail[NextDep] # 0 /\ Len(stack) < Budget
               /\ stack' = Append(stack, NextDep) /\ UNCHANGED <<pc, fr>>
      <3>1. NextDep \in Pkgs
        <4>1. Deps[Top] \in Seq(Pkgs)
          BY <2>2, ConstantTypes
        <4>2. Missing \subseteq Nat /\ \A i \in Missing : Deps[Top][i] \in Pkgs
          BY <4>1 DEF Missing
        <4> HIDE DEF Missing
        <4>3. \E i \in Missing : \A j \in Missing : i <= j
          BY <2>6, <4>2, SmallestIn
        <4> QED
          BY <4>2, <4>3 DEF NextDep
      <3>2. /\ stack' \in Seq(Pkgs) /\ Len(stack') = Len(stack) + 1
            /\ DOMAIN stack' = 1..(Len(stack) + 1) /\ stack'[Len(stack) + 1] = NextDep
            /\ \A i \in 1..Len(stack) : i \in DOMAIN stack /\ stack'[i] = stack[i]
            /\ Len(stack) \in Nat
        BY <1>0, <2>6, <3>1
      <3>3. \A i \in DOMAIN stack' : i = Len(stack) + 1 \/ i \in 1..Len(stack)
        BY <3>2
      <3>4. stack' # <<>>
        BY <3>2
      <3>5. \A i \in DOMAIN stack' : avail[stack'[i]] # 0
        <4>1. \A i \in DOMAIN stack : avail[stack[i]] # 0
          BY <2>1 DEF TypeInv, Framed, Calls
        <4> QED
          BY <2>6, <3>2, <3>3, <4>1
      <3>6. ControlTyped'
        BY <2>1, <2>6, <3>2, ConstantTypes DEF TypeInv, ControlTyped, bounds
      <3>7. Framed'
        BY <2>1, <2>6, <3>4, <3>5
           DEF TypeInv, Framed, ram, Calls, Loaded, Checked, Placing, Metadata, Quiet
      <3>8. Restorable'
        BY <2>1, <2>6 DEF Restorable
      <3> QED
        BY <2>3, <3>6, <3>7, <3>8 DEF TypeInv
    <2> QED
      BY <1>1, <2>4, <2>5, <2>6 DEF Resolve, Goto
  <1>2. CASE Return
    <2>1. /\ pc = "return" /\ fr' = NoFrame
          /\ UNCHANGED <<repo, files, ram, job, removed, bounds>>
      BY <1>2 DEF Return
    <2>2. stack # <<>> /\ queue # <<>> /\ \A i \in DOMAIN stack : avail[stack[i]] # 0
      BY <2>1 DEF TypeInv, Framed, Calls
    <2>3. FilesTyped'
      BY <2>1 DEF TypeInv, FilesTyped, files, ram
    <2>4. CASE /\ Len(stack) > 1 /\ stack' = Front(stack) /\ pc' = "resolve"
               /\ UNCHANGED <<queue, tries, failed>>
      <3>1. /\ stack' \in Seq(Pkgs) /\ Len(stack') = Len(stack) - 1
            /\ \A i \in DOMAIN stack' : i \in DOMAIN stack /\ stack'[i] = stack[i]
        BY <1>0, <2>2, <2>4, TopFacts
      <3>2. stack' # <<>>
        BY <1>0, <2>4, <3>1
      <3>3. ControlTyped'
        BY <1>0, <2>1, <2>4, <3>1, NoFrameType, ConstantTypes
           DEF TypeInv, ControlTyped, bounds, Labels, Calls
      <3>4. Framed' /\ Restorable'
        BY <2>1, <2>2, <2>4, <3>1, <3>2
           DEF Framed, Restorable, ram, Calls, Loaded, Checked, Placing, Metadata, Quiet
      <3> QED
        BY <2>3, <3>3, <3>4 DEF TypeInv
    <2>5. CASE /\ stack' = <<>> /\ pc' = "next" /\ tries < Attempts
               /\ UNCHANGED <<queue, tries, failed>>
      <3>1. ControlTyped'
        BY <2>1, <2>5, NoFrameType, ConstantTypes
           DEF TypeInv, ControlTyped, bounds, Labels, Quiet
      <3>2. Framed' /\ Restorable'
        BY <2>1, <2>5
           DEF Framed, Restorable, ram, Calls, Loaded, Checked, Placing, Metadata, Quiet
      <3> QED
        BY <2>3, <3>1, <3>2 DEF TypeInv
    <2>6. CASE /\ stack' = <<>> /\ pc' = "next" /\ queue' = Tail(queue) /\ tries' = 0
               /\ failed' \in {failed, failed + 1}
      <3>1. queue' \in Seq(Pkgs) /\ Len(queue') = Len(queue) - 1 /\ Len(queue) \in Nat
        BY <1>0, <2>2, <2>6
      <3>2. failed' \in Nat /\ failed' + Len(queue') <= N
        BY <2>6, <3>1, ConstantTypes DEF TypeInv, ControlTyped
      <3>3. ControlTyped'
        BY <2>1, <2>6, <3>1, <3>2, NoFrameType, ConstantTypes
           DEF TypeInv, ControlTyped, bounds, Labels, Quiet
      <3>4. Framed' /\ Restorable'
        BY <2>1, <2>6, ConstantTypes
           DEF Framed, Restorable, ram, Calls, Loaded, Checked, Placing, Metadata, Quiet
      <3> QED
        BY <2>3, <3>3, <3>4 DEF TypeInv
    <2> QED
      BY <1>2, <2>4, <2>5, <2>6 DEF Return, Goto
  <1>3. CASE RemovePkg
    <2>1. PICK p \in Pkgs :
            /\ stack' = <<p>> /\ removed' = removed \union {p}
            /\ \/ target' = Set(target, p, Absent) /\ UNCHANGED <<io, fr>>
               \/ IoFails /\ fr' = Hurt(fr) /\ UNCHANGED target
      BY <1>3 DEF RemovePkg
    <2>2. /\ commands' = commands + 1 /\ pc' = "forget"
          /\ UNCHANGED <<repo, backup, staging, parts, marker, db, cache, done, ram, job,
                         queue, tries, failed, net, cuts>>
      BY <1>3 DEF RemovePkg, Command, Goto
    <2>3. target' \in Files
      <3>1. target \in Files /\ Absent \in Contents
        BY ConstantTypes DEF TypeInv, FilesTyped
      <3> QED
        BY <2>1, <3>1, SetFacts
    <2>4. FilesTyped'
      BY <2>2, <2>3 DEF TypeInv, FilesTyped, ram
    <2>5. fr' \in Frames /\ io' \in {io, io + 1}
      BY <1>0, <2>1, FrameFacts DEF IoFails
    <2>6. stack' \in Seq(Pkgs) /\ Len(stack') = 1 /\ stack' # <<>>
      BY <2>1
    <2>7. ControlTyped'
      BY <2>1, <2>2, <2>5, <2>6, ConstantTypes DEF TypeInv, ControlTyped, Labels
    <2>8. Framed' /\ Restorable'
      BY <2>2, <2>6 DEF Framed, Restorable, Calls, Loaded, Checked, Placing, Metadata, Quiet
    <2> QED
      BY <2>4, <2>7, <2>8 DEF TypeInv
  <1>4. CASE Forget
    <2>1. /\ pc' = "idle" /\ table' = Drop(table, Top) /\ stack' = <<>> /\ fr' = NoFrame
          /\ UNCHANGED <<repo, target, backup, staging, parts, marker, cache, done, avail,
                         auth, job, queue, tries, failed, removed, net, cuts, commands>>
          /\ io' \in {io, io + 1}
          /\ db' = Serialized(table') \/ db' \in TornDb(Serialized(table'))
      BY <1>4 DEF Forget, Goto, IoFails
    <2>2. table' \in Tables
      BY <1>0, <2>1, DropFacts
    <2>3. db' \in Tables
      BY <1>0, <2>1, <2>2, SerializedFacts, TornFacts
    <2>4. FilesTyped'
      BY <2>1, <2>2, <2>3 DEF TypeInv, FilesTyped
    <2>5. ControlTyped'
      BY <2>1, NoFrameType, ConstantTypes DEF TypeInv, ControlTyped, Labels, Quiet
    <2>6. Framed' /\ Restorable'
      BY <2>1 DEF Framed, Restorable, Calls, Loaded, Checked, Placing, Metadata, Quiet
    <2> QED
      BY <2>4, <2>5, <2>6 DEF TypeInv
  <1>5. CASE PowerCut
    <2>1. /\ pc' = "off" /\ stack' = <<>> /\ fr' = NoFrame /\ queue' = <<>> /\ tries' = 0
          /\ failed' = 0 /\ job' = "user" /\ table' = <<>> /\ avail' = NotListed /\ auth' = FALSE
          /\ cuts' = cuts + 1 /\ done' \in BOOLEAN \union {done}
          /\ (cache' = cache \/ cache' \in TornIndex(repo))
          /\ UNCHANGED <<repo, backup, removed, io, net, commands>>
      BY <1>5 DEF PowerCut, Goto
    <2>2. target' \in Files /\ staging' \in Files /\ parts' \in Files /\ marker' \in Files
      <3>1. /\ target \in Files /\ staging \in Files /\ parts \in Files /\ marker \in Files
        BY DEF TypeInv, FilesTyped
      <3>2. pc \in {"stage", "write", "parts", "marker"} => Top \in Pkgs
        BY TopType DEF Calls, Loaded, Checked, Placing, Metadata
      <3> QED
        BY <1>5, <3>1, <3>2, LeftoverFacts DEF PowerCut, Interrupted
    <2>3. db' \in Tables
      BY <1>0, <1>5, CutDb DEF PowerCut
    <2>4. FilesTyped'
      <3>1. NotListed \in Catalogues
        BY ConstantTypes DEF NotListed, Catalogues
      <3>2. cache'.ver \in Catalogues
        BY <2>1, IndexType DEF TypeInv, FilesTyped
      <3> QED
        BY <2>1, <2>2, <2>3, <3>1, <3>2, EmptyTable DEF TypeInv, FilesTyped
    <2>5. ControlTyped'
      BY <2>1, NoFrameType, ConstantTypes DEF TypeInv, ControlTyped, Labels, Quiet
    <2>6. Framed' /\ Restorable'
      BY <2>1 DEF Framed, Restorable, Calls, Loaded, Checked, Placing, Metadata, Quiet
    <2> QED
      BY <2>4, <2>5, <2>6 DEF TypeInv
  <1>6. CASE Boot
    <2>1. FilesTyped'
      BY <1>6 DEF Boot, TypeInv, FilesTyped, files
    <2>2. ControlTyped'
      BY <1>6 DEF Boot, Goto, TypeInv, ControlTyped, control, bounds, Labels, Quiet
    <2>3. Framed' /\ Restorable'
      BY <1>6
         DEF Boot, Goto, TypeInv, Framed, Restorable, Calls, Loaded, Checked, Placing, Metadata,
             Quiet
    <2> QED
      BY <2>1, <2>2, <2>3 DEF TypeInv
  <1> QED
    BY <1>1, <1>2, <1>3, <1>4, <1>5, <1>6

LEMMA TypeNext == TypeInv /\ [Next]_vars => TypeInv'
  <1> SUFFICES ASSUME TypeInv, [Next]_vars PROVE TypeInv'
    OBVIOUS
  <1>1. CASE UNCHANGED vars
    <2>1. FilesTyped'
      BY <1>1 DEF TypeInv, FilesTyped, vars, files, ram
    <2>2. ControlTyped'
      BY <1>1 DEF TypeInv, ControlTyped, vars, control, bounds
    <2>3. Framed'
      BY <1>1 DEF TypeInv, Framed, vars, control, ram
    <2>4. Restorable'
      BY <1>1 DEF TypeInv, Restorable, Installed, Top, vars, control, ram
    <2> QED
      BY <2>1, <2>2, <2>3, <2>4 DEF TypeInv
  <1> QED
    BY <1>1, TypeCallers, TypePayload, TypeMetadata, TypeOthers DEF Next, Step

LEMMA TypeImplies == TypeInv => TypeOK
  <1> SUFFICES ASSUME TypeInv PROVE TypeOK
    OBVIOUS
  <1>1. {repo, cache.ver, avail} \subseteq [Pkgs -> 0..MaxVersion]
        /\ {target, backup, staging, parts, marker} \subseteq [Pkgs -> Contents]
    BY DEF TypeInv, FilesTyped, Catalogues, Files
  <1>2. \A t \in {table, db} : /\ t \in Seq([pkg : Pkgs, ver : Versions])
                               /\ Len(t) <= MaxInstalled
                               /\ \A i, j \in DOMAIN t : t[i].pkg = t[j].pkg => i = j
    BY DEF TypeInv, FilesTyped, Tables, Unique, Entries
  <1>3. failed \in 0..N
    BY ConstantTypes DEF TypeInv, ControlTyped
  <1>4. fr.rc \in Codes
    BY FrameFacts DEF TypeInv, ControlTyped
  <1> QED
    BY <1>1, <1>2, <1>3, <1>4 DEF TypeOK, TypeInv, ControlTyped, Codes

-----------------------------------------------------------------------------
(* Unverified bytes stay in the staging area *)

Clean(f) == \A p \in Pkgs : f[p] # Bad

LEMMA CleanSet ==
    ASSUME NEW f \in Files, Clean(f), NEW p \in Pkgs, NEW c \in Contents, c # Bad
    PROVE  Clean(Set(f, p, c)) /\ Set(f, p, c) \in Files
  BY SetFacts DEF Clean

LEMMA CleanLeftover ==
    ASSUME NEW f \in Files, Clean(f), NEW p \in Pkgs, NEW g \in Leftover(f, p)
    PROVE  Clean(g)
  BY LeftoverFacts, ConstantTypes DEF Clean

LEMMA CleanAll == NoUnverified <=> Clean(target) /\ Clean(parts) /\ Clean(backup)
  BY DEF NoUnverified, Clean

\* What the other fields of a frame are after one was assigned.
LEMMA FrameUpdates ==
    ASSUME NEW f \in Frames
    PROVE  /\ /\ Hurt(f).existing = f.existing /\ Hurt(f).buf = f.buf
              /\ Hurt(f).staged = f.staged /\ Hurt(f).atomic = f.atomic
              /\ Hurt(f).backed = f.backed /\ Hurt(f).was = f.was /\ Hurt(f).old = f.old
              /\ Hurt(f).resave = f.resave /\ Hurt(f).rc = f.rc /\ Hurt(f).hurt = TRUE
           /\ \A c \in Codes :
              /\ Code(f, c).existing = f.existing /\ Code(f, c).buf = f.buf
              /\ Code(f, c).staged = f.staged /\ Code(f, c).atomic = f.atomic
              /\ Code(f, c).backed = f.backed /\ Code(f, c).was = f.was /\ Code(f, c).old = f.old
              /\ Code(f, c).resave = f.resave /\ Code(f, c).hurt = f.hurt
           /\ \A b \in BOOLEAN : LET g == [f EXCEPT !.staged = b] IN
              /\ g.existing = f.existing /\ g.buf = f.buf /\ g.staged = b /\ g.atomic = f.atomic
              /\ g.backed = f.backed /\ g.hurt = f.hurt
           /\ \A b \in BOOLEAN : LET g == [f EXCEPT !.backed = b] IN
              /\ g.existing = f.existing /\ g.buf = f.buf /\ g.staged = f.staged
              /\ g.atomic = f.atomic /\ g.backed = b /\ g.hurt = f.hurt
           /\ \A b \in BOOLEAN : LET g == [f EXCEPT !.resave = b] IN
              /\ g.existing = f.existing /\ g.buf = f.buf /\ g.staged = f.staged
              /\ g.atomic = f.atomic /\ g.backed = f.backed /\ g.was = f.was /\ g.old = f.old
              /\ g.resave = b /\ g.hurt = f.hurt
           /\ LET g == [f EXCEPT !.atomic = TRUE, !.staged = FALSE] IN
              /\ g.existing = f.existing /\ g.buf = f.buf /\ g.staged = FALSE
              /\ g.atomic = TRUE /\ g.backed = f.backed /\ g.hurt = f.hurt
  BY DEF Frames, Hurt, Code

LEMMA SnapshotUpdates ==
    ASSUME NEW f \in Frames, NEW p, NEW b \in BOOLEAN
    PROVE  LET g == Snapshot(f, p, b) IN
           /\ g.existing = f.existing /\ g.buf = f.buf /\ g.staged = f.staged
           /\ g.atomic = f.atomic /\ g.backed = f.backed /\ g.hurt = f.hurt
           /\ g.resave = f.resave /\ g.old = VersionIn(table, p)
           /\ g.was = IF Installed(p) /\ b THEN marker[p] ELSE Absent
  BY DEF Frames, Snapshot

-----------------------------------------------------------------------------
(* What each step of capypkg_install does to the files of its package and   *)
(* to its frame                                                             *)

CallStep ==
    /\ pc \in Calls /\ pc' \in Calls \ {"resolve"}
    /\ UNCHANGED <<control, avail, auth, removed, cuts>> /\ Top' = Top
    /\ Top \in Pkgs /\ avail[Top] \in Versions

\* The files of the other packages are left alone.
OnlyTop ==
    \A q \in Pkgs : q # Top =>
        /\ target'[q] = target[q] /\ backup'[q] = backup[q] /\ parts'[q] = parts[q]
        /\ staging'[q] = staging[q] /\ marker'[q] = marker[q]

SameFrame == fr'.existing = fr.existing /\ fr'.buf = fr.buf

LEMMA FetchEffect ==
    ASSUME TypeInv, Fetch
    PROVE  /\ CallStep /\ pc = "fetch" /\ pc' \in {"stage", "return"}
           /\ UNCHANGED <<target, backup, staging, parts, marker, table, db, io>>
           /\ fr'.existing = Installed(Top) /\ fr'.buf \in {avail[Top], Bad}
           /\ ~fr'.staged /\ ~fr'.backed /\ ~fr'.hurt /\ ~fr'.resave
  <1> DEFINE f == [NoFrame EXCEPT !.existing = Installed(Top), !.buf = avail[Top]]
  <1>1. CallStep /\ pc = "fetch" /\ pc' \in {"stage", "return"}
    BY TopType DEF Fetch, CallStep, Goto, Calls, Loaded, control, ram, Top
  <1>2. UNCHANGED <<target, backup, staging, parts, marker, table, db, io>>
    BY DEF Fetch, files, ram
  <1>3. fr' \in {f, [f EXCEPT !.buf = Bad], Code(f, "again"), Code(f, "refused")}
    BY DEF Fetch
  <1>4. \A g \in {f, [f EXCEPT !.buf = Bad], Code(f, "again"), Code(f, "refused")} :
            /\ g.existing = Installed(Top) /\ g.buf \in {avail[Top], Bad}
            /\ ~g.staged /\ ~g.backed /\ ~g.hurt /\ ~g.resave
    BY ZenonT(60) DEF NoFrame, Code
  <1> QED
    BY <1>1, <1>2, <1>3, <1>4

LEMMA StageEffect ==
    ASSUME TypeInv, Stage
    PROVE  /\ CallStep /\ OnlyTop /\ SameFrame /\ pc = "stage" /\ pc' = "verify"
           /\ UNCHANGED <<target, backup, parts, marker, table, db>>
           /\ fr'.backed = fr.backed /\ fr'.resave = fr.resave
           /\ \/ /\ Top \notin Big /\ staging'[Top] = fr.buf /\ fr'.staged
                 /\ fr'.hurt = fr.hurt /\ io' = io
              \/ Top \in Big /\ fr'.staged = fr.staged /\ fr'.hurt = fr.hurt /\ io' = io
              \/ /\ Top \notin Big /\ ~fr.hurt /\ fr'.staged = fr.staged
                 /\ fr'.hurt /\ io' = io + 1
  <1>1. CallStep /\ pc = "stage" /\ pc' = "verify"
    BY TopType DEF Stage, CallStep, Goto, Calls, Loaded, control, ram, Top
  <1>2. staging \in Files /\ fr \in Frames /\ Top \in Pkgs /\ fr.buf \in Contents
    BY <1>1, FrameFacts DEF CallStep, TypeInv, FilesTyped, ControlTyped
  <1>3. UNCHANGED <<target, backup, parts, marker, table, db>>
    BY DEF Stage, ram
  <1>4. CASE Top \notin Big /\ staging' = Set(staging, Top, fr.buf)
             /\ fr' = [fr EXCEPT !.staged = TRUE] /\ io' = io
    <2>1. OnlyTop /\ staging'[Top] = fr.buf
      BY <1>2, <1>3, <1>4, SetFacts DEF OnlyTop
    <2>2. /\ SameFrame /\ fr'.staged /\ fr'.hurt = fr.hurt /\ fr'.backed = fr.backed
          /\ fr'.resave = fr.resave
      BY <1>2, <1>4 DEF Frames, SameFrame
    <2> QED
      BY <1>1, <1>3, <1>4, <2>1, <2>2
  <1>5. CASE WriteFails(Top) /\ staging' \in Leftover(staging, Top)
             /\ fr' = IF Top \in Big THEN fr ELSE Hurt(fr)
    <2>1. OnlyTop
      BY <1>2, <1>3, <1>5, LeftoverFacts DEF OnlyTop
    <2>2. /\ SameFrame /\ fr'.staged = fr.staged /\ fr'.backed = fr.backed
          /\ fr'.resave = fr.resave /\ fr'.hurt = IF Top \in Big THEN fr.hurt ELSE TRUE
      BY <1>2, <1>5 DEF Frames, SameFrame, Hurt
    <2> QED
      BY <1>1, <1>3, <1>5, <2>1, <2>2 DEF WriteFails, IoFails
  <1> QED
    BY <1>4, <1>5 DEF Stage

LEMMA VerifyEffect ==
    ASSUME TypeInv, Verify
    PROVE  /\ CallStep /\ SameFrame /\ pc = "verify"
           /\ UNCHANGED <<target, backup, staging, parts, marker, table, db, io>>
           /\ fr'.staged = fr.staged /\ fr'.backed = fr.backed /\ fr'.hurt = fr.hurt
           /\ fr'.resave = fr.resave
           /\ pc' = "return" \/ (fr.buf # Bad /\ pc' = IF fr.staged THEN "drop" ELSE "write")
  <1>0. pc = "verify" /\ pc' \in {"return", "drop", "write"}
    BY DEF Verify, Goto
  <1>1. CallStep /\ pc = "verify"
    BY <1>0, TopType
       DEF Verify, CallStep, Calls, Loaded, Checked, Placing, control, ram, bounds, Top
  <1>2. fr \in Frames
    BY DEF TypeInv, ControlTyped
  <1>3. fr' \in {fr, Code(fr, "again"), Code(fr, "refused")}
    BY DEF Verify
  <1>4. /\ SameFrame /\ fr'.staged = fr.staged /\ fr'.backed = fr.backed /\ fr'.hurt = fr.hurt
        /\ fr'.resave = fr.resave
    BY <1>2, <1>3 DEF SameFrame, Frames, Code
  <1> QED
    BY <1>1, <1>4 DEF Verify, Goto, files, ram, bounds

LEMMA DropBackupEffect ==
    ASSUME TypeInv, DropBackup
    PROVE  /\ CallStep /\ OnlyTop /\ SameFrame /\ pc = "drop" /\ pc' = "keep"
           /\ UNCHANGED <<target, staging, parts, marker, table, db>>
           /\ fr'.staged = fr.staged /\ fr'.backed = fr.backed /\ fr'.resave = fr.resave
           /\ \/ backup'[Top] = Absent /\ fr'.hurt = fr.hurt /\ io' = io
              \/ backup' = backup /\ ~fr.hurt /\ fr'.hurt /\ io' = io + 1
  <1>1. CallStep /\ pc = "drop" /\ pc' = "keep"
    BY TopType
       DEF DropBackup, CallStep, Goto, Calls, Loaded, Checked, Placing, control, ram, Top
  <1>2. backup \in Files /\ fr \in Frames /\ Top \in Pkgs /\ Absent \in Contents
    BY <1>1, ConstantTypes DEF CallStep, TypeInv, FilesTyped, ControlTyped
  <1>3. UNCHANGED <<target, staging, parts, marker, table, db>>
    BY DEF DropBackup, ram
  <1>4. CASE backup' = Set(backup, Top, Absent) /\ UNCHANGED <<io, fr>>
    BY <1>1, <1>2, <1>3, <1>4, SetFacts DEF OnlyTop, SameFrame
  <1>5. CASE IoFails /\ fr' = Hurt(fr) /\ UNCHANGED backup
    BY <1>1, <1>2, <1>3, <1>5, FrameUpdates, ZenonT(60) DEF OnlyTop, SameFrame, IoFails
  <1> QED
    BY <1>4, <1>5 DEF DropBackup

LEMMA KeepEffect ==
    ASSUME TypeInv, Keep
    PROVE  /\ CallStep /\ OnlyTop /\ SameFrame /\ pc = "keep" /\ pc' = "swap"
           /\ UNCHANGED <<staging, parts, marker, table, db>>
           /\ fr'.staged = fr.staged /\ fr'.resave = fr.resave
           /\ \/ /\ fr.existing /\ target[Top] # Absent /\ backup[Top] = Absent
                 /\ backup'[Top] = target[Top] /\ target'[Top] = Absent
                 /\ fr'.backed /\ fr'.hurt = fr.hurt /\ io' = io
              \/ /\ ~(fr.existing /\ target[Top] # Absent /\ backup[Top] = Absent)
                 /\ UNCHANGED <<target, backup>>
                 /\ fr'.backed = fr.backed /\ fr'.hurt = fr.hurt /\ io' = io
              \/ /\ fr.existing /\ ~fr.hurt /\ UNCHANGED <<target, backup>>
                 /\ fr'.backed = fr.backed /\ fr'.hurt /\ io' = io + 1
  <1>1. CallStep /\ pc = "keep" /\ pc' = "swap"
    BY TopType
       DEF Keep, CallStep, Goto, Calls, Loaded, Checked, Placing, control, ram, Top
  <1>2. /\ target \in Files /\ backup \in Files /\ fr \in Frames /\ Top \in Pkgs
        /\ Absent \in Contents
    BY <1>1, ConstantTypes DEF CallStep, TypeInv, FilesTyped, ControlTyped
  <1>3. target[Top] \in Contents
    BY <1>2 DEF Files
  <1>4. UNCHANGED <<staging, parts, marker, table, db>>
    BY DEF Keep, ram
  <1>5. CASE /\ fr.existing /\ CanRename(target, backup, Top)
             /\ backup' = Set(backup, Top, target[Top])
             /\ target' = Set(target, Top, Absent)
             /\ fr' = [fr EXCEPT !.backed = TRUE] /\ io' = io
    <2>1. backup'[Top] = target[Top] /\ \A q \in Pkgs : q # Top => backup'[q] = backup[q]
      BY <1>2, <1>3, <1>5, SetFacts
    <2>2. target'[Top] = Absent /\ \A q \in Pkgs : q # Top => target'[q] = target[q]
      BY <1>2, <1>3, <1>5, SetFacts
    <2>3. /\ SameFrame /\ fr'.staged = fr.staged /\ fr'.backed /\ fr'.hurt = fr.hurt
          /\ fr'.resave = fr.resave
      BY <1>2, <1>5 DEF Frames, SameFrame
    <2>4. OnlyTop
      BY <1>4, <2>1, <2>2 DEF OnlyTop
    <2> QED
      BY <1>1, <1>4, <1>5, <2>1, <2>2, <2>3, <2>4 DEF CanRename
  <1>6. CASE /\ ~(fr.existing /\ CanRename(target, backup, Top))
             /\ UNCHANGED <<target, backup, fr, io>>
    BY <1>1, <1>4, <1>6 DEF OnlyTop, SameFrame, CanRename
  <1>7. CASE fr.existing /\ IoFails /\ fr' = Hurt(fr) /\ UNCHANGED <<target, backup>>
    BY <1>1, <1>2, <1>4, <1>7, FrameUpdates DEF OnlyTop, SameFrame, IoFails
  <1> QED
    BY <1>5, <1>6, <1>7 DEF Keep

LEMMA SwapEffect ==
    ASSUME TypeInv, Swap
    PROVE  /\ CallStep /\ OnlyTop /\ SameFrame /\ pc = "swap"
           /\ UNCHANGED <<parts, marker, table, db>> /\ fr'.resave = fr.resave
           /\ \/ /\ target[Top] = Absent /\ target'[Top] = staging[Top] /\ UNCHANGED backup
                 /\ fr'.atomic /\ fr'.backed = fr.backed
                 /\ pc' = "clean" /\ fr'.hurt = fr.hurt /\ io' = io
              \/ /\ UNCHANGED staging /\ pc' = "write" /\ ~fr'.backed
                 /\ fr'.staged = fr.staged
                 /\ \/ ~fr.hurt /\ fr'.hurt /\ io' = io + 1
                    \/ /\ staging[Top] = Absent \/ target[Top] # Absent
                       /\ fr'.hurt = fr.hurt /\ io' = io
                 /\ IF fr.backed
                    THEN target'[Top] = backup[Top] /\ backup'[Top] = Absent
                    ELSE UNCHANGED <<target, backup>>
  <1>1. CallStep /\ pc = "swap" /\ pc' \in {"clean", "write"}
    BY TopType
       DEF Swap, CallStep, Goto, Calls, Loaded, Checked, Placing, Metadata, control, ram, Top
  <1>2. /\ target \in Files /\ backup \in Files /\ staging \in Files /\ fr \in Frames
        /\ Top \in Pkgs /\ Absent \in Contents
    BY <1>1, ConstantTypes DEF CallStep, TypeInv, FilesTyped, ControlTyped
  <1>3. staging[Top] \in Contents /\ backup[Top] \in Contents
    BY <1>2 DEF Files
  <1>4. UNCHANGED <<parts, marker, table, db>>
    BY DEF Swap, ram
  <1>5. CASE /\ CanRename(staging, target, Top)
             /\ target' = Set(target, Top, staging[Top])
             /\ staging' = Set(staging, Top, Absent)
             /\ fr' = [fr EXCEPT !.atomic = TRUE, !.staged = FALSE]
             /\ pc' = "clean" /\ UNCHANGED <<backup, io>>
    <2>0. target' = Set(target, Top, staging[Top])
      BY <1>5
    <2>1. target'[Top] = staging[Top] /\ \A q \in Pkgs : q # Top => target'[q] = target[q]
      <3>1. target \in [Pkgs -> Contents]
        BY <1>2 DEF Files
      <3> QED
        BY ONLY <1>2, <2>0, <3>1 DEF Set
    <2>2. \A q \in Pkgs : q # Top => staging'[q] = staging[q]
      BY <1>2, <1>3, <1>5, SetFacts, ZenonT(60)
    <2>3. /\ SameFrame /\ fr'.atomic /\ fr'.backed = fr.backed /\ fr'.hurt = fr.hurt
          /\ fr'.resave = fr.resave
      BY <1>2, <1>5 DEF Frames, SameFrame
    <2>4. OnlyTop
      BY <1>4, <1>5, <2>1, <2>2 DEF OnlyTop
    <2> QED
      BY <1>1, <1>4, <1>5, <2>1, <2>3, <2>4 DEF CanRename
  <1>6. CASE /\ IF CanRename(staging, target, Top)
                THEN IoFails /\ fr' = [Hurt(fr) EXCEPT !.backed = FALSE]
                ELSE UNCHANGED io /\ fr' = [fr EXCEPT !.backed = FALSE]
             /\ IF fr.backed
                THEN /\ target' = Set(target, Top, backup[Top])
                     /\ backup' = Set(backup, Top, Absent)
                ELSE UNCHANGED <<target, backup>>
             /\ pc' = "write" /\ UNCHANGED staging
    <2>1. OnlyTop /\ IF fr.backed
                     THEN target'[Top] = backup[Top] /\ backup'[Top] = Absent
                     ELSE UNCHANGED <<target, backup>>
      <3>1. CASE fr.backed
        <4>1. target'[Top] = backup[Top] /\ \A q \in Pkgs : q # Top => target'[q] = target[q]
          BY <1>2, <1>3, <1>6, <3>1, SetFacts
        <4>0. backup' = Set(backup, Top, Absent)
          BY <1>6, <3>1
        <4>2. backup'[Top] = Absent /\ \A q \in Pkgs : q # Top => backup'[q] = backup[q]
          BY <1>2, <1>3, <4>0, SetFacts
        <4> QED
          BY <1>4, <1>6, <3>1, <4>1, <4>2 DEF OnlyTop
      <3>2. CASE ~fr.backed
        BY <1>4, <1>6, <3>2 DEF OnlyTop
      <3> QED
        BY <3>1, <3>2
    <2>2. CASE CanRename(staging, target, Top)
      <3>1. Hurt(fr) \in Frames /\ fr' = [Hurt(fr) EXCEPT !.backed = FALSE]
            /\ ~fr.hurt /\ io' = io + 1
        BY <1>2, <1>6, <2>2, FrameFacts DEF IoFails
      <3>2. /\ fr'.hurt /\ ~fr'.backed /\ fr'.staged = fr.staged /\ SameFrame
            /\ fr'.resave = fr.resave
        BY <1>2, <3>1 DEF Frames, Hurt, SameFrame
      <3> QED
        BY <1>1, <1>4, <1>6, <2>1, <3>1, <3>2
    <2>3. CASE ~CanRename(staging, target, Top)
      <3>1. io' = io /\ fr' = [fr EXCEPT !.backed = FALSE]
        BY <1>6, <2>3
      <3>2. /\ fr'.hurt = fr.hurt /\ ~fr'.backed /\ fr'.staged = fr.staged /\ SameFrame
            /\ fr'.resave = fr.resave
        BY <1>2, <3>1 DEF Frames, SameFrame
      <3>3. staging[Top] = Absent \/ target[Top] # Absent
        BY <2>3 DEF CanRename
      <3> QED
        BY <1>1, <1>4, <1>6, <2>1, <3>1, <3>2, <3>3
    <2> QED
      BY <2>2, <2>3
  <1> QED
    BY <1>5, <1>6 DEF Swap, Goto

LEMMA WriteTargetEffect ==
    ASSUME TypeInv, WriteTarget
    PROVE  /\ CallStep /\ OnlyTop /\ SameFrame /\ pc = "write"
           /\ UNCHANGED <<backup, staging, parts, marker, table, db>>
           /\ fr'.staged = fr.staged /\ fr'.backed = fr.backed /\ fr'.resave = fr.resave
           /\ \/ /\ Top \notin Big /\ target'[Top] = fr.buf /\ pc' = "clean"
                 /\ fr'.hurt = fr.hurt /\ io' = io
              \/ /\ Top \in Big /\ target'[Top] = Absent /\ pc' = "parts"
                 /\ fr'.hurt = fr.hurt /\ io' = io
              \/ /\ Top \notin Big /\ target'[Top] = Absent /\ pc' = "parts"
                 /\ ~fr.hurt /\ fr'.hurt /\ io' = io + 1
  <1>0. pc = "write" /\ pc' \in {"clean", "parts"}
    BY DEF WriteTarget, Goto
  <1>1. CallStep
    BY <1>0, TopType
       DEF WriteTarget, CallStep, Calls, Loaded, Checked, Placing, Metadata, control, ram, Top
  <1>2. /\ target \in Files /\ fr \in Frames /\ Top \in Pkgs /\ fr.buf \in Contents
        /\ Absent \in Contents
    BY <1>1, FrameFacts, ConstantTypes DEF CallStep, TypeInv, FilesTyped, ControlTyped
  <1>3. UNCHANGED <<backup, staging, parts, marker, table, db>>
    BY DEF WriteTarget, ram
  <1>4. CASE /\ Top \notin Big /\ target' = Set(target, Top, fr.buf) /\ pc' = "clean"
             /\ UNCHANGED <<io, fr>>
    <2>1. OnlyTop /\ target'[Top] = fr.buf
      BY <1>2, <1>3, <1>4, SetFacts DEF OnlyTop
    <2> QED
      BY <1>0, <1>1, <1>3, <1>4, <2>1 DEF SameFrame
  <1>5. CASE /\ WriteFails(Top) /\ target' = Set(target, Top, Absent)
             /\ fr' = (IF Top \in Big THEN fr ELSE Hurt(fr)) /\ pc' = "parts"
    <2>1. OnlyTop /\ target'[Top] = Absent
      BY <1>2, <1>3, <1>5, SetFacts DEF OnlyTop
    <2>2. /\ SameFrame /\ fr'.staged = fr.staged /\ fr'.backed = fr.backed
          /\ fr'.resave = fr.resave /\ fr'.hurt = IF Top \in Big THEN fr.hurt ELSE TRUE
      BY <1>2, <1>5 DEF Frames, SameFrame, Hurt
    <2> QED
      BY <1>0, <1>1, <1>3, <1>5, <2>1, <2>2 DEF WriteFails, IoFails
  <1> QED
    BY <1>4, <1>5 DEF WriteTarget, Goto

LEMMA WritePartsEffect ==
    ASSUME TypeInv, WriteParts
    PROVE  /\ CallStep /\ OnlyTop /\ pc = "parts"
           /\ UNCHANGED <<target, backup, staging, marker, table, db>>
           /\ \/ parts'[Top] = fr.buf /\ pc' = "clean" /\ UNCHANGED <<fr, io>>
              \/ /\ parts'[Top] \in {parts[Top], Absent, Torn}
                 /\ pc' = "return" /\ ~fr.hurt /\ io' = io + 1
  <1>0. pc = "parts" /\ pc' \in {"clean", "return"}
    BY DEF WriteParts, Goto
  <1>1. CallStep
    BY <1>0, TopType
       DEF WriteParts, CallStep, Calls, Loaded, Checked, Placing, Metadata, control, ram, Top
  <1>2. parts \in Files /\ Top \in Pkgs /\ fr.buf \in Contents
    BY <1>1, FrameFacts DEF CallStep, TypeInv, FilesTyped, ControlTyped
  <1>3. UNCHANGED <<target, backup, staging, marker, table, db>>
    BY DEF WriteParts, ram
  <1>4. CASE parts' = Set(parts, Top, fr.buf) /\ pc' = "clean" /\ UNCHANGED <<io, fr>>
    <2>1. OnlyTop /\ parts'[Top] = fr.buf
      BY <1>2, <1>3, <1>4, SetFacts DEF OnlyTop
    <2> QED
      BY <1>0, <1>1, <1>3, <1>4, <2>1
  <1>5. CASE IoFails /\ parts' \in Leftover(parts, Top) /\ pc' = "return"
    <2>1. OnlyTop /\ parts'[Top] \in {parts[Top], Absent, Torn}
      BY <1>2, <1>3, <1>5, LeftoverFacts DEF OnlyTop
    <2> QED
      BY <1>0, <1>1, <1>3, <1>5, <2>1 DEF IoFails
  <1> QED
    BY <1>4, <1>5 DEF WriteParts, Goto

LEMMA CleanStagingEffect ==
    ASSUME TypeInv, CleanStaging
    PROVE  /\ CallStep /\ OnlyTop /\ SameFrame /\ pc = "clean" /\ pc' = "marker"
           /\ UNCHANGED <<target, backup, parts, marker, table, db>>
           /\ fr'.atomic = fr.atomic /\ fr'.backed = fr.backed /\ fr'.resave = fr.resave
           /\ \/ fr'.hurt = fr.hurt /\ io' = io
              \/ ~fr.hurt /\ fr'.hurt /\ io' = io + 1
  <1>0. pc = "clean" /\ pc' = "marker"
    BY DEF CleanStaging, Goto
  <1>1. CallStep
    BY <1>0, TopType
       DEF CleanStaging, CallStep, Calls, Loaded, Checked, Placing, Metadata, control, ram, Top
  <1>2. staging \in Files /\ fr \in Frames /\ Top \in Pkgs /\ Absent \in Contents
    BY <1>1, ConstantTypes DEF CallStep, TypeInv, FilesTyped, ControlTyped
  <1>3. UNCHANGED <<target, backup, parts, marker, table, db>>
    BY DEF CleanStaging, ram
  <1>4. CASE /\ staging' = (IF fr.staged THEN Set(staging, Top, Absent) ELSE staging)
             /\ UNCHANGED <<io, fr>>
    <2>1. OnlyTop
      BY <1>2, <1>3, <1>4, SetFacts DEF OnlyTop
    <2> QED
      BY <1>0, <1>1, <1>3, <1>4, <2>1 DEF SameFrame
  <1>5. CASE IoFails /\ fr' = Hurt(fr) /\ UNCHANGED staging
    <2>1. /\ SameFrame /\ fr'.atomic = fr.atomic /\ fr'.backed = fr.backed /\ fr'.hurt
          /\ fr'.resave = fr.resave
      BY <1>2, <1>5 DEF Frames, SameFrame, Hurt
    <2> QED
      BY <1>0, <1>1, <1>3, <1>5, <2>1 DEF OnlyTop, IoFails
  <1> QED
    BY <1>4, <1>5 DEF CleanStaging

LEMMA WriteMarkerEffect ==
    ASSUME TypeInv, WriteMarker
    PROVE  /\ CallStep /\ OnlyTop /\ SameFrame /\ pc = "marker"
           /\ UNCHANGED <<target, backup, staging, parts, table, db>>
           /\ fr'.atomic = fr.atomic /\ fr'.backed = fr.backed /\ fr'.resave = fr.resave
           /\ fr'.old = VersionIn(table, Top)
           /\ \/ /\ pc' = "save" /\ marker'[Top] = avail[Top]
                 /\ fr'.was = IF Installed(Top) THEN marker[Top] ELSE Absent
                 /\ fr'.hurt = fr.hurt /\ io' = io
              \/ /\ pc' = "save" /\ marker'[Top] = avail[Top] /\ fr'.was = Absent
                 /\ ~fr.hurt /\ fr'.hurt /\ io' = io + 1
              \/ /\ pc' = "undo" /\ ~fr.hurt /\ fr'.hurt /\ io' = io + 1
                 /\ fr'.was = IF Installed(Top) THEN marker[Top] ELSE Absent
  <1>0. pc = "marker" /\ pc' \in {"save", "undo"}
    BY DEF WriteMarker, Goto
  <1>1. CallStep
    BY <1>0, TopType
       DEF WriteMarker, CallStep, Calls, Loaded, Checked, Placing, Metadata, control, ram, Top
  <1>2. marker \in Files /\ fr \in Frames /\ Top \in Pkgs /\ avail[Top] \in Contents
    BY <1>1, ConstantTypes DEF CallStep, TypeInv, FilesTyped, ControlTyped
  <1>3. UNCHANGED <<target, backup, staging, parts, table, db>>
    BY DEF WriteMarker, ram
  <1> DEFINE Snap(b) == Snapshot(fr, Top, b)
  <1>4. \A b \in BOOLEAN :
            /\ Snap(b).existing = fr.existing /\ Snap(b).buf = fr.buf
            /\ Snap(b).atomic = fr.atomic /\ Snap(b).backed = fr.backed
            /\ Snap(b).hurt = fr.hurt /\ Snap(b).resave = fr.resave
            /\ Snap(b).old = VersionIn(table, Top)
            /\ Snap(b).was = IF Installed(Top) /\ b THEN marker[Top] ELSE Absent
            /\ DOMAIN Snap(b) = DOMAIN NoFrame
    BY <1>2 DEF Snapshot, Frames, NoFrame
  <1> HIDE DEF Snap
  <1>5. CASE /\ marker' = Set(marker, Top, avail[Top]) /\ pc' = "save"
             /\ \/ fr' = Snap(TRUE) /\ UNCHANGED io
                \/ IoFails /\ fr' = Hurt(Snap(FALSE))
    <2>1. OnlyTop /\ marker'[Top] = avail[Top]
      BY <1>2, <1>3, <1>5, SetFacts DEF OnlyTop
    <2>2. CASE fr' = Snap(TRUE) /\ UNCHANGED io
      BY <1>0, <1>1, <1>3, <1>4, <1>5, <2>1, <2>2 DEF SameFrame
    <2>3. CASE IoFails /\ fr' = Hurt(Snap(FALSE))
      <3>1. /\ SameFrame /\ fr'.atomic = fr.atomic /\ fr'.backed = fr.backed /\ fr'.hurt
            /\ fr'.resave = fr.resave /\ fr'.old = VersionIn(table, Top) /\ fr'.was = Absent
        BY <1>4, <2>3 DEF Hurt, SameFrame, NoFrame
      <3> QED
        BY <1>0, <1>1, <1>3, <1>5, <2>1, <2>3, <3>1 DEF IoFails
    <2> QED
      BY <1>5, <2>2, <2>3
  <1>6. CASE /\ IoFails /\ marker' \in Leftover(marker, Top)
             /\ fr' = Hurt(Code(Snap(TRUE), "again")) /\ pc' = "undo"
    <2>1. OnlyTop
      BY <1>2, <1>3, <1>6, LeftoverFacts DEF OnlyTop
    <2>2. /\ SameFrame /\ fr'.atomic = fr.atomic /\ fr'.backed = fr.backed /\ fr'.hurt
          /\ fr'.resave = fr.resave /\ fr'.old = VersionIn(table, Top)
          /\ fr'.was = IF Installed(Top) THEN marker[Top] ELSE Absent
      BY <1>4, <1>6 DEF Hurt, Code, SameFrame, NoFrame
    <2> QED
      BY <1>0, <1>1, <1>3, <1>6, <2>1, <2>2 DEF IoFails
  <1> QED
    BY <1>5, <1>6 DEF WriteMarker, Goto, Snap

LEMMA SaveEffect ==
    ASSUME TypeInv, Save
    PROVE  /\ CallStep /\ SameFrame /\ pc = "save"
           /\ UNCHANGED <<target, backup, staging, parts, marker>>
           /\ fr'.atomic = fr.atomic /\ fr'.backed = fr.backed /\ fr'.was = fr.was
           /\ fr'.old = fr.old /\ fr.old = VersionIn(table, Top)
           /\ \/ /\ Full /\ ~Installed(Top) /\ pc' = "undo" /\ UNCHANGED <<table, db, io>>
                 /\ fr'.resave = fr.resave
              \/ /\ ~Full /\ table' = Put(table, Top, avail[Top]) /\ db' = Serialized(table')
                 /\ pc' = "commit" /\ io' = io
              \/ /\ ~Full /\ table' = Put(table, Top, avail[Top])
                 /\ db' \in TornDb(Serialized(table'))
                 /\ pc' = "undo" /\ fr'.resave /\ ~fr.hurt /\ io' = io + 1
           /\ ~Full => /\ Put(table, Top, avail[Top]) \in Tables
                       /\ \A q : VersionIn(Put(table, Top, avail[Top]), q)
                                 = IF q = Top THEN avail[Top] ELSE VersionIn(table, q)
  <1>0. pc = "save" /\ pc' \in {"undo", "commit"}
    BY DEF Save, Goto
  <1>1. CallStep
    BY <1>0, TopType
       DEF Save, CallStep, Calls, Loaded, Checked, Placing, Metadata, control, Top
  <1>2. fr \in Frames /\ table \in Tables
    BY DEF TypeInv, FilesTyped, ControlTyped
  <1>3. UNCHANGED <<target, backup, staging, parts, marker>>
    BY DEF Save
  <1>4. fr.old = VersionIn(table, Top)
    BY <1>0 DEF TypeInv, Restorable
  <1>5. ~Full => /\ Put(table, Top, avail[Top]) \in Tables
                 /\ \A q : VersionIn(Put(table, Top, avail[Top]), q)
                           = IF q = Top THEN avail[Top] ELSE VersionIn(table, q)
    <2> SUFFICES ASSUME ~Full
                 PROVE  /\ Put(table, Top, avail[Top]) \in Tables
                        /\ \A q : VersionIn(Put(table, Top, avail[Top]), q)
                                  = IF q = Top THEN avail[Top] ELSE VersionIn(table, q)
      OBVIOUS
    <2>1. VersionIn(table, Top) # 0 \/ Len(table) < MaxInstalled
      BY <1>2, TableShape, ConstantTypes DEF Full, Installed
    <2>2. Top \in Pkgs /\ avail[Top] \in Versions
      BY <1>1 DEF CallStep
    <2> QED
      BY <1>2, <2>1, <2>2, PutFacts
  <1>6. CASE /\ Full /\ fr' = Hurt(Code(fr, "refused")) /\ pc' = "undo"
             /\ UNCHANGED <<table, db, io>>
    <2>1. /\ SameFrame /\ fr'.atomic = fr.atomic /\ fr'.backed = fr.backed /\ fr'.was = fr.was
          /\ fr'.old = fr.old /\ fr'.resave = fr.resave
      BY <1>2, <1>6 DEF Hurt, Code, Frames, SameFrame
    <2> QED
      BY <1>0, <1>1, <1>3, <1>4, <1>5, <1>6, <2>1 DEF Full
  <1>7. CASE /\ ~Full /\ table' = Put(table, Top, avail[Top]) /\ db' = Serialized(table')
             /\ pc' = "commit" /\ UNCHANGED <<fr, io>>
    BY <1>0, <1>1, <1>3, <1>4, <1>5, <1>7 DEF SameFrame
  <1>8. CASE /\ ~Full /\ IoFails /\ table' = Put(table, Top, avail[Top])
             /\ db' \in TornDb(Serialized(table'))
             /\ fr' = [Hurt(Code(fr, "again")) EXCEPT !.resave = TRUE] /\ pc' = "undo"
    <2>1. /\ SameFrame /\ fr'.atomic = fr.atomic /\ fr'.backed = fr.backed /\ fr'.was = fr.was
          /\ fr'.old = fr.old /\ fr'.resave
      BY <1>2, <1>8 DEF Hurt, Code, Frames, SameFrame
    <2> QED
      BY <1>0, <1>1, <1>3, <1>4, <1>5, <1>8, <2>1 DEF IoFails
  <1> QED
    BY <1>6, <1>7, <1>8 DEF Save, Goto

LEMMA UndoEffect ==
    ASSUME TypeInv, Undo
    PROVE  /\ CallStep /\ OnlyTop /\ pc = "undo" /\ pc' = "return"
           /\ UNCHANGED <<staging, parts, io>>
           /\ marker'[Top] = fr.was
           /\ db' = IF fr.resave THEN Serialized(table') ELSE db
           /\ table' = RestoredTable /\ (~fr.resave => table' = table)
           /\ \A q : VersionIn(table', q) = IF q = Top THEN fr.old ELSE VersionIn(table, q)
           /\ fr.atomic =>
                 target'[Top] = IF fr.backed THEN backup[Top] ELSE Absent
           /\ target'[Top] \in {target[Top], backup[Top], Absent}
           /\ backup'[Top] \in {backup[Top], Absent}
  <1>0. pc = "undo" /\ pc' = "return"
    BY DEF Undo, Goto
  <1>1. CallStep
    BY <1>0, TopType
       DEF Undo, CallStep, Calls, Loaded, Checked, Placing, Metadata, control, bounds, Top
  <1>2. /\ target \in Files /\ backup \in Files /\ marker \in Files /\ Top \in Pkgs
        /\ Absent \in Contents /\ fr.was \in Contents /\ fr.old \in 0..MaxVersion
        /\ table \in Tables /\ fr.atomic \in BOOLEAN /\ fr.backed \in BOOLEAN
    BY <1>1, FrameFacts, ConstantTypes DEF CallStep, TypeInv, FilesTyped, ControlTyped
  <1>3. target[Top] \in Contents /\ backup[Top] \in Contents
    BY <1>2 DEF Files
  <1>4. /\ UNCHANGED <<staging, parts, io>> /\ table' = RestoredTable
        /\ marker' = Set(marker, Top, fr.was)
        /\ db' = IF fr.resave THEN Serialized(table') ELSE db
        /\ target' = RestoredTarget
        /\ backup' = IF fr.backed THEN Set(backup, Top, Absent) ELSE backup
    BY DEF Undo, bounds, RestoredMarker
  <1>5. marker'[Top] = fr.was /\ \A q \in Pkgs : q # Top => marker'[q] = marker[q]
    BY <1>2, <1>4, SetFacts
  <1>6. /\ backup'[Top] \in {backup[Top], Absent}
        /\ \A q \in Pkgs : q # Top => backup'[q] = backup[q]
    BY <1>2, <1>4, SetFacts
  <1>7. /\ fr.atomic => target'[Top] = IF fr.backed THEN backup[Top] ELSE Absent
        /\ target'[Top] \in {target[Top], backup[Top], Absent}
        /\ \A q \in Pkgs : q # Top => target'[q] = target[q]
    <2> DEFINE kept == IF fr.atomic THEN Set(target, Top, Absent) ELSE target
    <2>1. /\ kept \in Files /\ kept[Top] = IF fr.atomic THEN Absent ELSE target[Top]
          /\ \A q \in Pkgs : q # Top => kept[q] = target[q]
      BY <1>2, SetFacts
    <2>2. target' = IF fr.backed /\ CanRename(backup, kept, Top)
                    THEN Set(kept, Top, backup[Top]) ELSE kept
      BY <1>4 DEF RestoredTarget
    <2> HIDE DEF kept
    <2>3. CASE fr.backed /\ CanRename(backup, kept, Top)
      <3>1. target' = Set(kept, Top, backup[Top])
        BY <2>2, <2>3
      <3>2. target'[Top] = backup[Top] /\ \A q \in Pkgs : q # Top => target'[q] = kept[q]
        <4>1. kept \in Files /\ Top \in Pkgs /\ backup[Top] \in Contents
          BY <1>2, <1>3, <2>1
        <4> QED
          BY <3>1, <4>1, SetFacts
      <3> QED
        BY <2>1, <2>3, <3>2
    <2>4. CASE ~(fr.backed /\ CanRename(backup, kept, Top))
      BY <2>1, <2>2, <2>4 DEF CanRename
    <2> QED
      BY <2>3, <2>4
  <1>8. OnlyTop
    BY <1>4, <1>5, <1>6, <1>7 DEF OnlyTop
  <1>9. \A q : VersionIn(table', q) = IF q = Top THEN fr.old ELSE VersionIn(table, q)
    <2>1. CASE fr.old = 0
      BY <1>2, <1>4, <2>1, DropFacts DEF RestoredTable
    <2>2. CASE fr.old # 0
      <3>1. VersionIn(table, Top) # 0 /\ fr.old \in Versions
        BY <1>0, <1>2, <2>2, ConstantTypes DEF TypeInv, Restorable, Installed
      <3> QED
        BY <1>2, <1>4, <2>2, <3>1, PutFacts DEF RestoredTable
    <2> QED
      BY <2>1, <2>2
  <1>10. ASSUME ~fr.resave
         PROVE  table' = table
    <2>1. fr.old = VersionIn(table, Top)
      BY <1>0, <1>10 DEF TypeInv, Restorable
    <2>2. CASE fr.old = 0
      BY <1>2, <1>4, <2>1, <2>2, DropFacts DEF RestoredTable
    <2>3. CASE fr.old # 0
      BY <1>2, <1>4, <2>1, <2>3, PutSame DEF RestoredTable
    <2> QED
      BY <2>2, <2>3
  <1> QED
    BY <1>0, <1>1, <1>4, <1>5, <1>6, <1>7, <1>8, <1>9, <1>10

LEMMA CommitEffect ==
    ASSUME TypeInv, Commit
    PROVE  /\ CallStep /\ OnlyTop /\ pc = "commit" /\ pc' = "return"
           /\ UNCHANGED <<target, staging, parts, marker, table, db>>
           /\ backup'[Top] \in {backup[Top], Absent}
           /\ io' \in {io, io + 1}
  <1>0. pc = "commit" /\ pc' = "return"
    BY DEF Commit, Goto
  <1>1. CallStep
    BY <1>0, TopType
       DEF Commit, CallStep, Calls, Loaded, Checked, Placing, Metadata, control, ram, Top
  <1>2. backup \in Files /\ Top \in Pkgs /\ Absent \in Contents
    BY <1>1, ConstantTypes DEF CallStep, TypeInv, FilesTyped
  <1>3. UNCHANGED <<target, staging, parts, marker, table, db>> /\ io' \in {io, io + 1}
    BY DEF Commit, ram, IoFails
  <1>4. backup' \in {backup, Set(backup, Top, Absent)}
    BY DEF Commit
  <1>5. backup'[Top] \in {backup[Top], Absent}
        /\ \A q \in Pkgs : q # Top => backup'[q] = backup[q]
    BY <1>2, <1>4, SetFacts
  <1> QED
    BY <1>0, <1>1, <1>3, <1>5 DEF OnlyTop

\* The steps outside capypkg_install leave payloads, markers and db.idx alone.
CallerStep ==
    Ask \/ Refresh \/ Forced \/ Poll \/ Index \/ NextPkg \/ Publish \/ Finish
      \/ Resolve \/ Return \/ UNCHANGED vars
LEMMA CallerEffect ==
    ASSUME CallerStep
    PROVE  UNCHANGED <<target, backup, staging, parts, marker, table, db, removed, cuts>>
  BY DEF CallerStep, Ask, Refresh, Forced, Poll, Index, NextPkg, Publish, Finish, Resolve, Return,
         vars, files, ram, bounds

\* Where those steps lead.
LEMMA CallerLabels ==
    ASSUME CallerStep, ~UNCHANGED vars
    PROVE  pc' \in {"next", "index", "idle", "finish", "resolve", "fetch", "return"}
           /\ pc \in {"idle", "index", "next", "finish", "resolve", "return"}
  BY DEF CallerStep, Ask, Refresh, Forced, Poll, Index, NextPkg, Publish, Finish, Resolve, Return,
         Goto, Command

-----------------------------------------------------------------------------
(* Unverified bytes *)

\* What a cut leaves of a file.
LEMMA CutFile ==
    ASSUME NEW f \in Files, NEW label, pc = label => Top \in Pkgs,
           NEW g \in Interrupted(f, label), NEW p \in Pkgs
    PROVE  /\ g[p] \in {f[p], Absent, Torn}
           /\ ~(pc = label /\ p = Top) => g[p] = f[p]
  <1>1. CASE pc = label
    BY <1>1, LeftoverFacts DEF Interrupted
  <1>2. CASE pc # label
    BY <1>2 DEF Interrupted
  <1> QED
    BY <1>1, <1>2

LEMMA BufferedNext ==
    ASSUME TypeInv, Buffered, [Next]_vars
    PROVE  Buffered'
  <1> USE DEF Buffered, Checked, Placing, Metadata
  <1>1. CASE CallerStep
    <2>1. CASE UNCHANGED vars
      BY <2>1 DEF vars, files, ram, control, Top
    <2>2. CASE ~UNCHANGED vars
      BY <1>1, <2>2, CallerLabels
    <2> QED
      BY <2>1, <2>2
  <1>2. CASE RemovePkg \/ Forget \/ PowerCut \/ Boot
    BY <1>2 DEF RemovePkg, Forget, PowerCut, Boot, Goto
  <1>3. CASE Fetch
    BY <1>3, FetchEffect DEF CallStep
  <1>4. CASE Stage
    BY <1>4, StageEffect DEF CallStep, SameFrame
  <1>5. CASE Verify
    BY <1>5, VerifyEffect DEF CallStep, SameFrame
  <1>6. CASE DropBackup
    BY <1>6, DropBackupEffect DEF CallStep, SameFrame
  <1>7. CASE Keep
    BY <1>7, KeepEffect DEF CallStep, SameFrame
  <1>8. CASE Swap
    BY <1>8, SwapEffect DEF CallStep, SameFrame
  <1>9. CASE WriteTarget
    BY <1>9, WriteTargetEffect DEF CallStep, SameFrame
  <1>10. CASE WriteParts
    BY <1>10, WritePartsEffect DEF CallStep
  <1>11. CASE CleanStaging
    BY <1>11, CleanStagingEffect DEF CallStep, SameFrame
  <1>12. CASE WriteMarker
    BY <1>12, WriteMarkerEffect DEF CallStep, SameFrame
  <1>13. CASE Save
    BY <1>13, SaveEffect DEF CallStep, SameFrame
  <1>14. CASE Undo \/ Commit
    BY <1>14, UndoEffect, CommitEffect
  <1> QED
    BY <1>1, <1>2, <1>3, <1>4, <1>5, <1>6, <1>7, <1>8, <1>9, <1>10, <1>11, <1>12, <1>13, <1>14
       DEF Next, Step, CallerStep

\* Nothing but verified bytes and leftovers of writes is put in place.
LEMMA UnverifiedNext ==
    ASSUME TypeInv, Buffered, NoUnverified, [Next]_vars
    PROVE  NoUnverified'
  <1>1. /\ target \in Files /\ backup \in Files /\ parts \in Files
        /\ \A q \in Pkgs : target[q] # Bad /\ parts[q] # Bad /\ backup[q] # Bad
    BY DEF TypeInv, FilesTyped, NoUnverified
  <1>2. Absent # Bad /\ Torn # Bad /\ Bad \notin Versions
    BY ConstantTypes
  <1>3. SUFFICES ASSUME NEW p \in Pkgs
                 PROVE  target'[p] # Bad /\ parts'[p] # Bad /\ backup'[p] # Bad
    BY DEF NoUnverified
  <1>4. CASE CallerStep
    BY <1>1, <1>4, CallerEffect
  <1>5. CASE p # Top /\ OnlyTop
    BY <1>1, <1>5 DEF OnlyTop
  <1>6. CASE Fetch \/ Verify \/ Save
    BY <1>1, <1>6, FetchEffect, VerifyEffect, SaveEffect
  <1>7. CASE Stage \/ CleanStaging
    BY <1>1, <1>7, StageEffect, CleanStagingEffect
  <1>8. CASE WriteMarker
    BY <1>1, <1>8, WriteMarkerEffect
  <1>9. CASE DropBackup
    BY <1>1, <1>2, <1>5, <1>9, DropBackupEffect
  <1>10. CASE Keep
    BY <1>1, <1>2, <1>5, <1>10, KeepEffect
  <1>11. CASE Swap
    <2>1. staging[Top] \in Versions
      BY <1>11, SwapEffect DEF Buffered, Checked, Placing, CallStep
    <2> QED
      BY <1>1, <1>2, <1>5, <1>11, <2>1, SwapEffect
  <1>12. CASE WriteTarget
    <2>1. fr.buf \in Versions
      BY <1>12, WriteTargetEffect DEF Buffered, Checked, Placing, CallStep
    <2> QED
      BY <1>1, <1>2, <1>5, <1>12, <2>1, WriteTargetEffect
  <1>13. CASE WriteParts
    <2>1. fr.buf \in Versions
      BY <1>13, WritePartsEffect DEF Buffered, Checked, CallStep
    <2> QED
      BY <1>1, <1>2, <1>5, <1>13, <2>1, WritePartsEffect
  <1>14. CASE Undo
    BY <1>1, <1>2, <1>5, <1>14, UndoEffect
  <1>15. CASE Commit
    BY <1>1, <1>2, <1>5, <1>15, CommitEffect
  <1>16. CASE RemovePkg
    <2>1. backup' = backup /\ parts' = parts
          /\ (target' = target \/ \E q \in Pkgs : target' = Set(target, q, Absent))
      BY <1>16 DEF RemovePkg
    <2>2. Absent \in Contents
      BY ConstantTypes
    <2>3. target'[p] \in {target[p], Absent}
      BY <1>1, <2>1, <2>2, SetFacts
    <2> QED
      BY <1>1, <1>2, <2>1, <2>3
  <1>17. CASE Forget \/ Boot
    BY <1>1, <1>17 DEF Forget, Boot, files
  <1>18. CASE PowerCut
    <2>1. pc \in {"write", "parts"} => Top \in Pkgs
      BY TopType DEF Calls, Loaded, Checked, Placing
    <2>2. target'[p] \in {target[p], Absent, Torn} /\ parts'[p] \in {parts[p], Absent, Torn}
      BY <1>1, <1>18, <2>1, CutFile DEF PowerCut
    <2> QED
      BY <1>1, <1>2, <1>18, <2>2 DEF PowerCut
  <1> QED
    BY <1>4, <1>6, <1>7, <1>8, <1>9, <1>10, <1>11, <1>12, <1>13, <1>14, <1>15, <1>16, <1>17,
       <1>18 DEF Next, Step, CallerStep

LEMMA VerifiedInit == Init => Buffered /\ NoUnverified
  BY ConstantTypes DEF Init, Buffered, NoUnverified, Checked, Placing, Metadata

LEMMA VerifiedNext == VerifiedInv /\ [Next]_vars => VerifiedInv'
  BY TypeNext, BufferedNext, UnverifiedNext DEF VerifiedInv

\* For every catalogue and every number of failures and cuts: what was not
\* checked by capypkg_verify_payload never becomes a payload, a part or a backup.
THEOREM PayloadsVerified == Spec => []NoUnverified
  <1>1. Init => VerifiedInv
    BY TypeInit, VerifiedInit DEF VerifiedInv
  <1>2. VerifiedInv => NoUnverified
    BY DEF VerifiedInv
  <1> QED
    BY <1>1, <1>2, VerifiedNext, PTL DEF Spec

-----------------------------------------------------------------------------
(* The tables are closed under dependencies *)

LEMMA OrderedPrefix ==
    ASSUME NEW B, NEW t \in Tables, Ordered(t, B), NEW k \in 0..Len(t)
    PROVE  Ordered(SubSeq(t, 1, k), B)
  <1> DEFINE u == SubSeq(t, 1, k)
  <1>1. /\ DOMAIN u = 1..k /\ DOMAIN t = 1..Len(t) /\ Len(t) \in Nat
        /\ \A i \in DOMAIN u : i \in DOMAIN t /\ u[i] = t[i]
    <2>1. u \in Tables /\ Len(u) = k
      BY PrefixFacts
    <2> QED
      BY <2>1, PrefixFacts, TableShape
  <1> HIDE DEF u
  <1> SUFFICES ASSUME NEW i \in DOMAIN u, NEW d \in Owed(u[i].pkg, B)
               PROVE  \E j \in DOMAIN u : j < i /\ u[j].pkg = d
    BY DEF Ordered, u
  <1>2. PICK j \in DOMAIN t : j < i /\ t[j].pkg = d
    BY <1>1 DEF Ordered
  <1>3. j \in DOMAIN u
    BY <1>1, <1>2
  <1> QED
    BY <1>1, <1>2, <1>3

LEMMA OrderedSerialized ==
    ASSUME NEW B, NEW t \in Tables, Ordered(t, B)
    PROVE  Ordered(Serialized(t), B)
  <1>1. PICK k \in 0..Len(t) : Serialized(t) = SubSeq(t, 1, k)
    BY SerializedFacts
  <1>2. Ordered(SubSeq(t, 1, k), B)
    BY OrderedPrefix
  <1> QED
    BY <1>1, <1>2

\* An entry that is replaced keeps its place, and a new one goes behind the
\* entries of its dependencies.
LEMMA OrderedPut ==
    ASSUME NEW B, NEW t \in Tables, Ordered(t, B), NEW p \in Pkgs, NEW v \in Versions,
           VersionIn(t, p) # 0 \/ Len(t) < MaxInstalled,
           \A d \in Owed(p, B) : VersionIn(t, d) # 0
    PROVE  Ordered(Put(t, p, v), B)
  <1> DEFINE u == Put(t, p, v)
  <1>1. \A i \in DOMAIN t : i \in DOMAIN u /\ u[i].pkg = t[i].pkg
    BY PutFacts
  <1>2. CASE VersionIn(t, p) # 0
    <2>1. DOMAIN u = DOMAIN t
      BY <1>2, PutFacts
    <2> HIDE DEF u
    <2> QED
      BY <1>1, <2>1 DEF Ordered, u
  <1>3. CASE VersionIn(t, p) = 0
    <2>1. u \in Tables /\ Len(u) = Len(t) + 1 /\ u[Len(t) + 1].pkg = p
      BY <1>3, PutFacts
    <2>2. Len(t) \in Nat /\ DOMAIN t = 1..Len(t)
      BY TableShape
    <2>3. DOMAIN u = 1..(Len(t) + 1)
      BY <2>1, <2>2, TableShape
    <2> HIDE DEF u
    <2>4. SUFFICES ASSUME NEW i \in DOMAIN u, NEW d \in Owed(u[i].pkg, B)
                   PROVE  \E j \in DOMAIN u : j < i /\ u[j].pkg = d
      BY DEF Ordered, u
    <2>5. CASE i \in DOMAIN t
      <3>1. PICK j \in DOMAIN t : j < i /\ t[j].pkg = d
        BY <1>1, <2>5 DEF Ordered
      <3> QED
        BY <1>1, <3>1
    <2>6. CASE i = Len(t) + 1
      <3>1. PICK j \in DOMAIN t : t[j].pkg = d
        BY <2>1, <2>6, VersionInFacts
      <3> QED
        BY <1>1, <2>2, <2>6, <3>1
    <2> QED
      BY <2>2, <2>3, <2>5, <2>6
  <1> QED
    BY <1>2, <1>3

\* Taking back the entry that was added last.
LEMMA OrderedDrop ==
    ASSUME NEW B, NEW t \in Tables, Ordered(t, B), NEW p,
           \A i \in DOMAIN t : t[i].pkg = p => i = Len(t)
    PROVE  Ordered(Drop(t, p), B)
  <1>1. CASE VersionIn(t, p) = 0
    BY <1>1, DropFacts
  <1>2. CASE VersionIn(t, p) # 0
    <2>1. PICK k \in DOMAIN t : t[k].pkg = p
      BY <1>2, VersionInFacts
    <2>2. k = Len(t) /\ Len(t) \in Nat /\ DOMAIN t = 1..Len(t) /\ Len(t) - 1 \in 0..Len(t)
      BY <2>1, TableShape
    <2>3. (CHOOSE i \in DOMAIN t : t[i].pkg = p) = Len(t)
      BY <2>1, <2>2
    <2>4. Drop(t, p) = [i \in 1..(Len(t) - 1) |-> IF i < Len(t) THEN t[i] ELSE t[i + 1]]
      BY <1>2, <2>3 DEF Drop
    <2>5. Drop(t, p) = [i \in 1..(Len(t) - 1) |-> t[i]]
      BY <2>2, <2>4
    <2>6. SubSeq(t, 1, Len(t) - 1) = [i \in 1..(Len(t) - 1) |-> t[i]]
      BY <2>2, TableShape
    <2>7. Ordered(SubSeq(t, 1, Len(t) - 1), B)
      BY <2>2, OrderedPrefix
    <2> QED
      BY <2>5, <2>6, <2>7
  <1> QED
    BY <1>1, <1>2

\* Restoring the version of an entry.
LEMMA OrderedRestore ==
    ASSUME NEW B, NEW t \in Tables, Ordered(t, B), NEW p \in Pkgs, NEW v \in Versions,
           VersionIn(t, p) # 0
    PROVE  Ordered(Put(t, p, v), B)
  <1>1. \A i \in DOMAIN t : Put(t, p, v)[i].pkg = t[i].pkg
    BY PutFacts
  <1>2. DOMAIN Put(t, p, v) = DOMAIN t
    BY PutFacts
  <1> QED
    BY <1>1, <1>2 DEF Ordered

LEMMA ForgettingNext ==
    ASSUME TypeInv, Forgetting, [Next]_vars
    PROVE  Forgetting'
  <1>1. CASE RemovePkg
    <2>1. PICK p \in Pkgs : stack' = <<p>> /\ removed' = removed \union {p}
      BY <1>1 DEF RemovePkg
    <2>2. Top' = p
      BY <2>1 DEF Top, Last
    <2> QED
      BY <2>1, <2>2 DEF Forgetting
  <1>2. CASE UNCHANGED vars
    BY <1>2 DEF Forgetting, vars, control, Top
  <1>3. CASE CallerStep /\ ~UNCHANGED vars
    BY <1>3, CallerLabels DEF Forgetting
  <1>4. CASE Fetch \/ Stage \/ Verify \/ DropBackup \/ Keep \/ Swap \/ WriteTarget \/ WriteParts
             \/ CleanStaging \/ WriteMarker \/ Save \/ Undo \/ Commit
    BY <1>4
       DEF Forgetting, Fetch, Stage, Verify, DropBackup, Keep, Swap, WriteTarget, WriteParts,
           CleanStaging, WriteMarker, Save, Undo, Commit, Goto
  <1>5. CASE Forget \/ PowerCut \/ Boot
    BY <1>5 DEF Forgetting, Forget, PowerCut, Boot, Goto
  <1> QED
    BY <1>1, <1>2, <1>3, <1>4, <1>5 DEF Next, Step, CallerStep

\* The steps between the download and the snapshot leave both tables alone.
PayloadStep ==
    Fetch \/ Stage \/ Verify \/ DropBackup \/ Keep \/ Swap \/ WriteTarget \/ WriteParts
      \/ CleanStaging
LEMMA PayloadStepEffect ==
    ASSUME TypeInv, PayloadStep
    PROVE  /\ CallStep /\ UNCHANGED <<table, db, marker>>
           /\ pc \in {"fetch"} \union Loaded /\ pc' \notin {"undo", "save"}
           /\ io' \in {io, io + 1}
  <1>1. CASE Fetch \/ Stage \/ Verify
    BY <1>1, FetchEffect, StageEffect, VerifyEffect DEF Loaded
  <1>2. CASE DropBackup \/ Keep \/ Swap
    BY <1>2, DropBackupEffect, KeepEffect, SwapEffect DEF Loaded, Checked, Placing
  <1>3. CASE WriteTarget \/ WriteParts
    BY <1>3, WriteTargetEffect, WritePartsEffect DEF Loaded, Checked, Placing
  <1>4. CASE CleanStaging
    BY <1>4, CleanStagingEffect DEF Loaded, Checked, Metadata
  <1> QED
    BY <1>1, <1>2, <1>3, <1>4 DEF PayloadStep

LEMMA ClosedNext ==
    ASSUME TypeInv, Closed, Forgetting, [Next]_vars
    PROVE  Closed'
  <1> SUFFICES ASSUME removed' = {}
               PROVE  /\ Ordered(table', bared') /\ Ordered(db', bared')
                      /\ pc' \in {"fetch"} \union Loaded =>
                            \A d \in Owed(Top', bared') : VersionIn(table', d) # 0
                      /\ pc' = "undo" /\ fr'.old = 0 =>
                            \A i \in DOMAIN table' : table'[i].pkg = Top' => i = Len(table')
    BY DEF Closed, Installed
  <1>1. ~RemovePkg
    <2> SUFFICES ASSUME RemovePkg PROVE FALSE
      OBVIOUS
    <2>1. \E p \in Pkgs : removed' = removed \union {p}
      BY DEF RemovePkg
    <2> QED
      BY <2>1
  <1>2. removed = {}
    <2>1. UNCHANGED removed
      BY <1>1
         DEF Next, Step, Index, NextPkg, Resolve, Fetch, Stage, Verify, DropBackup, Keep, Swap,
             WriteTarget, WriteParts, CleanStaging, WriteMarker, Save, Undo, Commit, Return, Finish,
             Forget, Boot, Poll, Ask, Refresh, Forced, Publish, PowerCut, vars
    <2> QED
      BY <2>1
  <1>3. /\ Ordered(table, bared) /\ Ordered(db, bared) /\ table \in Tables /\ db \in Tables
        /\ pc \in {"fetch"} \union Loaded => \A d \in Owed(Top, bared) : VersionIn(table, d) # 0
        /\ pc = "undo" /\ fr.old = 0 =>
              \A i \in DOMAIN table : table[i].pkg = Top => i = Len(table)
        /\ pc # "forget"
    BY <1>2 DEF Closed, Installed, TypeInv, FilesTyped, Forgetting
  <1>4. CASE UNCHANGED vars
    <2>1. UNCHANGED <<table, db, pc, fr, stack, bared>> /\ Top' = Top
      BY <1>4 DEF vars, files, ram, control, Top
    <2> QED
      BY <1>3, <2>1
  <1>5. CASE Resolve
    <2>1. /\ pc = "resolve" /\ UNCHANGED <<table, db>>
          /\ bared' = IF \E d \in DepSet(Top) : Top = clip /\ ~Installed(d)
                      THEN bared \union {Top} ELSE bared
      BY <1>5, CallerEffect DEF Resolve, CallerStep
    <2>2. \A p : Owed(p, bared') \subseteq Owed(p, bared)
      BY <2>1 DEF Owed
    <2>3. Ordered(table', bared') /\ Ordered(db', bared')
      <3>1. ASSUME NEW t, Ordered(t, bared)
            PROVE  Ordered(t, bared')
        <4>1. \A i \in DOMAIN t : \A d \in Owed(t[i].pkg, bared') : d \in Owed(t[i].pkg, bared)
          BY <2>2
        <4> QED
          BY <3>1, <4>1 DEF Ordered
      <3> QED
        BY <1>3, <2>1, <3>1
    <2>4. CASE pc' = "fetch"
      <3>1. Missing = {} /\ UNCHANGED stack
        BY <1>5, <2>4 DEF Resolve, Goto
      <3>2. Top' = Top /\ Top \in Pkgs
        BY <2>1, <3>1, TopType DEF Top, Calls
      <3>3. \A d \in Owed(Top, bared') : VersionIn(table, d) # 0
        <4>1. Deps[Top] \in Seq(Pkgs)
          BY <3>2, ConstantTypes
        <4>2. \A i \in DOMAIN Deps[Top] : Top = clip \/ Installed(Deps[Top][i])
          BY <3>1 DEF Missing
        <4>3. \A d \in DepSet(Top) : Top = clip \/ Installed(d)
          BY <4>1, <4>2 DEF DepSet, Range
        <4> QED
          BY <2>1, <4>3 DEF Owed, Installed
      <3> QED
        BY <2>1, <2>3, <2>4, <3>2, <3>3
    <2>5. CASE pc' # "fetch"
      <3>1. pc' \in {"resolve", "return"}
        BY <1>5, <2>5 DEF Resolve, Goto
      <3> QED
        BY <2>3, <3>1 DEF Loaded, Checked, Placing, Metadata
    <2> QED
      BY <2>4, <2>5
  <1>15. SUFFICES ASSUME ~Resolve, ~UNCHANGED vars
                  PROVE  /\ Ordered(table', bared') /\ Ordered(db', bared')
                         /\ pc' \in {"fetch"} \union Loaded =>
                               \A d \in Owed(Top', bared') : VersionIn(table', d) # 0
                         /\ pc' = "undo" /\ fr'.old = 0 =>
                               \A i \in DOMAIN table' : table'[i].pkg = Top' => i = Len(table')
    BY <1>4, <1>5
  <1>16. bared' = bared
    BY <1>1, <1>15
       DEF Next, Step, Index, NextPkg, Fetch, Stage, Verify, DropBackup, Keep, Swap,
           WriteTarget, WriteParts, CleanStaging, WriteMarker, Save, Undo, Commit, Return, Finish,
           Forget, Boot, Poll, Ask, Refresh, Forced, Publish, PowerCut
  <1> USE <1>16
  <1>6. CASE CallerStep
    <2>1. pc' \in {"next", "index", "idle", "finish", "resolve"}
      BY <1>6, <1>15
         DEF CallerStep, Ask, Refresh, Forced, Poll, Index, NextPkg, Publish, Finish, Return,
             Goto, Command
    <2>2. UNCHANGED <<table, db>>
      BY <1>6, CallerEffect
    <2> QED
      BY <1>3, <2>1, <2>2 DEF Loaded, Checked, Placing, Metadata
  <1>7. CASE PayloadStep
    BY <1>3, <1>7, PayloadStepEffect DEF CallStep
  <1>8. CASE WriteMarker
    <2>1. /\ CallStep /\ pc = "marker" /\ UNCHANGED <<table, db>>
          /\ fr'.old = VersionIn(table, Top)
      BY <1>8, WriteMarkerEffect
    <2>2. Top' = Top /\ pc \in Loaded
      BY <2>1 DEF CallStep, Loaded, Checked, Metadata
    <2>3. fr'.old = 0 => \A i \in DOMAIN table : table[i].pkg # Top
      BY <1>3, <2>1, VersionInFacts
    <2> QED
      BY <1>3, <2>1, <2>2, <2>3
  <1>9. CASE Save
    <2>1. /\ CallStep /\ pc = "save" /\ fr'.old = VersionIn(table, Top) /\ Top' = Top
          /\ Top \in Pkgs /\ avail[Top] \in Versions
      BY <1>9, SaveEffect DEF CallStep
    <2>2. \A d \in Owed(Top, bared) : VersionIn(table, d) # 0
      BY <1>3, <2>1 DEF Loaded, Checked, Metadata
    <2>3. CASE UNCHANGED <<table, db>> /\ pc' = "undo" /\ ~Installed(Top)
      <3>1. \A i \in DOMAIN table : table[i].pkg # Top
        BY <1>3, <2>3, VersionInFacts DEF Installed
      <3> QED
        BY <1>3, <2>1, <2>2, <2>3, <3>1
    <2>4. CASE ~Full /\ table' = Put(table, Top, avail[Top])
      <3>1. VersionIn(table, Top) # 0 \/ Len(table) < MaxInstalled
        BY <1>3, <2>4, TableShape, ConstantTypes DEF Full, Installed
      <3>2. table' \in Tables
            /\ \A q : VersionIn(table', q) = IF q = Top THEN avail[Top] ELSE VersionIn(table, q)
        BY <1>9, <2>4, SaveEffect
      <3>3. Ordered(table', bared')
        BY <1>3, <2>1, <2>2, <2>4, <3>1, OrderedPut
      <3>4. \A d \in Owed(Top', bared') : VersionIn(table', d) # 0
        BY <2>1, <2>2, <3>2, ConstantTypes
      <3>5. Ordered(db', bared')
        <4>1. db' = Serialized(table') \/ db' \in TornDb(Serialized(table'))
          BY <1>9, <2>4, SaveEffect
        <4>2. CASE db' = Serialized(table')
          BY <3>2, <3>3, <4>2, OrderedSerialized
        <4>3. CASE db' \in TornDb(Serialized(table'))
          <5>1. db' = db \/ \E k \in 0..Len(table') : db' = SubSeq(table', 1, k)
            BY <1>3, <3>2, <4>3, TornFacts
          <5> QED
            BY <1>3, <3>2, <3>3, <5>1, OrderedPrefix
        <4> QED
          BY <4>1, <4>2, <4>3
      <3>6. ASSUME fr'.old = 0, NEW i \in DOMAIN table', table'[i].pkg = Top
            PROVE  i = Len(table')
        <4>1. Len(table') = Len(table) + 1 /\ table'[Len(table) + 1].pkg = Top
          <5>1. VersionIn(table, Top) = 0 /\ Top \in Pkgs /\ avail[Top] \in Versions
            BY <2>1, <3>6
          <5>2. /\ Len(Put(table, Top, avail[Top])) = Len(table) + 1
                /\ Put(table, Top, avail[Top])[Len(table) + 1].pkg = Top
            BY <1>3, <3>1, <5>1, PutFacts
          <5> QED
            BY <2>4, <5>2
        <4>2. Len(table') \in DOMAIN table'
          BY <1>3, <3>2, <4>1, TableShape
        <4> QED
          BY <3>2, <3>6, <4>1, <4>2, TableShape
      <3> QED
        BY <2>1, <3>3, <3>4, <3>5, <3>6
    <2> QED
      BY <1>9, <2>3, <2>4, SaveEffect
  <1>10. CASE Undo
    <2>1. /\ pc = "undo" /\ pc' = "return" /\ table' = RestoredTable
          /\ db' = (IF fr.resave THEN Serialized(table') ELSE db) /\ CallStep
      BY <1>10, UndoEffect
    <2>2. Top \in Pkgs /\ fr.old \in 0..MaxVersion
      BY <2>1, FrameFacts DEF CallStep, TypeInv, ControlTyped
    <2>3. table' \in Tables
      BY TypeNext DEF TypeInv, FilesTyped
    <2>4. Ordered(table', bared')
      <3>1. CASE fr.old = 0
        BY <1>3, <2>1, <3>1, OrderedDrop DEF RestoredTable
      <3>2. CASE fr.old # 0
        <4>1. VersionIn(table, Top) # 0 /\ fr.old \in Versions
          BY <2>1, <2>2, <3>2, ConstantTypes DEF TypeInv, Restorable, Installed
        <4> QED
          BY <1>3, <2>1, <2>2, <3>2, <4>1, OrderedRestore DEF RestoredTable
      <3> QED
        BY <3>1, <3>2
    <2>5. Ordered(db', bared')
      BY <1>3, <2>1, <2>3, <2>4, OrderedSerialized
    <2> QED
      BY <2>1, <2>4, <2>5 DEF Loaded, Checked, Placing, Metadata
  <1>11. CASE Commit
    <2>1. pc' = "return" /\ UNCHANGED <<table, db>>
      BY <1>11, CommitEffect
    <2> QED
      BY <1>3, <2>1 DEF Loaded, Checked, Placing, Metadata
  <1>12. CASE Forget
    BY <1>3, <1>12 DEF Forget
  <1>13. CASE PowerCut
    <2>1. pc' = "off" /\ table' = <<>>
      BY <1>13 DEF PowerCut, Goto
    <2>2. Ordered(<<>>, bared')
      BY DEF Ordered
    <2>3. Ordered(db', bared')
      <3>1. CASE db' = db
        BY <1>3, <3>1
      <3>2. CASE /\ pc = "save" /\ ~Full /\ CutTable \in Tables
                 /\ \E k \in 0..Len(CutTable) : db' = SubSeq(CutTable, 1, k)
        <4>1. Top \in Pkgs /\ avail[Top] \in Versions
          BY <3>2, TopType DEF Calls, Loaded, Checked, Metadata
        <4>2. VersionIn(table, Top) # 0 \/ Len(table) < MaxInstalled
          BY <1>3, <3>2, TableShape, ConstantTypes DEF Full, Installed
        <4>3. \A d \in Owed(Top, bared) : VersionIn(table, d) # 0
          BY <1>3, <3>2 DEF Loaded, Checked, Metadata
        <4>4. Ordered(CutTable, bared)
          BY <1>3, <3>2, <4>1, <4>2, <4>3, OrderedPut DEF CutTable
        <4> QED
          BY <3>2, <4>4, OrderedPrefix
      <3> QED
        BY <1>3, <1>13, <3>1, <3>2, CutDb
    <2> QED
      BY <2>1, <2>2, <2>3 DEF Loaded, Checked, Placing, Metadata
  <1>14. CASE Boot
    <2>1. pc' = "idle" /\ table' = db /\ db' = db
      BY <1>14 DEF Boot, Goto, files
    <2> QED
      BY <1>3, <2>1 DEF Loaded, Checked, Placing, Metadata
  <1> QED
    BY <1>1, <1>6, <1>15, <1>7, <1>8, <1>9, <1>10, <1>11, <1>12, <1>13, <1>14
       DEF Next, Step, CallerStep, PayloadStep

LEMMA ClosedInit == Init => Closed /\ Forgetting
  BY DEF Init, Closed, Forgetting, Ordered, Loaded, Checked, Placing, Metadata

LEMMA ClosedImplies == TypeInv /\ Closed => DepsClosed
  <1> SUFFICES ASSUME TypeInv, Closed, removed = {}, NEW t \in {table, db}, NEW i \in DOMAIN t,
                      NEW d \in DepSet(t[i].pkg), t[i].pkg \notin bared
               PROVE  VersionIn(t, d) # 0
    BY DEF DepsClosed
  <1>1. t \in Tables /\ Ordered(t, bared)
    BY DEF TypeInv, FilesTyped, Closed
  <1>2. \E j \in DOMAIN t : t[j].pkg = d
    BY <1>1 DEF Ordered, Owed
  <1> QED
    BY <1>1, <1>2, VersionInFacts

\* For every catalogue, dependency relation, quota and number of faults: the
\* installed table and db.idx keep their quota and list nothing twice, and as
\* long as nothing is removed every listed package has its dependencies listed,
\* but for installs by a cached entry that had lost them.
THEOREM TablesSound == Spec => []DbSound
  <1>1. Init => TypeInv /\ Closed /\ Forgetting
    BY TypeInit, ClosedInit
  <1>2. TypeInv /\ Closed /\ Forgetting /\ [Next]_vars => (TypeInv /\ Closed /\ Forgetting)'
    BY TypeNext, ClosedNext, ForgettingNext
  <1>3. TypeInv /\ Closed /\ Forgetting => DbSound
    BY TypeImplies, ClosedImplies DEF DbSound
  <1> QED
    BY <1>1, <1>2, <1>3, PTL DEF Spec

-----------------------------------------------------------------------------
(* The frame of a call *)

LEMMA PhasesNext ==
    ASSUME TypeInv, Buffered, Phases, [Next]_vars
    PROVE  Phases'
  <1> USE DEF Loaded, Checked, Placing, Metadata
  <1>0. io \in Nat /\ io + 1 # 0
    BY DEF TypeInv, ControlTyped
  <1>1. CASE UNCHANGED vars
    BY <1>1 DEF Phases, vars, ram, control, bounds, Top, Installed
  <1>2. CASE CallerStep /\ ~UNCHANGED vars
    BY <1>2, CallerLabels DEF Phases
  <1>3. CASE RemovePkg \/ Forget \/ PowerCut \/ Boot
    BY <1>3 DEF RemovePkg, Forget, PowerCut, Boot, Goto, Phases
  <1>4. CASE Fetch
    BY <1>4, FetchEffect DEF CallStep, Phases, Installed
  <1>5. CASE Stage
    <2>1. fr.existing = Installed(Top) /\ ~fr.resave /\ ~fr.backed /\ ~fr.staged
          /\ (io = 0 => ~fr.hurt)
      BY <1>5, StageEffect DEF Phases, Buffered
    <2> QED
      BY <1>0, <1>5, <2>1, StageEffect DEF CallStep, SameFrame, Phases, Installed
  <1>6. CASE Verify
    <2>1. fr.existing = Installed(Top) /\ ~fr.resave /\ ~fr.backed
          /\ (io = 0 => ~fr.hurt) /\ (~fr.staged /\ Top \notin Big => fr.hurt)
      BY <1>6, VerifyEffect DEF Phases
    <2> QED
      BY <1>6, <2>1, VerifyEffect DEF CallStep, SameFrame, Phases, Installed
  <1>7. CASE DropBackup
    <2>1. fr.existing = Installed(Top) /\ ~fr.resave /\ ~fr.backed /\ (io = 0 => ~fr.hurt)
      BY <1>7, DropBackupEffect DEF Phases
    <2> QED
      BY <1>0, <1>7, <2>1, DropBackupEffect DEF CallStep, SameFrame, Phases, Installed
  <1>8. CASE Keep
    <2>1. fr.existing = Installed(Top) /\ ~fr.resave /\ (io = 0 => ~fr.hurt)
      BY <1>8, KeepEffect DEF Phases
    <2> QED
      BY <1>0, <1>8, <2>1, KeepEffect DEF CallStep, SameFrame, Phases, Installed
  <1>9. CASE Swap
    <2>1. fr.existing = Installed(Top) /\ ~fr.resave /\ fr.staged /\ (io = 0 => ~fr.hurt)
      BY <1>9, SwapEffect DEF Phases, Buffered
    <2> QED
      BY <1>0, <1>9, <2>1, SwapEffect DEF CallStep, SameFrame, Phases, Installed
  <1>10. CASE WriteTarget
    <2>1. fr.existing = Installed(Top) /\ ~fr.resave /\ (io = 0 => ~fr.hurt)
      BY <1>10, WriteTargetEffect DEF Phases
    <2> QED
      BY <1>0, <1>10, <2>1, WriteTargetEffect DEF CallStep, SameFrame, Phases, Installed
  <1>11. CASE WriteParts
    <2>1. fr.existing = Installed(Top) /\ ~fr.resave /\ (io = 0 => ~fr.hurt)
      BY <1>11, WritePartsEffect DEF Phases
    <2> QED
      BY <1>0, <1>11, <2>1, WritePartsEffect DEF CallStep, Phases, Installed
  <1>12. CASE CleanStaging
    <2>1. fr.existing = Installed(Top) /\ ~fr.resave /\ (io = 0 => ~fr.hurt)
      BY <1>12, CleanStagingEffect DEF Phases
    <2> QED
      BY <1>0, <1>12, <2>1, CleanStagingEffect DEF CallStep, SameFrame, Phases, Installed
  <1>13. CASE WriteMarker
    <2>1. fr.existing = Installed(Top) /\ ~fr.resave /\ (io = 0 => ~fr.hurt)
      BY <1>13, WriteMarkerEffect DEF Phases
    <2> QED
      BY <1>0, <1>13, <2>1, WriteMarkerEffect DEF CallStep, SameFrame, Phases, Installed
  <1>14. CASE Save
    <2>1. fr.existing = Installed(Top) /\ ~fr.resave
      BY <1>14, SaveEffect DEF Phases
    <2>2. CASE pc' = "commit"
      BY <2>2 DEF Phases
    <2>3. CASE pc' = "undo"
      <3>1. /\ fr'.old = VersionIn(table, Top) /\ fr'.existing = fr.existing
            /\ (io' = 0 => ~fr'.resave /\ ~Installed(Top) /\ table' = table) /\ Top' = Top
        BY <1>0, <1>14, <2>1, <2>3, SaveEffect DEF CallStep, SameFrame
      <3> QED
        BY <2>1, <2>3, <3>1 DEF Phases, Installed
    <2> QED
      BY <1>14, <2>2, <2>3, SaveEffect
  <1>15. CASE Undo \/ Commit
    BY <1>15, UndoEffect, CommitEffect DEF Phases
  <1> QED
    BY <1>1, <1>2, <1>3, <1>4, <1>5, <1>6, <1>7, <1>8, <1>9, <1>10, <1>11, <1>12, <1>13, <1>14,
       <1>15 DEF Next, Step, CallerStep

-----------------------------------------------------------------------------
(* The database and the table *)

LEMMA CurrentNext ==
    ASSUME TypeInv, TypeInv', Forgetting, Phases, Current, [Next]_vars
    PROVE  Current'
  <1> DEFINE Lists == \A p \in Pkgs \ removed' :
                          VersionIn(db', p) # 0 => VersionIn(table', p) # 0
  <1>0. /\ table \in Tables /\ db \in Tables /\ table' \in Tables /\ cuts \in Nat
        /\ \A q : VersionIn(table, q) \in 0..MaxVersion
    BY VersionInFacts DEF TypeInv, FilesTyped, ControlTyped
  <1>1. CASE UNCHANGED vars
    BY <1>1 DEF Current, vars, files, ram, bounds, Installed
  <1>2. CASE CallerStep /\ ~UNCHANGED vars
    <2>1. UNCHANGED <<table, db, removed, cuts>>
      BY <1>2, CallerEffect
    <2>2. pc \notin {"off", "undo"} /\ pc' \notin {"off", "undo"}
      BY <1>2, CallerLabels
    <2> QED
      BY <2>1, <2>2 DEF Current, Installed
  <1>3. CASE PayloadStep
    <2>1. UNCHANGED <<table, db, removed, cuts>> /\ pc \notin {"off", "undo"} /\ pc' \notin {"off", "undo"}
      BY <1>3, PayloadStepEffect
         DEF CallStep, Calls, Loaded, Checked, Placing, Metadata, PayloadStep, Fetch, Stage, Verify,
             DropBackup, Keep, Swap, WriteTarget, WriteParts, CleanStaging
    <2> QED
      BY <2>1 DEF Current, Installed
  <1>4. CASE WriteMarker
    <2>1. UNCHANGED <<table, db, removed, cuts>> /\ pc = "marker" /\ pc' # "off"
      BY <1>4, WriteMarkerEffect DEF CallStep
    <2> QED
      BY <2>1 DEF Current, Installed
  <1>5. CASE Save
    <2>1. UNCHANGED <<removed, cuts>> /\ pc = "save" /\ pc' \in {"undo", "commit"}
          /\ Top \in Pkgs /\ avail[Top] \in Versions
      BY <1>5, SaveEffect DEF CallStep
    <2>2. CASE UNCHANGED <<table, db>>
      BY <2>1, <2>2 DEF Current, Installed
    <2>3. CASE ~Full /\ table' = Put(table, Top, avail[Top])
      <3>1. \A q : VersionIn(table', q) = IF q = Top THEN avail[Top] ELSE VersionIn(table, q)
        BY <1>5, <2>3, SaveEffect
      <3>2. avail[Top] # 0
        BY <2>1, ConstantTypes
      <3>3. \A q : VersionIn(table, q) # 0 => VersionIn(table', q) # 0
        BY <3>1, <3>2
      <3>4. CASE db' = Serialized(table')
        <4>1. \A q : VersionIn(db', q) \in {0, VersionIn(table', q)}
          BY <1>0, <3>4, SerializedFacts
        <4> QED
          BY <2>1, <3>4, <4>1 DEF Current, Installed
      <3>5. CASE db' \in TornDb(Serialized(table')) /\ pc' = "undo" /\ fr'.resave
        <4>1. db' = db \/ \A q : VersionIn(db', q) \in {0, VersionIn(table', q)}
          BY <1>0, <3>5, TornFacts
        <4>2. Lists
          BY <2>1, <3>3, <4>1 DEF Current, Installed
        <4> QED
          BY <2>1, <3>5, <4>2 DEF Current, Installed
      <3> QED
        BY <1>5, <2>3, <3>4, <3>5, SaveEffect
    <2> QED
      BY <1>5, <2>2, <2>3, SaveEffect
  <1>6. CASE Undo
    <2>1. /\ UNCHANGED <<removed, cuts>> /\ pc = "undo" /\ pc' = "return"
          /\ db' = (IF fr.resave THEN Serialized(table') ELSE db)
          /\ (~fr.resave => table' = table)
      BY <1>6, UndoEffect DEF CallStep
    <2>2. CASE fr.resave
      <3>1. \A q : VersionIn(db', q) \in {0, VersionIn(table', q)}
        BY <1>0, <2>1, <2>2, SerializedFacts
      <3> QED
        BY <2>1, <2>2, <3>1 DEF Current, Installed
    <2>3. CASE ~fr.resave
      BY <2>1, <2>3 DEF Current, Installed
    <2> QED
      BY <2>2, <2>3
  <1>7. CASE Commit
    <2>1. UNCHANGED <<table, db, removed, cuts>> /\ pc = "commit" /\ pc' = "return"
      BY <1>7, CommitEffect DEF CallStep
    <2> QED
      BY <2>1 DEF Current, Installed
  <1>8. CASE RemovePkg
    <2>1. UNCHANGED <<table, db, cuts>> /\ pc = "idle" /\ pc' = "forget"
          /\ \E p \in Pkgs : removed' = removed \union {p}
      BY <1>8 DEF RemovePkg, Command, Goto, ram
    <2> QED
      BY <2>1 DEF Current, Installed
  <1>9. CASE Forget
    <2>1. /\ pc = "forget" /\ pc' = "idle" /\ UNCHANGED <<removed, cuts>>
          /\ table' = Drop(table, Top)
          /\ db' = Serialized(table') \/ db' \in TornDb(Serialized(table'))
      BY <1>9 DEF Forget, Goto
    <2>2. Top \in removed /\ removed # {}
      BY <2>1 DEF Forgetting
    <2>3. \A q : VersionIn(table', q) = IF q = Top THEN 0 ELSE VersionIn(table, q)
      BY <1>0, <2>1, DropFacts
    <2>4. db' = db \/ \A q : VersionIn(db', q) \in {0, VersionIn(table', q)}
      BY <1>0, <2>1, SerializedFacts, TornFacts
    <2>5. Lists
      BY <2>1, <2>2, <2>3, <2>4 DEF Current, Installed
    <2> QED
      BY <2>1, <2>2, <2>5 DEF Current, Installed
  <1>10. CASE PowerCut
    <2>1. pc' = "off" /\ cuts' = cuts + 1
      BY <1>10 DEF PowerCut, Goto
    <2> QED
      BY <1>0, <2>1 DEF Current
  <1>11. CASE Boot
    <2>1. pc = "off" /\ pc' = "idle" /\ table' = db /\ db' = db /\ cuts' = cuts
      BY <1>11 DEF Boot, Goto, files, bounds
    <2>2. cuts > 0
      BY <2>1 DEF Current
    <2> QED
      BY <1>0, <2>1, <2>2 DEF Current, Installed
  <1> QED
    BY <1>1, <1>2, <1>3, <1>4, <1>5, <1>6, <1>7, <1>8, <1>9, <1>10, <1>11
       DEF Next, Step, CallerStep, PayloadStep

-----------------------------------------------------------------------------
(* Payload, marker and table of one call *)

\* A package whose files and entry a step leaves alone stays in order.
LEMMA FineKept ==
    ASSUME NEW p \in Pkgs, Fine(p), VersionIn(table', p) = VersionIn(table, p),
           target'[p] = target[p], parts'[p] = parts[p], marker'[p] = marker[p]
    PROVE  Fine(p)'
  BY DEF Fine, PayloadFine, MarkerFine, Payload, Installed

\* The package of the call: the steps up to the swap.
LEMMA AgreeBefore ==
    ASSUME TypeInv, Buffered, Phases, Fetch \/ Stage \/ Verify \/ DropBackup \/ Keep,
           Fine(Top), TopFine(Top)
    PROVE  /\ pc' \notin Unsettled => (MarkerFine(Top) /\ PayloadFine(Top))'
           /\ TopFine(Top)'
  <1> USE DEF Loaded, Checked, Placing, Metadata, Unsettled
  <1>0. CallStep /\ UNCHANGED <<table, parts, marker>>
    BY FetchEffect, StageEffect, VerifyEffect, DropBackupEffect, KeepEffect
  <1>1. Top' = Top /\ Top \in Pkgs
    BY <1>0 DEF CallStep
  <1>2. MarkerFine(Top) /\ MarkerFine(Top)'
    BY <1>0, <1>1 DEF MarkerFine, Fine
  <1>3. CASE Fetch \/ Stage
    <2>1. target' = target /\ pc' \in {"stage", "verify", "return"}
      BY <1>3, FetchEffect, StageEffect
    <2>2. PayloadFine(Top)'
      BY <1>0, <1>1, <2>1 DEF Fine, PayloadFine, Payload, Installed
    <2> QED
      BY <1>2, <2>1, <2>2 DEF TopFine
  <1>4. CASE Verify
    <2>1. target' = target /\ pc' \in {"drop", "write", "return"}
      BY <1>4, VerifyEffect
    <2>2. PayloadFine(Top)'
      BY <1>0, <1>1, <2>1 DEF Fine, PayloadFine, Payload, Installed
    <2>3. pc' = "write" => ~fr'.backed /\ (Top \notin Big => fr'.hurt)
      BY <1>4, VerifyEffect DEF Phases
    <2> QED
      BY <1>1, <1>2, <2>1, <2>2, <2>3 DEF TopFine
  <1>5. CASE DropBackup
    <2>1. target' = target /\ pc' = "keep" /\ (backup'[Top] = Absent \/ fr'.hurt)
      BY <1>5, DropBackupEffect
    <2>2. PayloadFine(Top)'
      BY <1>0, <1>1, <2>1 DEF Fine, PayloadFine, Payload, Installed
    <2> QED
      BY <1>1, <1>2, <2>1, <2>2 DEF TopFine
  <1>6. CASE Keep
    <2>1. pc = "keep" /\ pc' = "swap" /\ fr'.existing = fr.existing
          /\ fr.existing = Installed(Top) /\ ~fr.backed
      BY <1>6, KeepEffect DEF SameFrame, Phases
    <2>2. fr.existing => backup[Top] = Absent \/ fr.hurt
      BY <2>1 DEF TopFine
    <2>3. CASE /\ fr.existing /\ target[Top] # Absent /\ backup'[Top] = target[Top]
               /\ target'[Top] = Absent /\ fr'.backed
      <3>1. Top \notin Big => target[Top] = VersionIn(table, Top)
        BY <2>1, <2>3 DEF Fine, PayloadFine, Payload
      <3>2. SwapFine(Top)'
        BY <1>0, <1>1, <1>2, <2>1, <2>3, <3>1 DEF SwapFine
      <3> QED
        BY <2>1, <3>2 DEF TopFine
    <2>4. CASE /\ UNCHANGED <<target, backup>> /\ fr'.backed = fr.backed
               /\ fr.existing /\ ~fr'.hurt => target[Top] = Absent
      <3>1. PayloadFine(Top)'
        BY <1>0, <1>1, <2>4 DEF Fine, PayloadFine, Payload, Installed
      <3>2. SwapFine(Top)'
        BY <1>0, <1>1, <1>2, <2>1, <2>4, <3>1 DEF SwapFine
      <3> QED
        BY <2>1, <3>2 DEF TopFine
    <2> QED
      BY <1>6, <2>2, <2>3, <2>4, KeepEffect
  <1> QED
    BY <1>3, <1>4, <1>5, <1>6

\* The swap, and the writes without it.
LEMMA AgreeSwap ==
    ASSUME TypeInv, Buffered, Phases, Swap \/ WriteTarget \/ WriteParts,
           pc = "write" => Fine(Top), TopFine(Top)
    PROVE  /\ pc' \notin Unsettled => Fine(Top)'
           /\ TopFine(Top)'
  <1> USE DEF Loaded, Checked, Placing, Metadata, Unsettled
  <1>0. CallStep /\ UNCHANGED <<table, marker>>
    BY SwapEffect, WriteTargetEffect, WritePartsEffect
  <1>1. Top' = Top /\ Top \in Pkgs /\ avail' = avail /\ avail[Top] \in Versions
    BY <1>0 DEF CallStep, control
  <1>2. avail[Top] # Absent /\ avail[Top] # 0
    BY <1>1, ConstantTypes DEF Absent
  <1>3. MarkerFine(Top) /\ MarkerFine(Top)'
    <2>1. MarkerFine(Top)
      BY SwapEffect, WriteTargetEffect, WritePartsEffect DEF TopFine, Fine, SwapFine
    <2> QED
      BY <1>0, <1>1, <2>1 DEF MarkerFine
  <1>4. fr.buf = avail[Top] /\ fr.existing = Installed(Top)
    BY SwapEffect, WriteTargetEffect, WritePartsEffect DEF Buffered, Phases
  <1>5. Installed(Top) => VersionIn(table, Top) # Absent
    BY DEF Installed, Absent
  <1>6. CASE Swap
    <2>1. pc = "swap" /\ SwapFine(Top) /\ staging[Top] = avail[Top] /\ UNCHANGED parts
          /\ fr'.existing = fr.existing
      BY <1>4, <1>6, SwapEffect DEF TopFine, Buffered, SameFrame
    <2>2. CASE /\ target[Top] = Absent /\ target'[Top] = staging[Top] /\ UNCHANGED backup
               /\ fr'.atomic /\ fr'.backed = fr.backed /\ pc' = "clean" /\ fr'.hurt = fr.hurt
      <3>1. Payload(Top)' = avail[Top]
        BY <1>1, <1>2, <2>1, <2>2 DEF Payload
      <3>2. ASSUME fr'.existing, Top \notin Big
            PROVE  Recoverable(Top, VersionIn(table, Top))'
        <4>1. fr.backed => backup[Top] = VersionIn(table, Top)
          BY <2>1, <3>2 DEF SwapFine
        <4>2. ~fr.backed => parts[Top] = VersionIn(table, Top)
          BY <1>4, <2>1, <2>2, <3>2 DEF SwapFine, PayloadFine, Payload
        <4> QED
          BY <1>0, <1>1, <2>1, <2>2, <4>1, <4>2 DEF Recoverable
      <3>3. MetadataFine(Top)'
        BY <1>0, <1>1, <3>1, <3>2 DEF MetadataFine
      <3> QED
        BY <1>3, <2>2, <3>3 DEF TopFine
    <2>3. CASE /\ pc' = "write" /\ ~fr'.backed
               /\ (fr'.hurt \/ (target[Top] # Absent /\ fr'.hurt = fr.hurt))
               /\ IF fr.backed THEN target'[Top] = backup[Top] /\ backup'[Top] = Absent
                               ELSE UNCHANGED <<target, backup>>
      <3>1. PayloadFine(Top)'
        <4>1. CASE fr.backed
          BY <1>0, <1>1, <1>5, <2>1, <2>3, <4>1
             DEF SwapFine, PayloadFine, Payload, Installed
        <4>2. CASE ~fr.backed
          BY <1>0, <1>1, <2>1, <2>3, <4>2 DEF SwapFine, PayloadFine, Payload, Installed
        <4> QED
          BY <4>1, <4>2
      <3>2. fr'.existing => fr'.hurt
        BY <2>1, <2>3 DEF SwapFine
      <3> QED
        BY <1>1, <1>3, <2>3, <3>1, <3>2 DEF TopFine, Fine
    <2>4. staging[Top] # Absent
      BY <1>2, <2>1
    <2> QED
      BY <1>6, <2>2, <2>3, <2>4, SwapEffect
  <1>7. CASE WriteTarget
    <2>1. pc = "write" /\ ~fr.backed /\ (Top \notin Big /\ fr.existing => fr.hurt) /\ UNCHANGED parts
          /\ fr'.existing = fr.existing /\ fr'.backed = fr.backed
      BY <1>7, WriteTargetEffect DEF TopFine, SameFrame
    <2>2. CASE Top \notin Big /\ target'[Top] = fr.buf /\ pc' = "clean" /\ fr'.hurt = fr.hurt
      <3>1. Payload(Top)' = avail[Top]
        BY <1>1, <1>2, <1>4, <2>2 DEF Payload
      <3>2. MetadataFine(Top)'
        BY <1>1, <2>1, <2>2, <3>1 DEF MetadataFine
      <3> QED
        BY <1>3, <2>2, <3>2 DEF TopFine
    <2>3. CASE Top \in Big /\ target'[Top] = Absent /\ pc' = "parts"
      BY <1>1, <1>3, <2>1, <2>3 DEF TopFine
    <2>4. CASE Top \notin Big /\ target'[Top] = Absent /\ pc' = "parts" /\ ~fr.hurt /\ fr'.hurt
      BY <1>1, <1>3, <2>1, <2>4 DEF TopFine
    <2> QED
      BY <1>7, <2>2, <2>3, <2>4, WriteTargetEffect
  <1>8. CASE WriteParts
    <2>1. pc = "parts" /\ target[Top] = Absent /\ (Top \notin Big => fr.hurt /\ ~fr.existing)
          /\ UNCHANGED target
      BY <1>8, WritePartsEffect DEF TopFine
    <2>2. CASE parts'[Top] = fr.buf /\ pc' = "clean" /\ UNCHANGED fr
      <3>1. Payload(Top)' = avail[Top]
        BY <1>1, <1>4, <2>1, <2>2 DEF Payload
      <3>2. MetadataFine(Top)'
        BY <1>1, <2>1, <2>2, <3>1 DEF MetadataFine
      <3> QED
        BY <1>3, <2>2, <3>2 DEF TopFine
    <2>3. CASE pc' = "return" /\ ~fr.hurt
      <3>1. PayloadFine(Top)'
        BY <1>1, <2>1, <2>3 DEF PayloadFine
      <3> QED
        BY <1>3, <2>3, <3>1 DEF TopFine, Fine
    <2> QED
      BY <1>8, <2>2, <2>3, WritePartsEffect
  <1> QED
    BY <1>6, <1>7, <1>8

\* The staging file, the marker, the table with its database, the rollback.
LEMMA AgreeMetadata ==
    ASSUME TypeInv, Buffered, Phases, CleanStaging \/ WriteMarker \/ Save \/ Undo \/ Commit,
           pc = "commit" => Fine(Top), TopFine(Top)
    PROVE  /\ pc' \notin Unsettled => Fine(Top)'
           /\ TopFine(Top)'
  <1> USE DEF Loaded, Checked, Placing, Metadata, Unsettled
  <1>0. CallStep
    BY CleanStagingEffect, WriteMarkerEffect, SaveEffect, UndoEffect, CommitEffect
  <1>1. Top' = Top /\ Top \in Pkgs /\ avail' = avail /\ avail[Top] \in Versions /\ avail[Top] # 0
    BY <1>0, ConstantTypes DEF CallStep
  <1>2. CASE CleanStaging
    <2>1. /\ pc = "clean" /\ pc' = "marker" /\ UNCHANGED <<target, backup, parts, marker, table>>
          /\ fr'.existing = fr.existing /\ fr'.atomic = fr.atomic /\ fr'.backed = fr.backed
          /\ (fr.hurt => fr'.hurt)
      BY <1>2, CleanStagingEffect DEF SameFrame
    <2>2. MarkerFine(Top) /\ MetadataFine(Top)
      BY <2>1 DEF TopFine
    <2>3. MarkerFine(Top)'
      BY <1>1, <2>1, <2>2 DEF MarkerFine
    <2>4. MetadataFine(Top)'
      BY <1>1, <2>1, <2>2 DEF MetadataFine, Payload, Recoverable
    <2> QED
      BY <2>1, <2>3, <2>4 DEF TopFine
  <1>3. CASE WriteMarker
    <2>1. /\ pc = "marker" /\ pc' \in {"save", "undo"} /\ UNCHANGED <<target, backup, parts, table>>
          /\ fr'.existing = fr.existing /\ fr'.atomic = fr.atomic /\ fr'.backed = fr.backed
          /\ (fr.hurt => fr'.hurt) /\ fr'.old = VersionIn(table, Top)
      BY <1>3, WriteMarkerEffect DEF SameFrame
    <2>2. MarkerFine(Top) /\ MetadataFine(Top)
      BY <2>1 DEF TopFine
    <2>3. fr.existing = Installed(Top)
      BY <2>1 DEF Phases
    <2>4. MetadataFine(Top)'
      BY <1>1, <2>1, <2>2 DEF MetadataFine, Payload, Recoverable
    <2>5. (IF Installed(Top) THEN marker[Top] ELSE Absent) = VersionIn(table, Top)
      BY <2>2 DEF MarkerFine, Installed, Absent
    <2>6. CASE pc' = "save"
      <3>1. SaveFine(Top)'
        <4>1. marker'[Top] = avail[Top]
          BY <1>3, <2>6, WriteMarkerEffect
        <4>2. ~fr'.hurt \/ fr'.old = 0 => fr'.was = fr'.old
          BY <1>3, <2>1, <2>5, <2>6, WriteMarkerEffect DEF Installed, Absent
        <4> QED
          BY <1>1, <4>1, <4>2 DEF SaveFine
      <3> QED
        BY <2>4, <2>6, <3>1 DEF TopFine
    <2>7. CASE pc' = "undo"
      <3>1. fr'.was = VersionIn(table, Top) /\ ~fr.hurt
        BY <1>3, <2>5, <2>7, WriteMarkerEffect
      <3>2. Top \notin Big => Payload(Top)' = avail[Top]'
        BY <1>1, <2>4 DEF MetadataFine
      <3>3. fr'.old # 0 /\ Top \notin Big => Recoverable(Top, fr.old)'
        BY <1>1, <2>1, <2>2, <2>3, <3>1 DEF MetadataFine, Recoverable, Installed
      <3>4. UndoFine(Top)'
        BY <1>1, <2>1, <3>1, <3>2, <3>3 DEF UndoFine
      <3> QED
        BY <2>7, <3>4 DEF TopFine
    <2> QED
      BY <2>1, <2>6, <2>7
  <1>4. CASE Save
    <2>1. /\ pc = "save" /\ UNCHANGED <<target, backup, parts, marker>>
          /\ fr'.existing = fr.existing /\ fr'.atomic = fr.atomic /\ fr'.backed = fr.backed
          /\ fr'.was = fr.was /\ fr'.old = fr.old /\ fr.old = VersionIn(table, Top)
      BY <1>4, SaveEffect DEF SameFrame
    <2>2. MetadataFine(Top) /\ SaveFine(Top) /\ fr.existing = Installed(Top)
      BY <2>1 DEF TopFine, Phases
    <2>3. Payload(Top)' = Payload(Top)
      BY <1>1, <2>1 DEF Payload
    <2>4. CASE pc' = "commit" /\ ~Full /\ table' = Put(table, Top, avail[Top])
      <3>1. VersionIn(table', Top) = avail[Top]
        BY <1>4, <2>4, SaveEffect
      <3>2. Fine(Top)'
        BY <1>1, <2>1, <2>2, <2>3, <3>1
           DEF Fine, PayloadFine, MarkerFine, MetadataFine, SaveFine
      <3> QED
        BY <2>4, <3>2 DEF TopFine
    <2>5. CASE pc' = "undo" /\ (~Installed(Top) \/ ~fr.hurt)
      <3>1. fr.was = fr.old
        BY <2>1, <2>2, <2>5 DEF SaveFine, Installed
      <3>2. fr'.old # 0 /\ Top \notin Big => Recoverable(Top, fr.old)'
        BY <1>1, <2>1, <2>2, <2>5 DEF MetadataFine, Recoverable, Installed
      <3>3. UndoFine(Top)'
        BY <1>1, <2>1, <2>2, <2>3, <3>1, <3>2 DEF UndoFine, MetadataFine
      <3> QED
        BY <2>5, <3>3 DEF TopFine
    <2> QED
      BY <1>4, <2>4, <2>5, SaveEffect
  <1>5. CASE Undo
    <2>1. /\ pc = "undo" /\ pc' = "return" /\ UNCHANGED parts /\ marker'[Top] = fr.was
          /\ VersionIn(table', Top) = fr.old
          /\ fr.atomic => target'[Top] = IF fr.backed THEN backup[Top] ELSE Absent
      BY <1>5, UndoEffect
    <2>2. UndoFine(Top)
      BY <2>1 DEF TopFine
    <2>3. MarkerFine(Top)'
      BY <1>1, <2>1, <2>2 DEF MarkerFine, UndoFine
    <2>4. PayloadFine(Top)'
      <3> SUFFICES ASSUME fr.old # 0, Top \notin Big
                   PROVE  Payload(Top)' = fr.old
        BY <1>1, <2>1 DEF PayloadFine, Installed
      <3>1. Recoverable(Top, fr.old)
        BY <2>2 DEF UndoFine
      <3> QED
        BY <1>1, <2>1, <3>1 DEF Recoverable, Payload, Absent
    <2> QED
      BY <2>1, <2>3, <2>4 DEF Fine, TopFine
  <1>6. CASE Commit
    <2>1. pc = "commit" /\ pc' = "return" /\ UNCHANGED <<target, parts, marker, table>>
      BY <1>6, CommitEffect
    <2>2. Fine(Top)
      BY <2>1
    <2>3. Fine(Top)'
      BY <1>1, <2>1, <2>2 DEF Fine, PayloadFine, MarkerFine, Payload, Installed
    <2> QED
      BY <2>1, <2>3 DEF TopFine
  <1> QED
    BY <1>2, <1>3, <1>4, <1>5, <1>6

InstallStep == PayloadStep \/ WriteMarker \/ Save \/ Undo \/ Commit

\* A step of capypkg_install concerns one package only.
LEMMA OthersKept ==
    ASSUME TypeInv, InstallStep, NEW p \in Pkgs, p # Top
    PROVE  /\ target'[p] = target[p] /\ backup'[p] = backup[p] /\ parts'[p] = parts[p]
           /\ marker'[p] = marker[p] /\ VersionIn(table', p) = VersionIn(table, p)
  <1>1. CASE Fetch \/ Verify
    BY <1>1, FetchEffect, VerifyEffect
  <1>2. CASE Stage \/ DropBackup \/ Keep
    BY <1>2, StageEffect, DropBackupEffect, KeepEffect DEF OnlyTop
  <1>3. CASE Swap \/ WriteTarget
    BY <1>3, SwapEffect, WriteTargetEffect DEF OnlyTop
  <1>4. CASE WriteParts \/ CleanStaging
    BY <1>4, WritePartsEffect, CleanStagingEffect DEF OnlyTop
  <1>5. CASE WriteMarker \/ Commit
    BY <1>5, WriteMarkerEffect, CommitEffect DEF OnlyTop
  <1>6. CASE Save
    BY <1>6, SaveEffect
  <1>7. CASE Undo
    BY <1>7, UndoEffect DEF OnlyTop
  <1> QED
    BY <1>1, <1>2, <1>3, <1>4, <1>5, <1>6, <1>7 DEF InstallStep, PayloadStep

LEMMA InstallStepEffect ==
    ASSUME TypeInv, InstallStep
    PROVE  CallStep
  BY PayloadStepEffect, WriteMarkerEffect, SaveEffect, UndoEffect, CommitEffect DEF InstallStep

LEMMA AgreeNext ==
    ASSUME TypeInv, Buffered, Phases, Current, Forgetting, Agree, [Next]_vars
    PROVE  Agree'
  <1> SUFFICES ASSUME cuts' = 0, NEW p \in Pkgs \ removed'
               PROVE  /\ ~(pc' \in Unsettled /\ p = Top') => Fine(p)'
                      /\ pc' \in Calls /\ p = Top' => TopFine(p)'
    BY DEF Agree
  <1>0. cuts \in Nat
    BY DEF TypeInv, ControlTyped
  <1>1. CASE UNCHANGED vars
    <2>1. /\ UNCHANGED <<target, backup, staging, parts, marker, table, avail, stack, pc, fr, removed, cuts>>
          /\ Top' = Top
      BY <1>1 DEF vars, files, ram, control, bounds, Top
    <2>2. /\ ~(pc \in Unsettled /\ p = Top) => Fine(p)
          /\ pc \in Calls /\ p = Top => TopFine(p)
      BY <2>1 DEF Agree
    <2>3. ~(pc' \in Unsettled /\ p = Top') => Fine(p)'
      BY <2>1, <2>2, FineKept
    <2>4. pc' \in Calls /\ p = Top' => TopFine(p)'
      BY <2>1, <2>2
         DEF TopFine, SwapFine, MetadataFine, SaveFine, UndoFine, Recoverable, MarkerFine,
             PayloadFine, Payload, Installed
    <2> QED
      BY <2>3, <2>4
  <1>2. CASE CallerStep /\ ~UNCHANGED vars
    <2>1. UNCHANGED <<target, parts, marker, table, removed, cuts>>
      BY <1>2, CallerEffect
    <2>2. pc \notin Unsettled /\ pc' \in {"next", "index", "idle", "finish", "resolve", "fetch", "return"}
      BY <1>2, CallerLabels DEF Unsettled, Metadata
    <2>3. Fine(p)'
      BY <2>1, <2>2, FineKept DEF Agree
    <2> QED
      BY <2>2, <2>3 DEF TopFine, Metadata
  <1>3. CASE InstallStep
    <2>1. CallStep
      BY <1>3, InstallStepEffect
    <2>2. UNCHANGED <<removed, cuts>> /\ Top' = Top /\ pc \in Calls
      BY <2>1 DEF CallStep
    <2>3. CASE p # Top
      <3>1. Fine(p)
        BY <2>2, <2>3 DEF Agree
      <3>2. Fine(p)'
        BY <1>3, <2>3, <3>1, OthersKept, FineKept
      <3> QED
        BY <2>2, <2>3, <3>2
    <2>4. CASE p = Top
      <3>1. TopFine(Top) /\ (pc \notin Unsettled => Fine(Top))
        BY <2>2, <2>4 DEF Agree
      <3>2. CASE Fetch \/ Stage \/ Verify \/ DropBackup \/ Keep
        <4>1. pc \in {"fetch", "stage", "verify", "drop", "keep"}
          BY <3>2 DEF Fetch, Stage, Verify, DropBackup, Keep
        <4>2. Fine(Top)
          BY <3>1, <4>1 DEF Unsettled, Metadata
        <4>3. (pc' \notin Unsettled => (MarkerFine(Top) /\ PayloadFine(Top))') /\ TopFine(Top)'
          BY <3>1, <3>2, <4>2, AgreeBefore
        <4> QED
          BY <2>2, <2>4, <4>3 DEF Fine
      <3>3. CASE Swap \/ WriteTarget \/ WriteParts
        <4>1. pc = "write" => Fine(Top)
          BY <3>1 DEF Unsettled, Metadata
        <4>2. (pc' \notin Unsettled => Fine(Top)') /\ TopFine(Top)'
          BY <3>1, <3>3, <4>1, AgreeSwap
        <4> QED
          BY <2>2, <2>4, <4>2
      <3>4. CASE CleanStaging \/ WriteMarker \/ Save \/ Undo \/ Commit
        <4>1. pc = "commit" => Fine(Top)
          BY <3>1 DEF Unsettled, Metadata
        <4>2. (pc' \notin Unsettled => Fine(Top)') /\ TopFine(Top)'
          BY <3>1, <3>4, <4>1, AgreeMetadata
        <4> QED
          BY <2>2, <2>4, <4>2
      <3> QED
        BY <1>3, <3>2, <3>3, <3>4 DEF InstallStep, PayloadStep
    <2> QED
      BY <2>3, <2>4
  <1>4. CASE RemovePkg
    <2>1. PICK q \in Pkgs : removed' = removed \union {q} /\ stack' = <<q>>
                            /\ (target' = Set(target, q, Absent) \/ target' = target)
      BY <1>4 DEF RemovePkg
    <2>2. pc = "idle" /\ pc' = "forget" /\ UNCHANGED <<parts, marker, table, cuts>>
      BY <1>4 DEF RemovePkg, Command, Goto, ram
    <2>3. target'[p] = target[p]
      <3>1. target \in Files /\ Absent \in Contents /\ p # q
        BY <2>1, ConstantTypes DEF TypeInv, FilesTyped
      <3> QED
        BY <2>1, <3>1, SetFacts
    <2>4. Fine(p)
      BY <2>1, <2>2 DEF Agree, Unsettled, Metadata
    <2>5. Fine(p)'
      BY <2>2, <2>3, <2>4, FineKept
    <2> QED
      BY <2>2, <2>5 DEF Calls, Loaded, Checked, Placing, Metadata
  <1>5. CASE Forget
    <2>1. /\ pc = "forget" /\ pc' = "idle" /\ table' = Drop(table, Top)
          /\ UNCHANGED <<target, parts, marker, removed, cuts>>
      BY <1>5 DEF Forget, Goto
    <2>2. p # Top /\ table \in Tables
      BY <2>1 DEF Forgetting, TypeInv, FilesTyped
    <2>3. VersionIn(table', p) = VersionIn(table, p)
      BY <2>1, <2>2, DropFacts
    <2>4. Fine(p)
      BY <2>1 DEF Agree, Unsettled, Metadata
    <2>5. Fine(p)'
      BY <2>1, <2>3, <2>4, FineKept
    <2> QED
      BY <2>1, <2>5 DEF Calls, Loaded, Checked, Placing, Metadata
  <1>6. CASE PowerCut
    BY <1>0, <1>6 DEF PowerCut
  <1>7. CASE Boot
    BY <1>0, <1>7 DEF Boot, bounds, Current
  <1> QED
    BY <1>1, <1>2, <1>3, <1>4, <1>5, <1>6, <1>7
       DEF Next, Step, CallerStep, InstallStep, PayloadStep

LEMMA AgreeInit == Init => Phases /\ Current /\ Agree
  <1> SUFFICES ASSUME Init PROVE Phases /\ Current /\ Agree
    OBVIOUS
  <1>1. pc = "idle" /\ table = <<>> /\ db = <<>> /\ marker = [p \in Pkgs |-> Absent]
    BY DEF Init
  <1>2. Phases /\ Current
    BY <1>1, EmptyTable DEF Phases, Current, Loaded, Checked, Placing, Metadata
  <1>3. \A p \in Pkgs : VersionIn(table, p) = 0 /\ marker[p] = 0
    BY <1>1, EmptyTable DEF Absent
  <1>4. Agree
    BY <1>1, <1>3
       DEF Agree, Fine, PayloadFine, MarkerFine, Installed, Calls, Loaded, Checked, Placing, Metadata
  <1> QED
    BY <1>2, <1>4

\* The invariant of one machine without cuts.
CallInv == VerifiedInv /\ Forgetting /\ Phases /\ Current /\ Agree

LEMMA CallInit == Init => CallInv
  BY TypeInit, VerifiedInit, ClosedInit, AgreeInit DEF CallInv, VerifiedInv

LEMMA CallNext == CallInv /\ [Next]_vars => CallInv'
  <1> SUFFICES ASSUME CallInv, [Next]_vars PROVE CallInv'
    OBVIOUS
  <1>1. TypeInv /\ Buffered /\ NoUnverified /\ Forgetting /\ Phases /\ Current /\ Agree
    BY DEF CallInv, VerifiedInv
  <1>2. VerifiedInv' /\ TypeInv'
    BY <1>1, VerifiedNext DEF VerifiedInv
  <1>3. Forgetting'
    BY <1>1, ForgettingNext
  <1>4. Phases'
    BY <1>1, PhasesNext
  <1>5. Current'
    BY <1>1, <1>2, CurrentNext
  <1>6. Agree'
    BY <1>1, AgreeNext
  <1> QED
    BY <1>2, <1>3, <1>4, <1>5, <1>6 DEF CallInv

LEMMA CallImplies == CallInv => Agreement
  <1> SUFFICES ASSUME CallInv, pc = "idle", cuts = 0
               PROVE  /\ removed = {} => db = Serialized(table)
                      /\ \A p \in Pkgs \ removed :
                            /\ marker[p] = VersionIn(table, p)
                            /\ Installed(p) /\ p \notin Big => Payload(p) = VersionIn(table, p)
    BY DEF Agreement
  <1>1. \A p \in Pkgs \ removed : Fine(p)
    BY DEF CallInv, Agree, Unsettled, Metadata
  <1>2. removed = {} => db = Serialized(table)
    BY DEF CallInv, Current
  <1> QED
    BY <1>1, <1>2 DEF Fine, PayloadFine, MarkerFine

\* For every catalogue and any number of failing downloads and file operations:
\* between calls, on a machine that never lost power, the payload, the marker and
\* the installed table agree, and db.idx holds of the table what its buffer does.
THEOREM FailedInstallsRollBack == Spec => []Agreement
  BY CallInit, CallNext, CallImplies, PTL DEF Spec

-----------------------------------------------------------------------------
(* One power cut *)

LEMMA SafePayload ==
    ASSUME NEW p \in Pkgs, Payload(p) \in Versions
    PROVE  Safe(p)
  BY DEF Safe, Payload

\* Without a cut every installed package has a complete copy, and so has the
\* one that is about to enter the table.
LEMMA SafeWithoutCut ==
    ASSUME CallInv, cuts = 0, NEW p \in Pkgs \ (removed \union Big),
           Installed(p) \/ (pc = "save" /\ p = Top)
    PROVE  Safe(p)
  <1>1. /\ ~(pc \in Unsettled /\ p = Top) => Fine(p)
        /\ pc \in Calls /\ p = Top => TopFine(p)
    BY DEF CallInv, Agree
  <1>2. TypeInv /\ table \in Tables
    BY DEF CallInv, VerifiedInv, TypeInv, FilesTyped
  <1>3. Installed(p) => VersionIn(table, p) \in Versions
    BY <1>2, InstalledFacts
  <1>4. CASE ~(pc \in Unsettled /\ p = Top)
    <2>1. Installed(p)
      BY <1>4 DEF Unsettled, Metadata
    <2> QED
      BY <1>1, <1>3, <1>4, <2>1, SafePayload DEF Fine, PayloadFine
  <1>5. CASE pc \in Unsettled /\ p = Top
    <2>1. TopFine(p) /\ pc \in Calls
      BY <1>1, <1>5 DEF Unsettled, Metadata, Calls, Loaded, Checked, Placing
    <2>2. avail[p] \in Versions
      BY <1>2, <1>5, <2>1, TopType
    <2>3. CASE pc \in Metadata \union {"undo"}
      <3>1. Payload(p) = avail[p]
        BY <2>1, <2>3 DEF TopFine, MetadataFine, UndoFine, Metadata
      <3> QED
        BY <2>2, <3>1, SafePayload
    <2>4. CASE pc = "swap"
      <3>1. SwapFine(p) /\ Installed(p)
        BY <2>1, <2>4 DEF TopFine
      <3>2. CASE fr.backed
        BY <1>3, <3>1, <3>2 DEF SwapFine, Safe
      <3>3. CASE ~fr.backed
        BY <1>3, <3>1, <3>3, SafePayload DEF SwapFine, PayloadFine
      <3> QED
        BY <3>2, <3>3
    <2>5. CASE pc = "parts"
      <3>1. ~fr.existing /\ Installed(p)
        BY <2>1, <2>5 DEF TopFine
      <3>2. fr.existing = Installed(Top)
        BY <2>5 DEF CallInv, Phases, Loaded, Checked
      <3> QED
        BY <1>5, <3>1, <3>2
    <2> QED
      BY <1>5, <2>3, <2>4, <2>5 DEF Unsettled
  <1> QED
    BY <1>4, <1>5

\* The first cut: what db.idx lists afterwards was safe before, and the writes
\* that the cut can interrupt are not its last copy.
LEMMA SafeAfterCut ==
    ASSUME CallInv, PowerCut, cuts = 0, NEW p \in Pkgs \ (removed \union Big),
           VersionIn(db', p) # 0
    PROVE  Safe(p)'
  <1>1. TypeInv /\ Phases /\ Current /\ Forgetting /\ pc # "off" /\ ~fr.hurt
        /\ target \in Files /\ parts \in Files
    BY DEF CallInv, VerifiedInv, TypeInv, FilesTyped, PowerCut
  <1>2. \/ VersionIn(db', p) = VersionIn(db, p) /\ Installed(p) /\ db' = db
        \/ pc = "save" /\ (Installed(p) \/ p = Top)
        \/ pc = "forget" /\ Installed(p)
    <2>1. CASE db' = db
      BY <1>1, <2>1 DEF Current
    <2>2. CASE pc = "save" /\ ~Full /\ \A q : VersionIn(db', q) \in {0, VersionIn(CutTable, q)}
      <3>1. Top \in Pkgs /\ avail[Top] \in Versions
        BY <1>1, <2>2, TopType DEF Calls, Loaded, Checked, Metadata
      <3>2. table \in Tables
        BY <1>1 DEF TypeInv, FilesTyped
      <3>3. VersionIn(table, Top) # 0 \/ Len(table) < MaxInstalled
        BY <2>2, <3>2, TableShape, ConstantTypes DEF Full, Installed
      <3>4. p # Top => VersionIn(CutTable, p) = VersionIn(table, p)
        BY <2>2, <3>1, <3>2, <3>3, PutFacts DEF CutTable
      <3> QED
        BY <2>2, <3>4 DEF Installed
    <2>3. CASE pc = "forget" /\ \A q : VersionIn(db', q) \in {0, VersionIn(CutTable, q)}
      <3>1. VersionIn(CutTable, p) \in {0, VersionIn(table, p)}
        BY <1>1, <2>3, DropFacts DEF CutTable, TypeInv, FilesTyped
      <3> QED
        BY <2>3, <3>1 DEF Installed
    <2> QED
      BY <1>1, <2>1, <2>2, <2>3, CutDb
  <1>3. Safe(p)
    BY <1>2, SafeWithoutCut
  <1>4. ~(pc = "write" /\ p = Top)
    <2> SUFFICES ASSUME pc = "write", p = Top PROVE FALSE
      OBVIOUS
    <2>1. Installed(Top) /\ fr.existing = Installed(Top)
      BY <1>1, <1>2 DEF Phases, Loaded, Checked, Placing
    <2>2. TopFine(p)
      BY DEF CallInv, Agree, Calls, Loaded, Checked, Placing
    <2> QED
      BY <1>1, <2>1, <2>2 DEF TopFine
  <1>5. ~(pc = "parts" /\ p = Top)
    BY <1>1 DEF Phases
  <1>6. pc \in {"write", "parts"} => Top \in Pkgs
    BY <1>1, TopType DEF Calls, Loaded, Checked, Placing
  <1>7. target'[p] = target[p]
    BY <1>1, <1>4, <1>6, CutFile DEF PowerCut
  <1>8. parts'[p] = parts[p]
    BY <1>1, <1>5, <1>6, CutFile DEF PowerCut
  <1>9. backup' = backup
    BY DEF PowerCut
  <1> QED
    BY <1>3, <1>7, <1>8, <1>9 DEF Safe

\* The package of a call, after one cut and with no file operation failing.
LEMMA SurviveTop ==
    ASSUME TypeInv, Buffered, Phases, InstallStep, io = 0, io' = 0, Top \notin Big,
           pc \in Metadata \union {"commit"} => Payload(Top) = avail[Top],
           Installed(Top) => Safe(Top) \/ pc \in Placing
    PROVE  /\ pc' \in Metadata \union {"commit"} => Payload(Top)' = avail[Top]
           /\ VersionIn(table', Top) # 0 => Safe(Top)' \/ pc' \in Placing
  <1> USE DEF Loaded, Checked, Placing, Metadata
  <1>0. CallStep
    BY InstallStepEffect
  <1>1. Top' = Top /\ Top \in Pkgs /\ avail[Top] \in Versions /\ avail[Top] # Absent
    BY <1>0, ConstantTypes DEF CallStep, Absent
  <1>2. pc' \in Metadata \union {"commit"} /\ Payload(Top)' = avail[Top] => Safe(Top)'
    BY <1>1 DEF Safe, Payload
  <1>3. CASE Fetch \/ Stage \/ Verify
    <2>1. pc \in {"fetch", "stage", "verify"} /\ pc' \in {"stage", "verify", "drop", "write", "return"}
          /\ UNCHANGED <<target, backup, parts, table>>
      BY <1>3, FetchEffect, StageEffect, VerifyEffect
    <2> QED
      BY <1>1, <2>1 DEF Safe, Installed
  <1>4. CASE DropBackup \/ Keep
    BY <1>4, DropBackupEffect, KeepEffect
  <1>5. CASE Swap
    <2>1. pc = "swap" /\ staging[Top] = avail[Top]
      BY <1>5, SwapEffect DEF Buffered
    <2>2. CASE pc' = "clean" /\ target'[Top] = staging[Top]
      BY <1>1, <1>2, <2>1, <2>2 DEF Payload
    <2>3. CASE pc' = "write"
      BY <2>3
    <2> QED
      BY <1>5, <2>2, <2>3, SwapEffect
  <1>6. CASE WriteTarget
    <2>1. pc = "write" /\ fr.buf = avail[Top]
      BY <1>6, WriteTargetEffect DEF Buffered
    <2>2. pc' = "clean" /\ target'[Top] = fr.buf
      BY <1>6, WriteTargetEffect
    <2> QED
      BY <1>1, <1>2, <2>1, <2>2 DEF Payload
  <1>7. CASE WriteParts
    BY <1>7, WritePartsEffect DEF Phases
  <1>8. CASE CleanStaging
    <2>1. pc = "clean" /\ UNCHANGED <<target, parts>>
      BY <1>8, CleanStagingEffect
    <2>2. Payload(Top)' = avail[Top]
      BY <1>1, <2>1 DEF Payload
    <2> QED
      BY <1>1, <1>2, <1>8, <2>2, CleanStagingEffect
  <1>9. CASE WriteMarker
    <2>1. pc = "marker" /\ pc' = "save" /\ UNCHANGED <<target, parts>>
      BY <1>9, WriteMarkerEffect
    <2>2. Payload(Top)' = avail[Top]
      BY <1>1, <2>1 DEF Payload
    <2> QED
      BY <1>1, <1>2, <2>1, <2>2
  <1>10. CASE Save
    <2>1. pc = "save" /\ UNCHANGED <<target, parts>>
      BY <1>10, SaveEffect
    <2>2. Payload(Top)' = avail[Top]
      BY <1>1, <2>1 DEF Payload
    <2>3. CASE pc' = "commit"
      BY <1>1, <1>2, <2>2, <2>3
    <2>4. CASE pc' = "undo" /\ ~Installed(Top) /\ table' = table
      BY <2>4 DEF Installed
    <2> QED
      BY <1>10, <2>3, <2>4, SaveEffect
  <1>11. CASE Undo
    <2>1. ~fr.resave /\ ~Installed(Top) /\ pc' = "return"
      BY <1>11, UndoEffect DEF Phases
    <2>2. table' = table
      BY <1>11, <2>1, UndoEffect
    <2> QED
      BY <2>1, <2>2 DEF Installed
  <1>12. CASE Commit
    <2>1. pc = "commit" /\ pc' = "return" /\ UNCHANGED <<target, parts>>
      BY <1>12, CommitEffect
    <2>2. Payload(Top)' \in Versions
      BY <1>1, <2>1 DEF Payload
    <2>3. Safe(Top)'
      BY <1>1, <2>2 DEF Payload, Safe
    <2> QED
      BY <2>1, <2>3
  <1> QED
    BY <1>3, <1>4, <1>5, <1>6, <1>7, <1>8, <1>9, <1>10, <1>11, <1>12 DEF InstallStep, PayloadStep

LEMMA IoGrows ==
    ASSUME TypeInv, [Next]_vars, io' = 0
    PROVE  io = 0
  <1>1. io \in Nat /\ io' \in {io, io + 1}
    BY DEF TypeInv, ControlTyped, Next, Step, Index, NextPkg, Resolve, Fetch, Stage, Verify,
           DropBackup, Keep, Swap, WriteTarget, WriteParts, CleanStaging, WriteMarker, Save, Undo,
           Commit, Return, Finish, Forget, Boot, Poll, Ask, Refresh, Forced, RemovePkg, Publish,
           PowerCut, vars, bounds, IoFails, WriteFails
  <1> QED
    BY <1>1

LEMMA SurviveNext ==
    ASSUME CallInv, CallInv', Survive, [Next]_vars
    PROVE  Survive'
  <1>0. /\ TypeInv /\ Buffered /\ Phases /\ Forgetting /\ Current /\ Current' /\ cuts \in Nat
        /\ io \in Nat /\ table \in Tables
    BY DEF CallInv, VerifiedInv, TypeInv, FilesTyped, ControlTyped
  <1>1. SUFFICES ASSUME cuts' = 1, io' = 0
                 PROVE  /\ pc' \in Metadata \union {"commit"} /\ Top' \notin removed' \union Big =>
                              Payload(Top)' = avail'[Top']
                        /\ \A p \in Pkgs \ (removed' \union Big) :
                              VersionIn(db', p) # 0 \/ VersionIn(table', p) # 0 =>
                                  Safe(p)' \/ (pc' \in Placing /\ p = Top')
    BY DEF Survive, Installed
  <1>2. io = 0
    BY <1>0, <1>1, IoGrows
  <1>3. cuts = 1 =>
          /\ pc \in Metadata \union {"commit"} /\ Top \notin removed \union Big =>
                Payload(Top) = avail[Top]
          /\ \A p \in Pkgs \ (removed \union Big) :
                VersionIn(db, p) # 0 \/ VersionIn(table, p) # 0 =>
                    Safe(p) \/ (pc \in Placing /\ p = Top)
    BY <1>2 DEF Survive, Installed
  <1>4. pc' # "off" => \A p \in Pkgs \ removed' : VersionIn(db', p) # 0 => VersionIn(table', p) # 0
    BY <1>0 DEF Current, Installed
  <1>5. CASE UNCHANGED vars
    <2>1. /\ UNCHANGED <<target, backup, parts, table, db, avail, pc, removed, cuts>> /\ Top' = Top
      BY <1>5 DEF vars, files, ram, control, bounds, Top
    <2> QED
      BY <1>1, <1>3, <2>1 DEF Safe, Payload
  <1>6. CASE CallerStep /\ ~UNCHANGED vars
    <2>1. UNCHANGED <<target, backup, parts, table, db, removed, cuts>>
      BY <1>6, CallerEffect
    <2>2. pc \notin Placing /\ pc' \notin Metadata \union {"commit"}
      BY <1>6, CallerLabels DEF Placing, Metadata
    <2> QED
      BY <1>1, <1>3, <2>1, <2>2 DEF Safe
  <1>7. CASE InstallStep
    <2>1. /\ UNCHANGED <<removed, cuts, avail>> /\ Top' = Top /\ Top \in Pkgs /\ pc' # "off"
      <3>1. CallStep
        BY <1>0, <1>7, InstallStepEffect
      <3> QED
        BY <1>0, <3>1, TopType DEF CallStep, Calls, Loaded, Checked, Placing, Metadata
    <2>2. ASSUME Top \notin Big, Top \notin removed
          PROVE  /\ pc' \in Metadata \union {"commit"} => Payload(Top)' = avail[Top]
                 /\ VersionIn(table', Top) # 0 => Safe(Top)' \/ pc' \in Placing
      <3>1. pc \in Metadata \union {"commit"} => Payload(Top) = avail[Top]
        BY <1>1, <1>3, <2>1, <2>2
      <3>2. Installed(Top) => Safe(Top) \/ pc \in Placing
        BY <1>1, <1>3, <2>1, <2>2 DEF Installed
      <3> QED
        BY <1>0, <1>1, <1>2, <1>7, <2>2, <3>1, <3>2, SurviveTop
    <2>3. ASSUME NEW p \in Pkgs \ (removed' \union Big), VersionIn(table', p) # 0
          PROVE  Safe(p)' \/ (pc' \in Placing /\ p = Top')
      <3>1. CASE p = Top
        BY <2>1, <2>2, <2>3, <3>1
      <3>2. CASE p # Top
        <4>1. /\ target'[p] = target[p] /\ backup'[p] = backup[p] /\ parts'[p] = parts[p]
              /\ VersionIn(table, p) # 0
          BY <1>0, <1>7, <2>3, <3>2, OthersKept
        <4>2. Safe(p)
          BY <1>1, <1>3, <2>1, <3>2, <4>1
        <4> QED
          BY <4>1, <4>2 DEF Safe
      <3> QED
        BY <3>1, <3>2
    <2>4. Top' \notin removed' \union Big /\ pc' \in Metadata \union {"commit"} =>
            Payload(Top)' = avail'[Top']
      BY <2>1, <2>2
    <2> QED
      BY <1>4, <2>1, <2>3, <2>4
  <1>8. CASE RemovePkg
    <2>1. PICK q \in Pkgs : removed' = removed \union {q}
                            /\ (target' = Set(target, q, Absent) \/ target' = target)
      BY <1>8 DEF RemovePkg
    <2>2. pc = "idle" /\ pc' = "forget" /\ UNCHANGED <<backup, parts, table, db, cuts>>
      BY <1>8 DEF RemovePkg, Command, Goto, ram
    <2>3. ASSUME NEW p \in Pkgs \ (removed' \union Big),
                 VersionIn(db', p) # 0 \/ VersionIn(table', p) # 0
          PROVE  Safe(p)'
      <3>1. target \in Files /\ Absent \in Contents /\ p # q
        BY <1>0, <2>1, ConstantTypes DEF TypeInv, FilesTyped
      <3>2. target'[p] = target[p]
        BY <2>1, <3>1, SetFacts
      <3>3. Safe(p)
        BY <1>1, <1>3, <2>1, <2>2, <2>3 DEF Placing
      <3> QED
        BY <2>2, <3>2, <3>3 DEF Safe
    <2> QED
      BY <2>2, <2>3 DEF Metadata
  <1>9. CASE Forget
    <2>1. /\ pc = "forget" /\ pc' = "idle" /\ table' = Drop(table, Top)
          /\ UNCHANGED <<target, backup, parts, removed, cuts>>
      BY <1>9 DEF Forget, Goto
    <2>2. \A q : VersionIn(table', q) # 0 => VersionIn(table, q) # 0
      BY <1>0, <2>1, DropFacts
    <2> QED
      BY <1>1, <1>3, <1>4, <2>1, <2>2 DEF Safe, Metadata, Placing
  <1>10. CASE PowerCut
    <2>1. pc' = "off" /\ table' = <<>> /\ cuts' = cuts + 1 /\ removed' = removed
      BY <1>10 DEF PowerCut, Goto
    <2>2. cuts = 0
      BY <1>0, <1>1, <2>1
    <2>3. \A p \in Pkgs \ (removed \union Big) : VersionIn(db', p) # 0 => Safe(p)'
      BY <1>10, <2>2, SafeAfterCut
    <2> QED
      BY <2>1, <2>3, EmptyTable DEF Metadata
  <1>11. CASE Boot
    <2>1. /\ pc = "off" /\ pc' = "idle" /\ table' = db
          /\ UNCHANGED <<target, backup, parts, db, removed, cuts>>
      BY <1>11 DEF Boot, Goto, files, bounds
    <2> QED
      BY <1>1, <1>3, <2>1 DEF Safe, Metadata, Placing
  <1> QED
    BY <1>5, <1>6, <1>7, <1>8, <1>9, <1>10, <1>11
       DEF Next, Step, CallerStep, InstallStep, PayloadStep

LEMMA SurviveInit == Init => Survive
  BY DEF Init, Survive

LEMMA SurviveImplies == CallInv /\ Survive => OneFaultLosesNothing
  <1> SUFFICES ASSUME CallInv, Survive, cuts + io <= 1, NEW i \in DOMAIN db,
                      db[i].pkg \notin removed \union Big
               PROVE  {target[db[i].pkg], backup[db[i].pkg], staging[db[i].pkg], parts[db[i].pkg]}
                         \intersect Versions # {}
    BY DEF OneFaultLosesNothing, PayloadSurvives
  <1> DEFINE p == db[i].pkg
  <1>1. /\ TypeInv /\ Buffered /\ Phases /\ Current /\ db \in Tables
        /\ cuts \in Nat /\ io \in Nat
    BY DEF CallInv, VerifiedInv, TypeInv, FilesTyped, ControlTyped
  <1>2. p \in Pkgs \ (removed \union Big) /\ VersionIn(db, p) # 0
    BY <1>1, TableShape, VersionInFacts
  <1> HIDE DEF p
  <1>3. CASE Safe(p)
    BY <1>3 DEF Safe, p
  <1>4. CASE cuts = 0
    <2>1. Installed(p)
      BY <1>1, <1>2, <1>4 DEF Current
    <2> QED
      BY <1>2, <1>3, <1>4, <2>1, SafeWithoutCut
  <1>5. CASE cuts = 1 /\ io = 0
    <2>1. Safe(p) \/ (pc \in Placing /\ p = Top)
      BY <1>2, <1>5 DEF Survive
    <2>2. CASE pc \in Placing /\ p = Top
      <3>1. fr.staged
        BY <1>1, <1>2, <1>5, <2>2 DEF Phases, Buffered, Loaded, Checked, Placing
      <3>2. staging[Top] = avail[Top]
        BY <1>1, <2>2, <3>1 DEF Buffered, Checked, Placing
      <3>3. avail[Top] \in Versions
        BY <1>1, <2>2, TopType DEF Calls, Loaded, Checked
      <3> QED
        BY <2>2, <3>2, <3>3 DEF p
    <2> QED
      BY <1>3, <2>1, <2>2
  <1> QED
    BY <1>1, <1>4, <1>5

\* For every catalogue and every interleaving of calls: one power cut, or one
\* failed file operation, at any step of any install or update leaves each
\* package that db.idx lists a complete copy of its payload.
THEOREM OneFaultIsSurvived == Spec => []OneFaultLosesNothing
  <1>1. CallInv /\ Survive /\ [Next]_vars => (CallInv /\ Survive)'
    BY CallNext, SurviveNext
  <1> QED
    BY <1>1, CallInit, SurviveInit, SurviveImplies, PTL DEF Spec
=============================================================================

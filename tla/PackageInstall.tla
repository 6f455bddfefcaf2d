--------------------------- MODULE PackageInstall ---------------------------
(***************************************************************************)
(* The package adapter capypkg: capypkg_install with its dependency        *)
(* recursion, payload swap and metadata commit, capypkg_remove, the index  *)
(* fetch, and the first-boot sweep that installs the catalogue and then    *)
(* leaves bootstrap.done behind.                                           *)
(*                                                                         *)
(* One step is one file operation or one download; power may fail between  *)
(* any two steps and in the middle of a write.  Every CapyFS operation     *)
(* ends in an inode write that syncs the cache, so files reach the medium  *)
(* in the order of the operations.                                         *)
(*                                                                         *)
(* Abstractions.  A file's contents is the version whose bytes it holds,   *)
(* Absent, Torn (a cut or failed write) or Bad (bytes that fail the        *)
(* digest).  The catalogue is a function of the packages, 0 where a        *)
(* package is not listed; it comes from the default signed repository and  *)
(* the profile is FULL.  Dependencies do not change with the version.  Of  *)
(* a descriptor cut short after its signature the parser loses the         *)
(* dependencies; one cut before that is not listed (without a signature it *)
(* would be refused after the download).  A cut inside install_root or the *)
(* name of a dependency is not told apart from one just before it.         *)
(* Faults: in one call of capypkg_install at most one file operation       *)
(* fails, and once one failed the power holds until the call returns.      *)
(***************************************************************************)
EXTENDS Integers, Sequences, FiniteSets, SequencesExt

CONSTANTS
    N,              \* packages, numbered in catalogue order
    Deps,           \* Deps[p]: the sequence of packages p depends on
    Big,            \* packages over the file-size ceiling of the file system
    Signed,         \* packages with a signature of their own
    Listed,         \* packages the repository lists at first
    MaxVersion,     \* versions the repository publishes
    Budget,         \* recursion budget of install_dependencies (8)
    Attempts,       \* CAPYPKG_BOOTSTRAP_PKG_ATTEMPTS
    MaxInstalled,   \* CAPYPKG_MAX_INSTALLED
    DbCapacity,     \* entries with room for their required fields in
                    \* CAPYPKG_DB_BUFFER_BYTES
    CacheCapacity,  \* whole entries that fit in CAPYPKG_INDEX_BUFFER_BYTES
    MaxIo,          \* bound on failing file operations
    MaxNet,         \* bound on failing downloads and allocations
    MaxCuts,        \* bound on power cuts
    MaxCommands     \* bound on commands of the user and new publications

Pkgs     == 1..N
Versions == 1..MaxVersion
Absent   == 0
Bad      == -1
Torn     == -2
Contents == Versions \union {Absent, Bad, Torn}

ASSUME PackageAssumption ==
    /\ N \in Nat /\ MaxVersion \in Nat \ {0}
    /\ Deps \in [Pkgs -> Seq(Pkgs)]
    /\ Big \subseteq Pkgs /\ Signed \subseteq Pkgs
    /\ Listed \subseteq Pkgs /\ Listed # {}
    /\ {Budget, Attempts, MaxInstalled, DbCapacity, CacheCapacity} \subseteq Nat \ {0}
    /\ {MaxIo, MaxNet, MaxCuts, MaxCommands} \subseteq Nat

VARIABLES
    repo,           \* what the repository publishes now
    target,         \* <install_root>/<name>.bin
    backup,         \* <install_root>/<name>.bin.previous
    staging,        \* /var/capypkg/updates/<name>.bin
    parts,          \* <install_root>/payload.partNN
    marker,         \* <install_root>/installed
    db,             \* /system/capypkg/db.idx
    cache,          \* /system/capypkg/cache/index.txt, as its parser reads it
    done,           \* does bootstrap.done exist?
    table,          \* g_capypkg.installed
    avail,          \* g_capypkg.available
    auth,           \* catalog_authenticated of the available entries
    clip,           \* the available entry that lost its tail
    job,            \* "sweep" or "user": who called
    queue,          \* packages the caller has still to install
    tries,          \* attempts of the sweep at the head of queue
    failed,         \* packages the sweep could not install
    stack,          \* dependency recursion: the package asked for first
    pc,             \* next step of the call
    fr,             \* locals of the innermost capypkg_install
    removed,        \* history: packages capypkg_remove was called for
    bared,          \* history: installs that missed dependencies for a lost tail
    io, net, cuts, commands     \* counters for the bounds

files   == <<target, backup, staging, parts, marker, db, cache, done>>
ram     == <<table, avail, auth, clip>>
control == <<job, queue, tries, failed, stack>>
bounds  == <<io, net, cuts, commands>>
vars    == <<repo, files, ram, control, pc, fr, removed, bared, bounds>>

-----------------------------------------------------------------------------
(* The installed table and the files *)

Entry(p, v) == [pkg |-> p, ver |-> v]
NotListed   == [p \in Pkgs |-> 0]

\* capypkg_find_installed: the version of p in table t, 0 if it has none.
VersionIn(t, p) ==
    LET at == {i \in DOMAIN t : t[i].pkg = p}
    IN  IF at = {} THEN 0 ELSE t[CHOOSE i \in at : TRUE].ver
Installed(p) == VersionIn(table, p) # 0

\* append_or_replace_installed, for a table with room.
Put(t, p, v) ==
    IF VersionIn(t, p) = 0 THEN Append(t, Entry(p, v))
    ELSE [i \in DOMAIN t |-> IF t[i].pkg = p THEN Entry(p, v) ELSE t[i]]

\* remove_installed_at: the entries behind p's move up.
Drop(t, p) ==
    IF VersionIn(t, p) = 0 THEN t
    ELSE LET at == CHOOSE i \in DOMAIN t : t[i].pkg = p
         IN  [i \in 1..(Len(t) - 1) |-> IF i < at THEN t[i] ELSE t[i + 1]]

\* capypkg_db_serialize: what does not fit in the buffer is cut off.
Serialized(t) == SubSeq(t, 1, IF Len(t) < DbCapacity THEN Len(t) ELSE DbCapacity)

\* What a write of db.idx that did not complete may leave.
TornDb(t) == {db} \union {SubSeq(t, 1, k) : k \in 0..Len(t)}

\* The cached index: the catalogue, and the package whose entry lost its tail.
Whole == 0
Cached(c, p) == [ver |-> c, clip |-> p]
\* The index of catalogue c cut after n whole entries: the parser drops the next
\* one, or takes it without its dependencies.
CutAfter(c, n) ==
    LET Upto(k) == [p \in Pkgs |->
                       IF Cardinality({q \in 1..p : c[q] # 0}) <= k THEN c[p] ELSE 0]
    IN  {Cached(Upto(n), Whole)}
        \union {Cached(Upto(n + 1), p) :
                   p \in {q \in Pkgs : Upto(n)[q] # Upto(n + 1)[q] /\ Deps[q] # <<>>}}
\* capypkg_catalog_persist: what does not fit in the buffer is cut off.
CachedIndex(c) == CutAfter(c, CacheCapacity)
\* What a write of the cached index that did not complete may leave.
TornIndex(c) == {cache} \union UNION {CutAfter(c, n) : n \in 0..CacheCapacity}

Set(file, p, c) == [file EXCEPT ![p] = c]
\* What a write to p's file that did not complete may leave:
\* capypkg_runtime_write_bytes unlinks, creates, then writes.
Leftover(file, p) == {file, Set(file, p, Absent), Set(file, p, Torn)}

\* vfs_rename refuses a missing source and an existing destination.
CanRename(src, dst, p) == src[p] # Absent /\ dst[p] = Absent

-----------------------------------------------------------------------------
(* bootstrap_plan_build *)

DepSet(p) == Range(Deps[p])
\* Packages of the first k waves, of the targets T.
Placed(T) ==
    LET Holds(p, P) == \A d \in DepSet(p) : Installed(d) \/ d \notin T \/ d \in P
        f[k \in 0..N] == IF k = 0 THEN {}
                         ELSE f[k - 1] \union {p \in T : Holds(p, f[k - 1])}
    IN  f
Wave(T, p) ==
    LET at == {k \in 1..N : p \in Placed(T)[k]}
    IN  IF at = {} THEN N + 1 ELSE CHOOSE k \in at : \A j \in at : k <= j
\* The targets wave by wave, in catalogue order within a wave.
Before(T, p, q) == Wave(T, p) < Wave(T, q) \/ (Wave(T, p) = Wave(T, q) /\ p < q)
Plans(T) ==
    {s \in [1..Cardinality(T) -> T] :
        /\ IsInjective(s)
        /\ \A i \in 1..(Cardinality(T) - 1) : Before(T, s[i], s[i + 1])}

-----------------------------------------------------------------------------
(* Calls *)

NoFrame == [existing |-> FALSE, buf |-> Absent, staged |-> FALSE,
            atomic |-> FALSE, backed |-> FALSE, was |-> Absent, old |-> 0,
            resave |-> FALSE, hurt |-> FALSE, rc |-> "ok"]

Init ==
    /\ repo = [p \in Pkgs |-> IF p \in Listed THEN 1 ELSE 0]
    /\ target = [p \in Pkgs |-> Absent]
    /\ backup = target /\ staging = target /\ parts = target /\ marker = target
    /\ db = <<>> /\ cache = Cached(NotListed, Whole) /\ done = FALSE
    /\ table = <<>> /\ avail = NotListed /\ auth = FALSE /\ clip = Whole
    /\ job = "user" /\ queue = <<>> /\ tries = 0 /\ failed = 0 /\ stack = <<>>
    /\ pc = "idle" /\ fr = NoFrame
    /\ removed = {} /\ bared = {}
    /\ io = 0 /\ net = 0 /\ cuts = 0 /\ commands = 0

Top == Last(stack)
Goto(label) == pc' = label
\* This step of the call fails; no other of the call does.
IoFails  == ~fr.hurt /\ io < MaxIo /\ io' = io + 1
NetFails == net < MaxNet /\ net' = net + 1
\* A whole-file write of a package that is too big fails every time.
WriteFails(p) == IF p \in Big THEN UNCHANGED io ELSE IoFails
Hurt(f) == [f EXCEPT !.hurt = TRUE]
Code(f, c) == [f EXCEPT !.rc = c]

Command == pc = "idle" /\ commands < MaxCommands /\ commands' = commands + 1

\* capypkg_install, capypkg_update and capypkg_update_all of the shell and of
\* the software centre.
Ask ==
    /\ Command
    /\ \/ \E p \in Pkgs : queue' = <<p>>
       \/ table # <<>> /\ queue' = [i \in DOMAIN table |-> table[i].pkg]
    /\ job' = "user" /\ tries' = 0 /\ failed' = 0
    /\ Goto("next")
    /\ UNCHANGED <<repo, files, ram, stack, fr, removed, bared, io, net, cuts>>

\* pkg-refresh
Refresh ==
    /\ Command
    /\ job' = "user" /\ Goto("index")
    /\ UNCHANGED <<repo, files, ram, queue, tries, failed, stack, fr, removed, bared,
                   io, net, cuts>>

\* capypkg_bootstrap_run(1) of the shell.
Forced ==
    /\ Command
    /\ job' = "sweep" /\ Goto("index")
    /\ UNCHANGED <<repo, files, ram, queue, tries, failed, stack, fr, removed, bared,
                   io, net, cuts>>

\* Mutant of Poll: a sweep that failed is not tried again.
PollOnce ==
    /\ pc = "idle" /\ ~done /\ failed = 0
    /\ job' = "sweep" /\ Goto("index")
    /\ UNCHANGED <<repo, files, ram, queue, tries, failed, stack, fr, removed, bared, bounds>>

\* kernel_capypkg_maybe_bootstrap: the service poll, while the marker is absent.
Poll ==
    /\ pc = "idle" /\ ~done
    /\ job' = "sweep" /\ Goto("index")
    /\ UNCHANGED <<repo, files, ram, queue, tries, failed, stack, fr, removed, bared, bounds>>

\* capypkg_fetch_index, and the plan the sweep makes of a fresh catalogue.
Index ==
    /\ pc = "index"
    /\ \/ /\ avail' = repo /\ auth' = TRUE /\ UNCHANGED net
          /\ \/ cache' \in CachedIndex(repo) /\ UNCHANGED io
             \/ IoFails /\ cache' \in TornIndex(repo)
          /\ queue' \in IF job = "sweep" THEN Plans({p \in Pkgs : repo[p] # 0}) ELSE {<<>>}
          /\ tries' = 0 /\ failed' = 0
          /\ Goto("next")
       \/ /\ NetFails
          /\ avail' = NotListed
          /\ Goto("idle")
          /\ UNCHANGED <<auth, cache, queue, tries, failed, io>>
    /\ clip' = Whole
    /\ UNCHANGED <<repo, target, backup, staging, parts, marker, db, done, table,
                   job, stack, fr, removed, bared, cuts, commands>>

\* Mutant of SweepClean: a failed package does not count.
SweepCleanAlways == job = "sweep"

\* The sweep installed all it planned.
SweepClean == job = "sweep" /\ failed = 0

\* The caller's loop and the entry of capypkg_install: the package at the head
\* of the queue is not listed, already at the catalogue's version, or installed.
NextPkg ==
    /\ pc = "next"
    /\ \/ /\ queue = <<>>
          /\ Goto(IF SweepClean THEN "finish" ELSE "idle")
          /\ UNCHANGED <<queue, tries, failed, stack>>
       \/ /\ queue # <<>>
          /\ LET p == Head(queue) IN
                IF avail[p] \in {0, VersionIn(table, p)}
                THEN /\ failed' = IF avail[p] = 0 THEN failed + 1 ELSE failed
                     /\ queue' = Tail(queue) /\ tries' = 0
                     /\ UNCHANGED <<stack, pc>>
                ELSE /\ stack' = <<p>> /\ tries' = tries + 1
                     /\ Goto("resolve")
                     /\ UNCHANGED <<failed, queue>>
    /\ fr' = NoFrame
    /\ UNCHANGED <<repo, files, ram, job, removed, bared, bounds>>

\* Where the dependencies of Top that are not installed stand, and the first;
\* an entry that lost its tail names none.
Missing == {i \in DOMAIN Deps[Top] : Top # clip /\ ~Installed(Deps[Top][i])}
NextDep == Deps[Top][CHOOSE i \in Missing : \A j \in Missing : i <= j]

\* Mutant of Resolve: a dependency that cannot be installed is passed over.
ResolveLenient ==
    /\ pc = "resolve"
    /\ IF Missing # {} /\ avail[NextDep] # 0 /\ Len(stack) < Budget
       THEN stack' = Append(stack, NextDep) /\ UNCHANGED pc
       ELSE Goto("fetch") /\ UNCHANGED stack
    /\ UNCHANGED <<repo, files, ram, job, queue, tries, failed, fr, removed, bared, bounds>>

\* install_dependencies: the first dependency that is not installed is
\* installed first, while the budget lasts.
Resolve ==
    /\ pc = "resolve"
    /\ IF Missing = {} THEN Goto("fetch") /\ UNCHANGED <<stack, fr>>
       ELSE IF avail[NextDep] # 0 /\ Len(stack) < Budget
            THEN stack' = Append(stack, NextDep) /\ UNCHANGED <<pc, fr>>
            ELSE fr' = Code(fr, "refused") /\ Goto("return") /\ UNCHANGED stack
    /\ bared' = IF \E d \in DepSet(Top) : Top = clip /\ ~Installed(d)
                THEN bared \union {Top} ELSE bared
    /\ UNCHANGED <<repo, files, ram, job, queue, tries, failed, removed, bounds>>

\* The allocation of the buffer and the download of payload_url.
Fetch ==
    /\ pc = "fetch"
    /\ LET f == [NoFrame EXCEPT !.existing = Installed(Top), !.buf = avail[Top]] IN
          \/ fr' = f /\ Goto("stage") /\ UNCHANGED net
          \/ NetFails /\ fr' = [f EXCEPT !.buf = Bad] /\ Goto("stage")
          \/ NetFails /\ fr' \in {Code(f, "again"), Code(f, "refused")} /\ Goto("return")
    /\ UNCHANGED <<repo, files, ram, control, removed, bared, io, cuts, commands>>

Stage ==
    /\ pc = "stage"
    /\ \/ /\ Top \notin Big
          /\ staging' = Set(staging, Top, fr.buf)
          /\ fr' = [fr EXCEPT !.staged = TRUE]
          /\ UNCHANGED io
       \/ /\ WriteFails(Top)
          /\ staging' \in Leftover(staging, Top)
          /\ fr' = IF Top \in Big THEN fr ELSE Hurt(fr)
    /\ Goto("verify")
    /\ UNCHANGED <<repo, target, backup, parts, marker, db, cache, done, ram,
                   control, removed, bared, net, cuts, commands>>

\* Mutant of Verify: an authenticated catalogue waives the digest too.
VerifyTrusts ==
    /\ pc = "verify"
    /\ IF ~auth /\ fr.buf = Bad THEN fr' = Code(fr, "again") /\ Goto("return")
       ELSE IF ~auth /\ Top \notin Signed THEN fr' = Code(fr, "refused") /\ Goto("return")
       ELSE Goto(IF fr.staged THEN "drop" ELSE "write") /\ UNCHANGED fr
    /\ UNCHANGED <<repo, files, ram, control, removed, bared, bounds>>

\* capypkg_verify_payload and verify_signature_if_required
Verify ==
    /\ pc = "verify"
    /\ IF fr.buf = Bad THEN fr' = Code(fr, "again") /\ Goto("return")
       ELSE IF ~auth /\ Top \notin Signed THEN fr' = Code(fr, "refused") /\ Goto("return")
       ELSE Goto(IF fr.staged THEN "drop" ELSE "write") /\ UNCHANGED fr
    /\ UNCHANGED <<repo, files, ram, control, removed, bared, bounds>>

-----------------------------------------------------------------------------
(* The payload swap *)

\* remove(backup)
DropBackup ==
    /\ pc = "drop" /\ Goto("keep")
    /\ \/ backup' = Set(backup, Top, Absent) /\ UNCHANGED <<io, fr>>
       \/ IoFails /\ fr' = Hurt(fr) /\ UNCHANGED backup
    /\ UNCHANGED <<repo, target, staging, parts, marker, db, cache, done, ram,
                   control, removed, bared, net, cuts, commands>>

\* Mutant of Keep: the old payload is removed.
KeepRemoves ==
    /\ pc = "keep" /\ Goto("swap")
    /\ target' = IF fr.existing THEN Set(target, Top, Absent) ELSE target
    /\ UNCHANGED <<repo, backup, staging, parts, marker, db, cache, done, ram, control,
                   fr, removed, bared, bounds>>

\* rename(target, backup), for a package that is installed.
Keep ==
    /\ pc = "keep" /\ Goto("swap")
    /\ \/ /\ fr.existing /\ CanRename(target, backup, Top)
          /\ backup' = Set(backup, Top, target[Top])
          /\ target' = Set(target, Top, Absent)
          /\ fr' = [fr EXCEPT !.backed = TRUE]
          /\ UNCHANGED io
       \/ /\ ~(fr.existing /\ CanRename(target, backup, Top))
          /\ UNCHANGED <<target, backup, fr, io>>
       \/ /\ fr.existing /\ IoFails
          /\ fr' = Hurt(fr)
          /\ UNCHANGED <<target, backup>>
    /\ UNCHANGED <<repo, staging, parts, marker, db, cache, done, ram, control,
                   removed, bared, net, cuts, commands>>

\* rename(staging, target); if it fails the backup is renamed back.
Swap ==
    /\ pc = "swap"
    /\ \/ /\ CanRename(staging, target, Top)
          /\ target' = Set(target, Top, staging[Top])
          /\ staging' = Set(staging, Top, Absent)
          /\ fr' = [fr EXCEPT !.atomic = TRUE, !.staged = FALSE]
          /\ Goto("clean")
          /\ UNCHANGED <<backup, io>>
       \/ /\ IF CanRename(staging, target, Top)
             THEN IoFails /\ fr' = [Hurt(fr) EXCEPT !.backed = FALSE]
             ELSE UNCHANGED io /\ fr' = [fr EXCEPT !.backed = FALSE]
          /\ IF fr.backed
             THEN /\ target' = Set(target, Top, backup[Top])
                  /\ backup' = Set(backup, Top, Absent)
             ELSE UNCHANGED <<target, backup>>
          /\ Goto("write")
          /\ UNCHANGED staging
    /\ UNCHANGED <<repo, parts, marker, db, cache, done, ram, control, removed, bared,
                   net, cuts, commands>>

\* Without the swap the payload is written in place, and in parts when that
\* fails (target is removed first).
WriteTarget ==
    /\ pc = "write"
    /\ \/ /\ Top \notin Big
          /\ target' = Set(target, Top, fr.buf)
          /\ Goto("clean")
          /\ UNCHANGED <<io, fr>>
       \/ /\ WriteFails(Top)
          /\ target' = Set(target, Top, Absent)
          /\ fr' = IF Top \in Big THEN fr ELSE Hurt(fr)
          /\ Goto("parts")
    /\ UNCHANGED <<repo, backup, staging, parts, marker, db, cache, done, ram,
                   control, removed, bared, net, cuts, commands>>

WriteParts ==
    /\ pc = "parts"
    /\ \/ parts' = Set(parts, Top, fr.buf) /\ Goto("clean") /\ UNCHANGED <<io, fr>>
       \/ /\ IoFails
          /\ parts' \in Leftover(parts, Top)
          /\ fr' = Hurt(Code(fr, "again"))
          /\ Goto("return")
    /\ UNCHANGED <<repo, target, backup, staging, marker, db, cache, done, ram,
                   control, removed, bared, net, cuts, commands>>

\* cleanup_payload_staging
CleanStaging ==
    /\ pc = "clean" /\ Goto("marker")
    /\ \/ /\ staging' = IF fr.staged THEN Set(staging, Top, Absent) ELSE staging
          /\ UNCHANGED <<io, fr>>
       \/ fr.staged /\ IoFails /\ fr' = Hurt(fr) /\ UNCHANGED staging
    /\ UNCHANGED <<repo, target, backup, parts, marker, db, cache, done, ram,
                   control, removed, bared, net, cuts, commands>>

-----------------------------------------------------------------------------
(* commit_install_metadata *)

\* capture_install_commit_snapshot; the marker may turn out unreadable.
Snapshot(f, p, readable) ==
    [f EXCEPT !.old = VersionIn(table, p),
              !.was = IF Installed(p) /\ readable THEN marker[p] ELSE Absent]

\* The snapshot and write_installed_marker.
WriteMarker ==
    /\ pc = "marker"
    /\ LET f == Snapshot(fr, Top, TRUE) IN
          \/ /\ marker' = Set(marker, Top, avail[Top])
             /\ \/ fr' = f /\ UNCHANGED io
                \/ IoFails /\ fr' = Hurt(Snapshot(fr, Top, FALSE))
             /\ Goto("save")
          \/ /\ IoFails
             /\ marker' \in Leftover(marker, Top)
             /\ fr' = Hurt(Code(f, "again"))
             /\ Goto("undo")
    /\ UNCHANGED <<repo, target, backup, staging, parts, db, cache, done, ram,
                   control, removed, bared, net, cuts, commands>>

\* Mutant of Full: off by one.
FullLate == ~Installed(Top) /\ Len(table) > MaxInstalled

\* The table has no room for another package.
Full == ~Installed(Top) /\ Len(table) >= MaxInstalled

\* append_or_replace_installed, then capypkg_db_save.
Save ==
    /\ pc = "save"
    /\ LET t == Put(table, Top, avail[Top])
       IN \/ /\ Full
             /\ fr' = Hurt(Code(fr, "refused")) /\ Goto("undo")
             /\ UNCHANGED <<table, db, io>>
          \/ /\ ~Full
             /\ table' = t /\ db' = Serialized(t)
             /\ Goto("commit")
             /\ UNCHANGED <<fr, io>>
          \/ /\ ~Full /\ IoFails
             /\ table' = t /\ db' \in TornDb(Serialized(t))
             /\ fr' = [Hurt(Code(fr, "again")) EXCEPT !.resave = TRUE]
             /\ Goto("undo")
    /\ UNCHANGED <<repo, target, backup, staging, parts, marker, cache, done, avail,
                   auth, clip, control, removed, bared, net, cuts, commands>>

\* Mutant of RestoredTable: the entry stays.
RestoredTableKeeps == table

\* rollback_install_commit on the table and on the marker.
RestoredTable == IF fr.old = 0 THEN Drop(table, Top) ELSE Put(table, Top, fr.old)
RestoredMarker == Set(marker, Top, fr.was)
\* The payload after a failed commit: target is removed if the swap put it
\* there, and the backup comes back.
RestoredTarget ==
    LET kept == IF fr.atomic THEN Set(target, Top, Absent) ELSE target
    IN  IF fr.backed /\ CanRename(backup, kept, Top) THEN Set(kept, Top, backup[Top])
        ELSE kept
\* The rollback: table and marker, db.idx if it was written, and the payload.
Undo ==
    /\ pc = "undo" /\ Goto("return")
    /\ table' = RestoredTable
    /\ marker' = RestoredMarker
    /\ db' = IF fr.resave THEN Serialized(RestoredTable) ELSE db
    /\ target' = RestoredTarget
    /\ backup' = IF fr.backed THEN Set(backup, Top, Absent) ELSE backup
    /\ UNCHANGED <<repo, staging, parts, cache, done, avail, auth, clip, control, fr,
                   removed, bared, bounds>>

\* The end of a successful install: remove(backup).
Commit ==
    /\ pc = "commit" /\ Goto("return")
    /\ \/ /\ backup' = IF fr.backed THEN Set(backup, Top, Absent) ELSE backup
          /\ UNCHANGED <<io, fr>>
       \/ fr.backed /\ IoFails /\ fr' = Hurt(fr) /\ UNCHANGED backup
    /\ UNCHANGED <<repo, target, staging, parts, marker, db, cache, done, ram,
                   control, removed, bared, net, cuts, commands>>

-----------------------------------------------------------------------------
(* Returns, removal, power *)

\* capypkg_install returns: to install_dependencies, which goes on after a
\* success and gives up after a failure; to bootstrap_install_one_with_retry,
\* which tries again after a fetch, storage or digest error; or to the shell.
Return ==
    /\ pc = "return"
    /\ fr' = NoFrame
    /\ IF fr.rc = "ok" /\ Len(stack) > 1
       THEN stack' = Front(stack) /\ Goto("resolve") /\ UNCHANGED <<queue, tries, failed>>
       ELSE /\ stack' = <<>> /\ Goto("next")
            /\ IF fr.rc = "again" /\ job = "sweep" /\ tries < Attempts
               THEN UNCHANGED <<queue, tries, failed>>
               ELSE /\ queue' = Tail(queue) /\ tries' = 0
                    /\ failed' = IF fr.rc = "ok" THEN failed ELSE failed + 1
    /\ UNCHANGED <<repo, files, ram, job, removed, bared, bounds>>

\* profile_write_marker(INSTALL_PROFILE_BOOTSTRAP_DONE)
Finish ==
    /\ pc = "finish" /\ Goto("idle")
    /\ \/ done' = TRUE /\ UNCHANGED io
       \/ IoFails /\ done' \in {done, FALSE}
    /\ UNCHANGED <<repo, target, backup, staging, parts, marker, db, cache, ram,
                   control, fr, removed, bared, net, cuts, commands>>

\* capypkg_remove, as far as the removal of target ...
RemovePkg ==
    /\ Command
    /\ \E p \in Pkgs :
          /\ Installed(p)
          /\ stack' = <<p>>
          /\ removed' = removed \union {p}
          /\ \/ target' = Set(target, p, Absent) /\ UNCHANGED <<io, fr>>
             \/ IoFails /\ fr' = Hurt(fr) /\ UNCHANGED target
    /\ Goto("forget")
    /\ UNCHANGED <<repo, backup, staging, parts, marker, db, cache, done, ram, job,
                   queue, tries, failed, bared, net, cuts>>

\* ... and the table entry with capypkg_db_save.
Forget ==
    /\ pc = "forget" /\ Goto("idle")
    /\ table' = Drop(table, Top)
    /\ \/ db' = Serialized(table') /\ UNCHANGED io
       \/ IoFails /\ db' \in TornDb(Serialized(table'))
    /\ stack' = <<>> /\ fr' = NoFrame
    /\ UNCHANGED <<repo, target, backup, staging, parts, marker, cache, done, avail,
                   auth, clip, job, queue, tries, failed, removed, bared, net, cuts, commands>>

\* The repository publishes a package, or a new version of one.
Publish ==
    /\ Command
    /\ \E p \in Pkgs : repo[p] < MaxVersion /\ repo' = Set(repo, p, repo[p] + 1)
    /\ UNCHANGED <<files, ram, control, pc, fr, removed, bared, io, net, cuts>>

\* A write that the power cut interrupts leaves what a failed one may leave.
Interrupted(file, label) == IF pc = label THEN Leftover(file, Top) ELSE {file}

PowerCut ==
    /\ pc # "off" /\ ~fr.hurt /\ cuts < MaxCuts
    /\ cuts' = cuts + 1
    /\ staging' \in Interrupted(staging, "stage")
    /\ target' \in Interrupted(target, "write")
    /\ parts' \in Interrupted(parts, "parts")
    /\ marker' \in Interrupted(marker, "marker")
    /\ db' \in CASE pc = "save" /\ ~Full -> TornDb(Serialized(Put(table, Top, avail[Top])))
                 [] pc = "forget"       -> TornDb(Serialized(Drop(table, Top)))
                 [] OTHER               -> {db}
    /\ done' \in IF pc = "finish" THEN BOOLEAN ELSE {done}
    /\ cache' \in IF pc = "index" THEN TornIndex(repo) ELSE {cache}
    /\ table' = <<>> /\ avail' = NotListed /\ auth' = FALSE /\ clip' = Whole
    /\ job' = "user" /\ queue' = <<>> /\ tries' = 0 /\ failed' = 0 /\ stack' = <<>>
    /\ fr' = NoFrame
    /\ Goto("off")
    /\ UNCHANGED <<repo, backup, removed, bared, io, net, commands>>

\* capypkg_init: db.idx and the cached index, which carries no authentication.
Boot ==
    /\ pc = "off" /\ Goto("idle")
    /\ table' = db
    /\ avail' = cache.ver /\ clip' = cache.clip
    /\ UNCHANGED <<repo, files, auth, control, fr, removed, bared, bounds>>

Step ==
    \/ Index \/ NextPkg \/ Resolve \/ Fetch \/ Stage \/ Verify
    \/ DropBackup \/ Keep \/ Swap \/ WriteTarget \/ WriteParts \/ CleanStaging
    \/ WriteMarker \/ Save \/ Undo \/ Commit \/ Return \/ Finish \/ Forget \/ Boot

Next ==
    \/ Step \/ Poll \/ Ask \/ Refresh \/ Forced \/ RemovePkg \/ Publish \/ PowerCut

Spec == Init /\ [][Next]_vars
\* A call that has begun runs to its end, and between the commands of the user
\* the service manager keeps polling.
FairSpec == Spec /\ WF_vars(Step) /\ WF_vars(Poll)
-----------------------------------------------------------------------------
(* Properties *)

TypeOK ==
    /\ {repo, cache.ver, avail} \subseteq [Pkgs -> 0..MaxVersion]
    /\ {target, backup, staging, parts, marker} \subseteq [Pkgs -> Contents]
    /\ \A t \in {table, db} :
          /\ t \in Seq([pkg : Pkgs, ver : Versions])
          /\ Len(t) <= MaxInstalled
          /\ \A i, j \in DOMAIN t : t[i].pkg = t[j].pkg => i = j
    /\ stack \in Seq(Pkgs) /\ Len(stack) <= Budget
    /\ queue \in Seq(Pkgs)
    /\ tries \in 0..Attempts /\ failed \in 0..N
    /\ fr.rc \in {"ok", "again", "refused"}

\* The bytes a loader of p finds.
Payload(p) == IF target[p] # Absent THEN target[p] ELSE parts[p]

\* Bytes that did not pass capypkg_verify_payload never sit where payloads are
\* loaded from, whatever attempts, failed writes and cuts came before: a
\* rejected download stays in the staging area, which a later install of the
\* same package may fail to overwrite.
NoUnverified == \A p \in Pkgs : Bad \notin {target[p], parts[p], backup[p]}

\* Between calls, on a machine that never lost power, the installed table, the
\* database, the marker the module gate reads and the payload agree: a failure
\* at any step of an install or update leaves the package as it was.  The
\* database agrees as far as its buffer reaches (PackageTruncated.cfg).
Agreement ==
    pc = "idle" /\ cuts = 0 =>
        /\ removed = {} => db = Serialized(table)
        /\ \A p \in Pkgs \ removed :
            /\ marker[p] = VersionIn(table, p)
            /\ Installed(p) /\ p \notin Big => Payload(p) = VersionIn(table, p)

\* capypkg_install.c, lines 508-511: no installed entry is left in memory only,
\* to disappear at the next boot.
NoMemoryOnly ==
    pc = "idle" /\ cuts = 0 /\ removed = {} =>
        \A p \in Pkgs : VersionIn(db, p) = VersionIn(table, p)

\* What the database lists as installed has a complete copy of its payload on
\* the medium, power cuts included: in place, as the backup, or staged.
PayloadSurvives ==
    \A i \in DOMAIN db :
        LET p == db[i].pkg
        IN  p \notin removed \union Big =>
                {target[p], backup[p], staging[p], parts[p]} \intersect Versions # {}

\* One fault, a power cut or a failed operation at any step of any install,
\* does not destroy the last complete copy of an installed package.
OneFaultLosesNothing == cuts + io <= 1 => PayloadSurvives

\* As long as nothing was removed, every installed package has its dependencies
\* installed, in memory and in the database, torn or cut off or not; but for an
\* install by a cached entry that had lost them (PackageBare.cfg).
DepsClosed ==
    removed = {} =>
        \A t \in {table, db} : \A i \in DOMAIN t :
            \A d \in DepSet(t[i].pkg) : VersionIn(t, d) # 0 \/ t[i].pkg \in bared

\* capypkg_install.c, line 12: missing dependencies are installed first.
DepsFirst == removed = {} => bared = {}

\* The installed table and db.idx stay within their quotas, list no package
\* twice, and are closed under dependencies.
DbSound == TypeOK /\ DepsClosed

\* When the sweep leaves bootstrap.done behind, which stops it for good, the
\* packages of P that its catalogue lists are active: payload, marker and table
\* entry are of the version the catalogue lists, and the database holds of the
\* table what its buffer does.
ActiveWhenDone(P) ==
    done' /\ ~done =>
        /\ removed = {} => db = Serialized(table)
        /\ \A p \in P \ removed :
              avail[p] # 0 => {Payload(p), marker[p], VersionIn(table, p)} = {avail[p]}
DoneAlwaysActive == [][ActiveWhenDone(Pkgs)]_vars

\* The mark of the first-boot sweep means that its whole catalogue is active, as
\* long as the power held, whatever else failed; after one power cut it still
\* means so for the packages that are stored in one file. More is not true
\* (PackageStale.cfg, PackageParts.cfg): a cut brings back a cached catalogue older
\* than the database, and an update to its older version can be cut, or tear in
\* the parts, where the sweep then sees versions agree.
DoneMeansActive ==
    [][/\ cuts = 0 => ActiveWhenDone(Pkgs)
       /\ cuts = 1 => ActiveWhenDone(Pkgs \ Big)]_vars

\* Downloads and writes that fail now and then and power cuts do not keep the
\* first-boot sweep from completing, unless the table has no room for the
\* catalogue.
Overfull ==
    Cardinality({p \in Pkgs : repo[p] # 0 \/ Installed(p)}) > MaxInstalled
BootstrapCompletes == <>(done \/ Overfull)
=============================================================================

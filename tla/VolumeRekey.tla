----------------------------- MODULE VolumeRekey -----------------------------
(***************************************************************************)
(* The in-place migration of a legacy encrypted volume (PBKDF2 keys, CAPYFS *)
(* from LBA 0) to a header-managed one (Argon2id keys named by a header at  *)
(* LBA 0, CAPYFS from LBA 1), as driven by repeated calls of                *)
(* volume_provider_rekey_execute_orchestrated_step.                         *)
(*                                                                          *)
(* A call reads LBA 0 and the scratch block, decides what is next, and does *)
(* at most two writes.  The writes are separate actions: power can go, a    *)
(* transfer or a read-back can fail, or the sectors of one block can be     *)
(* written in part, between any two of them.  Nothing survives in memory    *)
(* between calls: the next one starts from the medium alone, with either    *)
(* flag.  The history variables record what no call can see: that the data  *)
(* is one block ahead of the checkpoint, and that a call went the other way *)
(* from there.  They constrain nothing.                                     *)
(*                                                                          *)
(* A block is kept as the key it was written under, the logical address it  *)
(* was tweaked with and the plaintext it holds, so that reading it through  *)
(* the wrong key or at the wrong address yields noise, as XTS does.         *)
(***************************************************************************)
EXTENDS Integers

CONSTANTS
    N,            \* capyfs_block_count of the volume being migrated
    Raw,          \* blocks of the raw device
    MaxStages,    \* bound on the headers staged, each with a fresh salt
    MaxFaults     \* bound on the calls cut short

ASSUME GeometryAssumption == N \in Nat /\ N >= 2 /\ Raw \in Nat
ASSUME BoundAssumption == MaxStages \in Nat /\ MaxFaults \in Nat

VARIABLES
    disk,      \* LBAs 0..N of the raw device
    scratch,   \* LBA N+1: checkpoint, staged header and manifest
    gen,       \* headers staged so far: the next one has a new salt
    pc,        \* where the running call is
    abort,     \* ORCHESTRATE_ABORT of the running or last call
    status,    \* the class of status the last call reported
    faults,    \* calls cut short so far
    ahead,     \* history: whose data write got ahead of the checkpoint
    reversed   \* history: a call of the other direction acted on that

vars == <<disk, scratch, gen, pc, abort, status, faults, ahead, reversed>>

Blocks == 0 .. N - 1
Noise == -1
HeaderMark == -2
LegacyKey == 0

Cells == [key : Nat, at : Int, plain : Int]
Cipher(k, b, p) == [key |-> k, at |-> b, plain |-> p]
HeaderCell(k) == Cipher(k, HeaderMark, Noise)
Damaged == Cipher(LegacyKey, Noise, Noise)

Zero == [kind |-> "zero", key |-> 0, done |-> 0, flags |-> "in_progress"]
Foreign == [kind |-> "foreign", key |-> 0, done |-> 0, flags |-> "in_progress"]
Staged(k, c, f) == [kind |-> "staged", key |-> k, done |-> c, flags |-> f]
\* A scratch block of which only some sectors reached the medium: the manifest's
\* checksums no longer fit.  The header's sector is the old one or the new one.
TornScratch(k) == [kind |-> "torn", key |-> k, done |-> 0, flags |-> "in_progress"]

-----------------------------------------------------------------------------
(* Reading the medium *)

\* block_device_read through a crypt device: noise unless key and tweak fit.
Decrypt(k, b, lba) ==
    IF disk[lba].key = k /\ disk[lba].at = b THEN disk[lba].plain ELSE Noise

HeaderLooksValid == disk[0].at = HeaderMark

\* volume_provider_open: the header decides; without one, the legacy keys.
Opened(b) == IF HeaderLooksValid THEN Decrypt(disk[0].key, b, b + 1)
                                 ELSE Decrypt(LegacyKey, b, b)

\* volume_provider_rekey_plan: a legacy CAPYFS superblock, and a raw block
\* behind the shifted volume for the scratch.
PlanReady == /\ Decrypt(LegacyKey, 0, 0) = 0
             /\ N < Raw - 1

\* Checkpoint, manifest and staged header parse, and their checksums agree.
ScratchValid == scratch.kind = "staged"

\* Mutant of Decision: the phase bits of the commit are asked for beforehand.
DecisionNeverCommits(a) ==
    IF HeaderLooksValid \/ ~PlanReady \/ ~(ScratchValid \/ scratch = Zero) THEN "refused"
    ELSE IF scratch = Zero THEN (IF a THEN "not_needed" ELSE "stage")
    ELSE IF a THEN (IF scratch.done <= 1 THEN "forget" ELSE "restore")
    ELSE IF scratch.done < N THEN "copy" ELSE "refused"

\* Mutant of Decision: an abort is refused once every block has been copied.
DecisionNoLateAbort(a) ==
    IF HeaderLooksValid \/ ~PlanReady \/ ~(ScratchValid \/ scratch = Zero) THEN "refused"
    ELSE IF scratch = Zero THEN (IF a THEN "not_needed" ELSE "stage")
    ELSE IF a THEN (IF scratch.done <= 1 THEN "forget"
                    ELSE IF scratch.done < N THEN "restore" ELSE "refused")
    ELSE IF scratch.done < N THEN "copy" ELSE "commit"

\* Mutant of Decision: cleanup accepts only a checkpoint still in progress.
DecisionKeepsScratch(a) ==
    IF HeaderLooksValid
    THEN IF Opened(0) = 0 /\ ScratchValid /\ scratch.flags = "in_progress"
         THEN "cleanup" ELSE "refused"
    ELSE IF ~PlanReady \/ ~(ScratchValid \/ scratch = Zero) THEN "refused"
    ELSE IF scratch = Zero THEN (IF a THEN "not_needed" ELSE "stage")
    ELSE IF a THEN (IF scratch.done <= 1 THEN "forget" ELSE "restore")
    ELSE IF scratch.done < N THEN "copy" ELSE "commit"

\* What an orchestrated call does next.
Decision(a) ==
    IF HeaderLooksValid
    THEN IF Opened(0) = 0 /\ ScratchValid /\ scratch.flags = "completed"
         THEN "cleanup"
         ELSE IF Opened(0) = 0 /\ scratch = Zero THEN "not_needed" ELSE "refused"
    ELSE IF ~PlanReady THEN "refused"
    ELSE IF scratch = Zero THEN (IF a THEN "not_needed" ELSE "stage")
    ELSE IF ~ScratchValid \/ scratch.flags = "completed" THEN "refused"
    ELSE IF a THEN (IF scratch.done <= 1 THEN "forget" ELSE "restore")
    ELSE IF scratch.done < N THEN "copy" ELSE "commit"

Answers == {"not_needed", "refused"}
Steps == {"stage", "copy", "copied", "commit", "committed",
          "restore", "restored", "forget", "cleanup"}

-----------------------------------------------------------------------------
(* The calls *)

Init ==
    /\ disk = [l \in 0 .. N |-> IF l < N THEN Cipher(LegacyKey, l, l) ELSE Damaged]
    /\ scratch \in {Zero, Foreign}
    /\ gen = 0
    /\ pc = "idle"
    /\ abort = FALSE
    /\ status = "none"
    /\ faults = 0
    /\ ahead = "none"
    /\ reversed = FALSE

Direction(a) == IF a THEN "abort" ELSE "forward"

\* volume_provider_rekey_execute_orchestrated_step up to the first write.
Call(a) ==
    /\ pc = "idle"
    /\ Decision(a) = "stage" => gen < MaxStages
    /\ abort' = a
    /\ IF Decision(a) \in Answers
       THEN /\ status' = Decision(a)
            /\ pc' = "idle"
            /\ UNCHANGED reversed
       ELSE /\ pc' = Decision(a)
            /\ status' = "none"
            /\ reversed' = (reversed \/ ahead \notin {"none", Direction(a)})
    /\ UNCHANGED <<disk, scratch, gen, faults, ahead>>

\* The end of a call that did all it set out to do.
Return(s) ==
    /\ pc' = "idle"
    /\ status' = s
    /\ ahead' = "none"
    /\ UNCHANGED <<abort, faults, reversed>>

\* volume_provider_rekey_execute_stage_header: a header with a fresh salt.
Stage ==
    /\ pc = "stage"
    /\ gen' = gen + 1
    /\ scratch' = Staged(gen + 1, 0, "in_progress")
    /\ Return("staged")
    /\ UNCHANGED disk

\* Mutant of CopyData: all the blocks left are written, one is counted.
CopyDataAll ==
    /\ pc = "copy"
    /\ disk' = [l \in 0 .. N |->
                   IF l \in 1 .. N - scratch.done
                   THEN Cipher(scratch.key, l - 1, Decrypt(LegacyKey, l - 1, l - 1))
                   ELSE disk[l]]
    /\ pc' = "copied"
    /\ UNCHANGED <<scratch, gen, abort, status, faults, ahead, reversed>>

\* volume_provider_rekey_execute_copy_step: the next block from the end is
\* read under the legacy keys and written one LBA up under the header's.
CopyData ==
    /\ pc = "copy"
    /\ LET b == N - 1 - scratch.done
       IN  disk' = [disk EXCEPT ![b + 1] =
                        Cipher(scratch.key, b, Decrypt(LegacyKey, b, b))]
    /\ pc' = "copied"
    /\ UNCHANGED <<scratch, gen, abort, status, faults, ahead, reversed>>

CopyCheckpoint ==
    /\ pc = "copied"
    /\ scratch' = Staged(scratch.key, scratch.done + 1, "in_progress")
    /\ Return("copied")
    /\ UNCHANGED <<disk, gen>>

\* volume_provider_rekey_execute_commit_header: the staged header over LBA 0.
CommitHeader ==
    /\ pc = "commit"
    /\ disk' = [disk EXCEPT ![0] = HeaderCell(scratch.key)]
    /\ pc' = "committed"
    /\ UNCHANGED <<scratch, gen, abort, status, faults, ahead, reversed>>

\* Mutant of CommitCheckpoint: the header is tried out and the superblock saved
\* before it is put back until the checkpoint is marked.
CommitCheckpointUndoes ==
    /\ pc = "committed"
    /\ disk' = [disk EXCEPT ![0] = Cipher(LegacyKey, 0, 0)]
    /\ Return("refused")
    /\ UNCHANGED <<scratch, gen>>

\* The volume is opened through the new header, its superblock is checked,
\* and only then is the checkpoint marked completed.
CommitCheckpoint ==
    /\ pc = "committed"
    /\ IF Opened(0) = 0
       THEN scratch' = Staged(scratch.key, scratch.done, "completed") /\ Return("committed")
       ELSE scratch' = scratch /\ Return("refused")
    /\ UNCHANGED <<disk, gen>>

\* Mutant of RestoreData: the block copied last is restored.
RestoreDataLast ==
    /\ pc = "restore"
    /\ LET b == N - 1 - (scratch.done - 1)
       IN  disk' = [disk EXCEPT ![b] =
                        Cipher(LegacyKey, b, Decrypt(scratch.key, b, b + 1))]
    /\ pc' = "restored"
    /\ UNCHANGED <<scratch, gen, abort, status, faults, ahead, reversed>>

\* volume_provider_rekey_execute_rollback_step: the block copied last but one
\* goes back to its legacy place; the one copied last was never overwritten.
RestoreData ==
    /\ pc = "restore"
    /\ LET b == N - 1 - (scratch.done - 2)
       IN  disk' = [disk EXCEPT ![b] =
                        Cipher(LegacyKey, b, Decrypt(scratch.key, b, b + 1))]
    /\ pc' = "restored"
    /\ UNCHANGED <<scratch, gen, abort, status, faults, ahead, reversed>>

RestoreCheckpoint ==
    /\ pc = "restored"
    /\ scratch' = Staged(scratch.key, scratch.done - 1, "in_progress")
    /\ Return("restored")
    /\ UNCHANGED <<disk, gen>>

\* vp_recovery_zero_scratch, when at most one block had been copied.
Forget ==
    /\ pc = "forget"
    /\ scratch' = Zero
    /\ Return("rolled_back")
    /\ UNCHANGED <<disk, gen>>

\* volume_provider_rekey_execute_cleanup_scratch, after a commit.
Cleanup ==
    /\ pc = "cleanup"
    /\ scratch' = Zero
    /\ Return("cleaned")
    /\ UNCHANGED <<disk, gen>>

-----------------------------------------------------------------------------
(* What cuts a call short: power, a failed transfer, a failed read-back.   *)

\* past: the data write of the call had reached the medium, its checkpoint not.
Cut(past) ==
    /\ pc # "idle"
    /\ faults < MaxFaults
    /\ faults' = faults + 1
    /\ pc' = "idle"
    /\ status' = "none"
    /\ ahead' = IF past THEN Direction(abort) ELSE ahead
    /\ UNCHANGED <<gen, abort, reversed>>

Between == pc \in {"copied", "restored"}

Interrupt == Cut(Between) /\ UNCHANGED <<disk, scratch>>

\* The write of a data block stops half way.  (The header at LBA 0 fits one
\* sector and is not written in part.)
TearData ==
    /\ Cut(TRUE)
    /\ pc \in {"copy", "restore"}
    /\ disk' = [disk EXCEPT ![IF pc = "copy" THEN N - scratch.done
                                             ELSE N + 1 - scratch.done] = Damaged]
    /\ UNCHANGED scratch

\* The write of the scratch block stops half way.
TearScratch ==
    /\ Cut(Between)
    /\ \/ pc \in {"copied", "committed", "restored"} /\ scratch' = TornScratch(scratch.key)
       \/ pc = "stage" /\ scratch' = TornScratch(0)
       \/ pc \in {"forget", "cleanup"} /\ \E k \in {0, scratch.key} : scratch' = TornScratch(k)
    /\ UNCHANGED disk

Step == \/ Stage \/ CopyData \/ CopyCheckpoint \/ CommitHeader \/ CommitCheckpoint
        \/ RestoreData \/ RestoreCheckpoint \/ Forget \/ Cleanup

Fault == Interrupt \/ TearData \/ TearScratch

Next == (\E a \in BOOLEAN : Call(a)) \/ Step \/ Fault

Spec == Init /\ [][Next]_vars

\* The caller goes on calling with the flags it last used, unless it changes
\* its mind, and a call runs on unless it is cut short; faults are bounded.
FairSpec == Spec /\ WF_vars(Call(abort)) /\ WF_vars(Step)

-----------------------------------------------------------------------------
(* Properties *)

TypeOK ==
    /\ disk \in [0 .. N -> Cells]
    /\ scratch \in [kind : {"zero", "foreign", "torn", "staged"}, key : Nat,
                    done : 0 .. N, flags : {"in_progress", "completed"}]
    /\ gen \in Nat
    /\ pc \in Steps \cup {"idle"}
    /\ abort \in BOOLEAN
    /\ status \in Answers \cup {"none", "staged", "copied", "committed",
                                "restored", "rolled_back", "cleaned"}
    /\ faults \in Nat
    /\ ahead \in {"none", "forward", "abort"}
    /\ reversed \in BOOLEAN

LegacyCopy(b) == disk[b] = Cipher(LegacyKey, b, b)
TargetCopy(k, b) == disk[b + 1] = Cipher(k, b, b)

\* volume_provider.h, lines 411-413: after an interruption the checkpoint tells
\* whether to resume, to roll back or to abort, and no block is ever lost: once
\* LBA 0 carries the header every block reads back through it; until then every
\* block is whole in its legacy place or, under the staged header's key, in its
\* new one.
Recoverable ==
    \A b \in Blocks :
        IF HeaderLooksValid THEN TargetCopy(disk[0].key, b)
        ELSE \/ LegacyCopy(b)
             \/ scratch.kind \in {"staged", "torn"} /\ scratch.key > 0
                /\ TargetCopy(scratch.key, b)

\* A block is lost only by a call that goes the other way after one was cut short
\* between its two writes.  Each write overwrites the only other copy of a
\* neighbouring block, so this rests on the order of the two writes, on which block
\* a copy and a rollback pick and on when the header is put in force.
LossNeedsReversal == reversed \/ Recoverable

\* LBA 0 takes the header when all blocks are in place, and after that no call
\* and no fault changes a block of the volume again (no downgrade).
HeaderIsFinal ==
    [][HeaderLooksValid => UNCHANGED disk]_vars

\* The staged key is never replaced while the checkpoint counts blocks copied
\* under it: a second staging would make them unreadable.
KeyKept ==
    [][/\ scratch.kind = "staged" /\ scratch.done > 0
       /\ scratch'.kind = "staged"
       => scratch'.key = scratch.key]_vars

\* A caller that stops asking for aborts ends with the header at LBA 0, unless
\* the scratch block was not the migration's own or was written in part.
ForwardFinishes ==
    <>[](~abort) => <>(HeaderLooksValid \/ scratch.kind \in {"foreign", "torn"})

\* A caller that keeps asking for the abort ends with the scratch block given up
\* or the header in force, and with a volume whole under one set of keys.
AbortFinishes ==
    <>[]abort => <>(\/ /\ HeaderLooksValid \/ ~ScratchValid
                       /\ reversed \/ \A b \in Blocks : Opened(b) = b
                    \/ scratch.kind = "torn")

\* A commit that ran to its end is followed by the cleanup that zeroes the
\* staged header and checkpoint (or by one written in part).
CleanupFollows == (scratch.flags = "completed") ~> (scratch.kind \in {"zero", "torn"})

\* Whichever way the caller keeps asking, the migration ends, and its scratch
\* block with it.
MigrationEnds == ForwardFinishes /\ AbortFinishes /\ CleanupFollows

-----------------------------------------------------------------------------
(* The promise *)

\* The domains a block can be read in: the header's alone once it is in force,
\* before that the legacy one and the one of the staged header.
HoldersOf(b) ==
    IF HeaderLooksValid
    THEN {d \in {"target"} : TargetCopy(disk[0].key, b)}
    ELSE {d \in {"legacy"} : LegacyCopy(b)}
         \cup {d \in {"target"} : scratch.key > 0 /\ TargetCopy(scratch.key, b)}

Promise == INSTANCE RekeyPromise WITH
    holders <- [b \in Blocks |-> HoldersOf(b)],
    committed <- HeaderLooksValid,
    reversed <- reversed

\* The migration, faults included, does what RekeyPromise allows and no more.
KeepsPromise == Promise!Spec
=============================================================================

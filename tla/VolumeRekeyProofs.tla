-------------------------- MODULE VolumeRekeyProofs --------------------------
(***************************************************************************)
(* For a volume of any size, any number of stagings and any number of calls *)
(* cut short at any point: a block is lost only by a call that goes the     *)
(* other way after one was cut short between its two writes, and once the   *)
(* header is in force nothing moves.                                        *)
(*                                                                          *)
(* The checkpoint's count does not say where the disk is: a call cut short  *)
(* between its two writes leaves the data one block ahead of the count, in  *)
(* the direction of that call.  The inductive invariant therefore keeps two *)
(* readings of a count c.  Forward(c) is what the next copy needs, Back(c)  *)
(* what the next restore needs; a finished call leaves both, one cut short  *)
(* between its writes only the reading of its own direction.                *)
(***************************************************************************)
EXTENDS VolumeRekey, TLAPS

Forward(k, c) == \A b \in Blocks : /\ b <= N - 1 - c => LegacyCopy(b)
                                   /\ b >= N - c => TargetCopy(k, b)

Back(k, c) == \A b \in Blocks : /\ b <= N - c => LegacyCopy(b)
                                /\ b >= N - c + 1 => TargetCopy(k, b)

AllLegacy == \A b \in Blocks : LegacyCopy(b)

ForwardSteps == {"stage", "copy", "copied", "commit"}
BackSteps == {"restore", "restored", "forget"}

\* Where a call is, it found the medium as its guard says.
MediumInv ==
    /\ pc = "stage" => scratch = Zero
    /\ pc \in {"copy", "copied"} => scratch.kind = "staged" /\ scratch.done < N
    /\ pc = "commit" => scratch.kind = "staged" /\ scratch.done = N
    /\ pc \in {"restore", "restored"} => scratch.kind = "staged" /\ scratch.done >= 2
    /\ pc = "forget" => scratch.kind = "staged" /\ scratch.done <= 1
    /\ pc \in {"committed", "cleanup"} =>
            HeaderLooksValid /\ scratch.kind = "staged"
    /\ pc \in ForwardSteps => ~HeaderLooksValid /\ ~abort
    /\ pc \in BackSteps => ~HeaderLooksValid /\ abort

\* And without a reversal it does not go against data that is ahead.
CallInv ==
    /\ MediumInv
    /\ pc \in ForwardSteps => ahead # "abort"
    /\ pc \in BackSteps => ahead # "forward"

\* What the disk holds while LBA 0 is still the legacy superblock.
DiskInv ==
    ~HeaderLooksValid =>
        /\ LegacyCopy(0)
        /\ scratch.kind \in {"zero", "foreign"} => AllLegacy
        /\ scratch.kind = "staged" =>
             /\ scratch.key > 0
             /\ ahead # "abort" /\ pc # "restored" => Forward(scratch.key, scratch.done)
             /\ ahead # "forward" /\ pc # "copied" => Back(scratch.key, scratch.done)
        /\ pc = "copied" => /\ LegacyCopy(N - 1 - scratch.done)
                            /\ TargetCopy(scratch.key, N - 1 - scratch.done)
        /\ pc = "restored" => LegacyCopy(N + 1 - scratch.done)

\* What holds until a call goes the other way, and what holds then, too.
KInv == TypeOK /\ CallInv /\ DiskInv /\ Recoverable

IInv == TypeOK /\ MediumInv /\ (~reversed => KInv)

-----------------------------------------------------------------------------
(* Facts about the blocks *)

\* Either reading of a count keeps every block.
LEMMA ReadingKeeps ==
    ASSUME NEW k \in Nat, NEW c \in 0 .. N, Forward(k, c) \/ Back(k, c), NEW b \in Blocks
    PROVE  LegacyCopy(b) \/ TargetCopy(k, b)
BY GeometryAssumption DEF Forward, Back, Blocks

\* A whole legacy copy reads back as its block under the legacy key, and it is
\* not a header.
LEMMA LegacyReads ==
    ASSUME TypeOK, NEW b \in Blocks, LegacyCopy(b)
    PROVE  Decrypt(LegacyKey, b, b) = b
BY DEF LegacyCopy, Decrypt, Cipher, LegacyKey

LEMMA TargetReads ==
    ASSUME TypeOK, NEW k \in Nat, NEW b \in Blocks, TargetCopy(k, b)
    PROVE  Decrypt(k, b, b + 1) = b
BY DEF TargetCopy, Decrypt, Cipher

\* Copies stay where the medium does not change.
LEMMA CopiesFrame ==
    ASSUME NEW b, NEW k
    PROVE  /\ disk'[b] = disk[b] /\ LegacyCopy(b) => LegacyCopy(b)'
           /\ disk'[b + 1] = disk[b + 1] /\ TargetCopy(k, b) => TargetCopy(k, b)'
BY DEF LegacyCopy, TargetCopy

LEMMA InitInv == Init => KInv
<1> SUFFICES ASSUME Init PROVE KInv
  OBVIOUS
<1> USE GeometryAssumption
<1>1. TypeOK
  <2>1. disk \in [0 .. N -> Cells]
    BY DEF Init, Cells, Cipher, Damaged, LegacyKey, Noise
  <2>2. scratch \in [kind : {"zero", "foreign", "torn", "staged"}, key : Nat,
                     done : 0 .. N, flags : {"in_progress", "completed"}]
    BY DEF Init, Zero, Foreign
  <2> QED
    BY <2>1, <2>2 DEF Init, TypeOK, Steps, Answers
<1>2. \A b \in Blocks : LegacyCopy(b)
  BY DEF Init, Blocks, LegacyCopy
<1>3. ~HeaderLooksValid
  BY DEF Init, HeaderLooksValid, HeaderMark, Cipher
<1>4. CallInv
  BY <1>3 DEF Init, CallInv, MediumInv, ForwardSteps, BackSteps
<1>5. scratch.kind \in {"zero", "foreign"}
  BY DEF Init, Zero, Foreign
<1>6. 0 \in Blocks
  BY DEF Blocks
<1>7. DiskInv
  BY <1>2, <1>3, <1>5, <1>6 DEF DiskInv, AllLegacy, Init
<1>8. Recoverable
  BY <1>2, <1>3 DEF Recoverable
<1> QED
  BY <1>1, <1>4, <1>7, <1>8 DEF KInv

LEMMA CallPreserves ==
    ASSUME KInv, NEW a \in BOOLEAN, Call(a), ~reversed'
    PROVE  KInv'
<1> USE GeometryAssumption DEF KInv
<1>0. UNCHANGED <<disk, scratch, gen, faults>> /\ pc = "idle" /\ abort' = a
  BY DEF Call
<1>1. TypeOK'
  BY <1>0 DEF TypeOK, Call, Decision, Answers, Steps
<1>2. CASE Decision(a) \in Answers
  <2>1. pc' = "idle" /\ ahead' = ahead
    BY <1>2 DEF Call
  <2>2. CallInv'
    BY <2>1 DEF CallInv, MediumInv, ForwardSteps, BackSteps
  <2>4. DiskInv'
    BY <1>0, <2>1 DEF DiskInv, HeaderLooksValid, LegacyCopy, AllLegacy, Forward, Back, TargetCopy
  <2>5. Recoverable'
    BY <1>0 DEF Recoverable, HeaderLooksValid, LegacyCopy, TargetCopy
  <2> QED
    BY <1>1, <2>2, <2>4, <2>5
<1>3. CASE Decision(a) \notin Answers
  <2>1. pc' = Decision(a) /\ ahead' = ahead
    BY <1>3 DEF Call
  <2>2. ahead \in {"none", Direction(a)}
    BY <1>3 DEF Call
  <2>3. CallInv'
    BY <1>0, <1>3, <2>1, <2>2 DEF CallInv, MediumInv, TypeOK, Decision, Direction, ForwardSteps,
       BackSteps, HeaderLooksValid, ScratchValid, Answers, Zero
  <2>4. pc' \notin {"copied", "restored"}
    BY <2>1 DEF Decision
  <2>5. DiskInv'
    BY <1>0, <2>1, <2>4 DEF DiskInv, HeaderLooksValid, LegacyCopy, AllLegacy, Forward, Back, TargetCopy
  <2>6. Recoverable'
    BY <1>0 DEF Recoverable, HeaderLooksValid, LegacyCopy, TargetCopy
  <2> QED
    BY <1>1, <2>3, <2>5, <2>6
<1> QED
  BY <1>2, <1>3

LEMMA StagePreserves ==
    ASSUME KInv, Stage
    PROVE  KInv'
<1> USE GeometryAssumption DEF KInv
<1>1. /\ scratch' = Staged(gen + 1, 0, "in_progress") /\ disk' = disk
      /\ pc' = "idle" /\ ahead' = "none" /\ gen' = gen + 1
      /\ ~HeaderLooksValid /\ AllLegacy
  BY DEF Stage, Return, CallInv, MediumInv, DiskInv, ForwardSteps, Zero
<1>2. TypeOK'
  BY <1>1 DEF TypeOK, Stage, Return, Staged, Steps
<1>3. ~HeaderLooksValid' /\ \A b \in Blocks : LegacyCopy(b)'
  BY <1>1 DEF HeaderLooksValid, AllLegacy, LegacyCopy
<1>4. scratch'.kind = "staged" /\ scratch'.key > 0 /\ scratch'.done = 0
  BY <1>1 DEF Staged, TypeOK
<1>5. Forward(scratch.key, scratch.done)' /\ Back(scratch.key, scratch.done)'
  BY <1>3, <1>4 DEF Forward, Back, Blocks
<1>6. CallInv'
  BY <1>1 DEF CallInv, MediumInv, ForwardSteps, BackSteps
<1>7. 0 \in Blocks
  BY DEF Blocks
<1>8. DiskInv'
  BY <1>1, <1>3, <1>4, <1>5, <1>7 DEF DiskInv
<1>9. Recoverable'
  BY <1>3 DEF Recoverable
<1> QED
  BY <1>2, <1>6, <1>8, <1>9

\* The copy of block b = N - 1 - c lands on the legacy place of block b + 1,
\* which the header's key already holds: Forward(c) survives it.
LEMMA CopyDataPreserves ==
    ASSUME KInv, CopyData
    PROVE  KInv'
<1> USE GeometryAssumption DEF KInv
<1>0. PICK k \in Nat, c \in 0 .. N : scratch.key = k /\ scratch.done = c
  BY DEF TypeOK
<1> DEFINE b0 == N - 1 - c
<1>1. /\ c < N /\ k > 0 /\ scratch.kind = "staged"
      /\ ~HeaderLooksValid /\ ~abort /\ ahead # "abort" /\ pc = "copy"
  BY <1>0 DEF CopyData, CallInv, MediumInv, DiskInv, TypeOK, ForwardSteps
<1>2. b0 \in Blocks /\ b0 + 1 \in 1 .. N
  BY <1>1 DEF Blocks
<1>3. Forward(k, c) /\ LegacyCopy(b0) /\ LegacyCopy(0)
  <2>1. Forward(k, c) /\ LegacyCopy(0)
    BY <1>0, <1>1 DEF DiskInv
  <2> QED
    BY <1>1, <1>2, <2>1 DEF Forward
<1>4. Decrypt(LegacyKey, b0, b0) = b0
  BY <1>2, <1>3, LegacyReads
<1>5. /\ disk' = [disk EXCEPT ![b0 + 1] = Cipher(k, b0, b0)]
      /\ pc' = "copied" /\ UNCHANGED <<scratch, gen, abort, status, faults, ahead, reversed>>
  BY <1>0, <1>4 DEF CopyData
<1>6. TypeOK'
  <2>1. Cipher(k, b0, b0) \in Cells
    BY <1>1 DEF Cipher, Cells
  <2>2. disk' \in [0 .. N -> Cells]
    BY <1>2, <1>5, <2>1 DEF TypeOK
  <2> QED
    BY <1>5, <2>2 DEF TypeOK, Steps
<1>7. /\ disk'[b0 + 1] = Cipher(k, b0, b0)
      /\ \A l \in 0 .. N : l # b0 + 1 => disk'[l] = disk[l]
  BY <1>2, <1>5 DEF TypeOK
<1>8. ~HeaderLooksValid'
  BY <1>1, <1>2, <1>7 DEF HeaderLooksValid
<1>9. LegacyCopy(0)' /\ LegacyCopy(b0)' /\ TargetCopy(k, b0)'
  BY <1>1, <1>2, <1>3, <1>7 DEF LegacyCopy, TargetCopy
<1>10. Forward(k, c)'
  <2> SUFFICES ASSUME NEW b \in Blocks
               PROVE  /\ b <= N - 1 - c => LegacyCopy(b)'
                      /\ b >= N - c => TargetCopy(k, b)'
    BY <1>5 DEF Forward
  <2>1. CASE b <= N - 1 - c
    BY <1>1, <1>3, <1>7, <2>1 DEF Forward, LegacyCopy, Blocks
  <2>2. CASE b >= N - c
    BY <1>1, <1>3, <1>7, <2>2 DEF Forward, TargetCopy, Blocks
  <2> QED
    BY <1>1, <2>1, <2>2 DEF Blocks
<1>11. CallInv'
  BY <1>0, <1>1, <1>5, <1>8 DEF CallInv, MediumInv, ForwardSteps, BackSteps
<1>12. DiskInv'
  BY <1>0, <1>1, <1>5, <1>8, <1>9, <1>10 DEF DiskInv
<1>13. Recoverable'
  <2>1. \A b \in Blocks : LegacyCopy(b)' \/ TargetCopy(k, b)'
    BY <1>1, <1>10 DEF Forward, Blocks
  <2> QED
    BY <1>0, <1>1, <1>5, <1>8, <2>1 DEF Recoverable
<1> QED
  BY <1>6, <1>11, <1>12, <1>13

LEMMA CopyCheckpointPreserves ==
    ASSUME KInv, CopyCheckpoint
    PROVE  KInv'
<1> USE GeometryAssumption DEF KInv
<1>0. PICK k \in Nat, c \in 0 .. N : scratch.key = k /\ scratch.done = c
  BY DEF TypeOK
<1>1. /\ c < N /\ k > 0 /\ scratch.kind = "staged"
      /\ ~HeaderLooksValid /\ ahead # "abort" /\ pc = "copied"
  BY <1>0 DEF CopyCheckpoint, CallInv, MediumInv, DiskInv, TypeOK, ForwardSteps
<1>2. /\ Forward(k, c) /\ LegacyCopy(0)
      /\ LegacyCopy(N - 1 - c) /\ TargetCopy(k, N - 1 - c)
  BY <1>0, <1>1 DEF DiskInv
<1>3. /\ disk' = disk /\ pc' = "idle" /\ ahead' = "none"
      /\ scratch' = [kind |-> "staged", key |-> k, done |-> c + 1, flags |-> "in_progress"]
  BY <1>0 DEF CopyCheckpoint, Return, Staged
<1>4. TypeOK'
  BY <1>1, <1>3 DEF TypeOK, CopyCheckpoint, Return, Staged, Steps
<1>5. Forward(k, c + 1) /\ Back(k, c + 1)
  BY <1>1, <1>2 DEF Forward, Back, Blocks
<1>6. /\ scratch'.kind = "staged" /\ scratch'.key = k /\ scratch'.done = c + 1
      /\ ~HeaderLooksValid' /\ LegacyCopy(0)'
      /\ Forward(k, c + 1)' /\ Back(k, c + 1)'
  BY <1>1, <1>2, <1>3, <1>5 DEF HeaderLooksValid, LegacyCopy, TargetCopy, Forward, Back
<1>7. CallInv'
  BY <1>3 DEF CallInv, MediumInv, ForwardSteps, BackSteps
<1>8. DiskInv'
  BY <1>1, <1>3, <1>6 DEF DiskInv, Forward, Back
<1>9. Recoverable'
  <2>1. \A b \in Blocks : LegacyCopy(b)' \/ TargetCopy(k, b)'
    BY <1>1, <1>6 DEF Forward, Blocks
  <2> QED
    BY <1>1, <1>6, <2>1 DEF Recoverable
<1> QED
  BY <1>4, <1>7, <1>8, <1>9

\* LBA 0 takes the header when Forward(N) says the header's key holds all.
LEMMA CommitHeaderPreserves ==
    ASSUME KInv, CommitHeader
    PROVE  KInv'
<1> USE GeometryAssumption DEF KInv
<1>0. PICK k \in Nat : scratch.key = k
  BY DEF TypeOK
<1>1. /\ scratch.done = N /\ scratch.kind = "staged" /\ k > 0
      /\ ~HeaderLooksValid /\ ahead # "abort" /\ pc = "commit"
  BY <1>0 DEF CommitHeader, CallInv, MediumInv, DiskInv, TypeOK, ForwardSteps
<1>2. \A b \in Blocks : TargetCopy(k, b)
  BY <1>0, <1>1 DEF DiskInv, Forward, Blocks
<1>3. /\ disk' = [disk EXCEPT ![0] = HeaderCell(k)]
      /\ pc' = "committed" /\ UNCHANGED <<scratch, gen, abort, status, faults, ahead, reversed>>
  BY <1>0 DEF CommitHeader
<1>4. disk'[0] = HeaderCell(k) /\ \A l \in 1 .. N : disk'[l] = disk[l]
  BY <1>3 DEF TypeOK
<1>5. TypeOK'
  <2>1. HeaderCell(k) \in Cells
    BY DEF HeaderCell, Cipher, Cells, HeaderMark, Noise
  <2>2. disk' \in [0 .. N -> Cells]
    BY <1>3, <2>1 DEF TypeOK
  <2> QED
    BY <1>3, <2>2 DEF TypeOK, Steps
<1>6. HeaderLooksValid' /\ disk'[0].key = k
  BY <1>4 DEF HeaderLooksValid, HeaderCell, Cipher
<1>7. \A b \in Blocks : TargetCopy(k, b)'
  BY <1>2, <1>4 DEF TargetCopy, Blocks
<1>8. CallInv'
  BY <1>1, <1>3, <1>6 DEF CallInv, MediumInv, ForwardSteps, BackSteps
<1>9. DiskInv' /\ Recoverable'
  BY <1>6, <1>7 DEF DiskInv, Recoverable
<1> QED
  BY <1>5, <1>8, <1>9

\* With the header in force, no step of a call touches the volume.
LEMMA HeaderFrame ==
    ASSUME KInv, HeaderLooksValid, disk' = disk, TypeOK', CallInv'
    PROVE  KInv'
<1> USE GeometryAssumption DEF KInv
<1>1. HeaderLooksValid'
  BY DEF HeaderLooksValid
<1>2. DiskInv'
  BY <1>1 DEF DiskInv
<1>3. Recoverable'
  BY <1>1 DEF Recoverable, TargetCopy
<1> QED
  BY <1>2, <1>3

LEMMA CommitCheckpointPreserves ==
    ASSUME KInv, CommitCheckpoint
    PROVE  KInv'
<1> USE GeometryAssumption DEF KInv
<1>1. HeaderLooksValid /\ disk' = disk /\ pc' = "idle"
  BY DEF CommitCheckpoint, CallInv, MediumInv, Return
<1>2. TypeOK'
  BY DEF TypeOK, CommitCheckpoint, Return, Staged, Steps, Answers
<1>3. CallInv'
  BY <1>1 DEF CallInv, MediumInv, ForwardSteps, BackSteps
<1> QED
  BY <1>1, <1>2, <1>3, HeaderFrame

LEMMA CleanupPreserves ==
    ASSUME KInv, Cleanup
    PROVE  KInv'
<1> USE GeometryAssumption DEF KInv
<1>1. HeaderLooksValid /\ disk' = disk /\ pc' = "idle"
  BY DEF Cleanup, CallInv, MediumInv, Return
<1>2. TypeOK'
  BY DEF TypeOK, Cleanup, Return, Zero, Steps
<1>3. CallInv'
  BY <1>1 DEF CallInv, MediumInv, ForwardSteps, BackSteps
<1> QED
  BY <1>1, <1>2, <1>3, HeaderFrame

\* The restore of block b = N - c + 1 lands on the new place of block b - 1,
\* which the legacy key still holds: Back(c) survives it.
LEMMA RestoreDataPreserves ==
    ASSUME KInv, RestoreData
    PROVE  KInv'
<1> USE GeometryAssumption DEF KInv
<1>0. PICK k \in Nat, c \in 0 .. N : scratch.key = k /\ scratch.done = c
  BY DEF TypeOK
<1> DEFINE b0 == N - 1 - (c - 2)
<1>1. /\ c >= 2 /\ k > 0 /\ scratch.kind = "staged"
      /\ ~HeaderLooksValid /\ abort /\ ahead # "forward" /\ pc = "restore"
  BY <1>0 DEF RestoreData, CallInv, MediumInv, DiskInv, TypeOK, BackSteps
<1>2. b0 \in Blocks /\ b0 = N - c + 1 /\ b0 \in 1 .. N
  BY <1>1 DEF Blocks
<1>3. Back(k, c) /\ TargetCopy(k, b0) /\ LegacyCopy(0)
  <2>1. Back(k, c) /\ LegacyCopy(0)
    BY <1>0, <1>1 DEF DiskInv
  <2> QED
    BY <1>1, <1>2, <2>1 DEF Back
<1>4. Decrypt(k, b0, b0 + 1) = b0
  BY <1>2, <1>3, TargetReads
<1>5. /\ disk' = [disk EXCEPT ![b0] = Cipher(LegacyKey, b0, b0)]
      /\ pc' = "restored" /\ UNCHANGED <<scratch, gen, abort, status, faults, ahead, reversed>>
  BY <1>0, <1>4 DEF RestoreData
<1>6. TypeOK'
  <2>1. Cipher(LegacyKey, b0, b0) \in Cells
    BY <1>1 DEF Cipher, Cells, LegacyKey
  <2>2. disk' \in [0 .. N -> Cells]
    BY <1>2, <1>5, <2>1 DEF TypeOK
  <2> QED
    BY <1>5, <2>2 DEF TypeOK, Steps
<1>7. /\ disk'[b0] = Cipher(LegacyKey, b0, b0)
      /\ \A l \in 0 .. N : l # b0 => disk'[l] = disk[l]
  BY <1>2, <1>5 DEF TypeOK
<1>8. ~HeaderLooksValid'
  BY <1>1, <1>2, <1>7 DEF HeaderLooksValid
<1>9. LegacyCopy(0)' /\ LegacyCopy(b0)'
  BY <1>1, <1>2, <1>3, <1>7 DEF LegacyCopy
<1>10. Back(k, c)'
  <2> SUFFICES ASSUME NEW b \in Blocks
               PROVE  /\ b <= N - c => LegacyCopy(b)'
                      /\ b >= N - c + 1 => TargetCopy(k, b)'
    BY <1>5 DEF Back
  <2>1. CASE b <= N - c
    BY <1>1, <1>2, <1>3, <1>7, <2>1 DEF Back, LegacyCopy, Blocks
  <2>2. CASE b >= N - c + 1
    BY <1>1, <1>2, <1>3, <1>7, <2>2 DEF Back, TargetCopy, Blocks
  <2> QED
    BY <1>1, <2>1, <2>2 DEF Blocks
<1>11. CallInv'
  BY <1>0, <1>1, <1>5, <1>8 DEF CallInv, MediumInv, ForwardSteps, BackSteps
<1>12. DiskInv'
  <2>1. LegacyCopy(N + 1 - c)'
    BY <1>2, <1>9
  <2> QED
    BY <1>0, <1>1, <1>5, <1>8, <1>9, <1>10, <2>1 DEF DiskInv
<1>13. Recoverable'
  <2>1. \A b \in Blocks : LegacyCopy(b)' \/ TargetCopy(k, b)'
    BY <1>1, <1>10 DEF Back, Blocks
  <2> QED
    BY <1>0, <1>1, <1>5, <1>8, <2>1 DEF Recoverable
<1> QED
  BY <1>6, <1>11, <1>12, <1>13

LEMMA RestoreCheckpointPreserves ==
    ASSUME KInv, RestoreCheckpoint
    PROVE  KInv'
<1> USE GeometryAssumption DEF KInv
<1>0. PICK k \in Nat, c \in 0 .. N : scratch.key = k /\ scratch.done = c
  BY DEF TypeOK
<1>1. /\ c >= 2 /\ k > 0 /\ scratch.kind = "staged"
      /\ ~HeaderLooksValid /\ ahead # "forward" /\ pc = "restored"
  BY <1>0 DEF RestoreCheckpoint, CallInv, MediumInv, DiskInv, TypeOK, BackSteps
<1>2. Back(k, c) /\ LegacyCopy(0) /\ LegacyCopy(N + 1 - c)
  BY <1>0, <1>1 DEF DiskInv
<1>3. /\ disk' = disk /\ pc' = "idle" /\ ahead' = "none"
      /\ scratch' = [kind |-> "staged", key |-> k, done |-> c - 1, flags |-> "in_progress"]
  BY <1>0 DEF RestoreCheckpoint, Return, Staged
<1>4. TypeOK'
  BY <1>1, <1>3 DEF TypeOK, RestoreCheckpoint, Return, Staged, Steps
<1>5. Forward(k, c - 1) /\ Back(k, c - 1)
  BY <1>1, <1>2 DEF Forward, Back, Blocks
<1>6. /\ scratch'.kind = "staged" /\ scratch'.key = k /\ scratch'.done = c - 1
      /\ ~HeaderLooksValid' /\ LegacyCopy(0)'
      /\ Forward(k, c - 1)' /\ Back(k, c - 1)'
  BY <1>1, <1>2, <1>3, <1>5 DEF HeaderLooksValid, LegacyCopy, TargetCopy, Forward, Back
<1>7. CallInv'
  BY <1>3 DEF CallInv, MediumInv, ForwardSteps, BackSteps
<1>8. DiskInv'
  BY <1>1, <1>3, <1>6 DEF DiskInv, Forward, Back
<1>9. Recoverable'
  <2>1. \A b \in Blocks : LegacyCopy(b)' \/ TargetCopy(k, b)'
    BY <1>1, <1>6 DEF Forward, Blocks
  <2> QED
    BY <1>1, <1>6, <2>1 DEF Recoverable
<1> QED
  BY <1>4, <1>7, <1>8, <1>9

\* With at most one block copied Back says the legacy place holds all.
LEMMA ForgetFindsLegacy ==
    ASSUME KInv, pc = "forget"
    PROVE  AllLegacy /\ ~HeaderLooksValid
<1> USE GeometryAssumption DEF KInv
<1>0. PICK k \in Nat, c \in 0 .. N : scratch.key = k /\ scratch.done = c
  BY DEF TypeOK
<1>1. ~HeaderLooksValid /\ c <= 1 /\ Back(k, c)
  BY <1>0 DEF CallInv, MediumInv, DiskInv, BackSteps
<1> QED
  BY <1>1 DEF Back, AllLegacy, Blocks

\* Whatever becomes of the scratch block, a whole legacy volume loses nothing.
LEMMA LegacyFrame ==
    ASSUME KInv, AllLegacy, ~HeaderLooksValid, disk' = disk, pc' = "idle", TypeOK',
           scratch'.kind # "staged"
    PROVE  KInv'
<1> USE GeometryAssumption DEF KInv
<1>1. ~HeaderLooksValid' /\ AllLegacy'
  BY DEF HeaderLooksValid, AllLegacy, LegacyCopy
<1>2. LegacyCopy(0)'
  BY <1>1 DEF AllLegacy, Blocks
<1>3. CallInv'
  BY DEF CallInv, MediumInv, ForwardSteps, BackSteps
<1>4. DiskInv'
  BY <1>1, <1>2 DEF DiskInv
<1>5. Recoverable'
  BY <1>1 DEF Recoverable, AllLegacy
<1> QED
  BY <1>3, <1>4, <1>5

LEMMA ForgetPreserves ==
    ASSUME KInv, Forget
    PROVE  KInv'
<1>1. AllLegacy /\ ~HeaderLooksValid
  BY ForgetFindsLegacy DEF Forget
<1>2. TypeOK'
  BY GeometryAssumption DEF KInv, TypeOK, Forget, Return, Zero, Steps
<1>3. scratch'.kind # "staged" /\ disk' = disk /\ pc' = "idle"
  BY DEF Forget, Return, Zero
<1> QED
  BY <1>1, <1>2, <1>3, LegacyFrame

LEMMA InterruptPreserves ==
    ASSUME KInv, Interrupt
    PROVE  KInv'
<1> USE GeometryAssumption DEF KInv
<1>1. /\ disk' = disk /\ scratch' = scratch /\ pc' = "idle" /\ pc # "idle"
      /\ ahead' = IF pc \in {"copied", "restored"} THEN (IF abort THEN "abort" ELSE "forward")
                                                  ELSE ahead
  BY DEF Interrupt, Cut, Between, Direction
<1>2. TypeOK'
  BY <1>1 DEF TypeOK, Interrupt, Cut, Direction, Steps
<1>3. CallInv'
  BY <1>1 DEF CallInv, MediumInv, ForwardSteps, BackSteps
<1>4. /\ HeaderLooksValid' = HeaderLooksValid /\ Recoverable' = Recoverable
      /\ LegacyCopy(0)' = LegacyCopy(0) /\ AllLegacy' = AllLegacy
      /\ Forward(scratch.key, scratch.done)' = Forward(scratch.key, scratch.done)
      /\ Back(scratch.key, scratch.done)' = Back(scratch.key, scratch.done)
  BY <1>1 DEF HeaderLooksValid, Recoverable, LegacyCopy, TargetCopy, AllLegacy, Forward, Back
<1>5. ~HeaderLooksValid => \/ pc \in ForwardSteps /\ ~abort /\ ahead # "abort"
                           \/ pc \in BackSteps /\ abort /\ ahead # "forward"
  BY <1>1 DEF TypeOK, CallInv, MediumInv, Steps, ForwardSteps, BackSteps
<1>6. DiskInv'
  BY <1>1, <1>4, <1>5 DEF DiskInv, ForwardSteps, BackSteps
<1> QED
  BY <1>2, <1>3, <1>4, <1>6

\* The block written in part is the one the interrupted step would overwrite.
LEMMA TearDataPreserves ==
    ASSUME KInv, TearData
    PROVE  KInv'
<1> USE GeometryAssumption DEF KInv
<1>0. PICK k \in Nat, c \in 0 .. N : scratch.key = k /\ scratch.done = c
  BY DEF TypeOK
<1> DEFINE lba == IF pc = "copy" THEN N - c ELSE N + 1 - c
<1>1. /\ disk' = [disk EXCEPT ![lba] = Damaged] /\ scratch' = scratch /\ pc' = "idle"
      /\ ahead' = IF abort THEN "abort" ELSE "forward"
      /\ pc \in {"copy", "restore"}
  BY <1>0 DEF TearData, Cut, Direction
<1>2. /\ ~HeaderLooksValid /\ scratch.kind = "staged" /\ k > 0 /\ LegacyCopy(0)
      /\ pc = "copy" => ~abort /\ c < N /\ Forward(k, c)
      /\ pc = "restore" => abort /\ c >= 2 /\ Back(k, c)
  BY <1>0, <1>1 DEF CallInv, MediumInv, DiskInv, ForwardSteps, BackSteps
<1>3. lba \in 1 .. N
  BY <1>1, <1>2
<1>4. disk' \in [0 .. N -> Cells]
  <2>1. Damaged \in Cells
    BY DEF Damaged, Cipher, Cells, LegacyKey, Noise
  <2> QED
    BY <1>1, <1>3, <2>1 DEF TypeOK
<1>5. \A l \in 0 .. N : l # lba => disk'[l] = disk[l]
  BY <1>1, <1>3 DEF TypeOK
<1>6. TypeOK'
  BY <1>1, <1>4 DEF TypeOK, TearData, Cut, Direction, Steps
<1>7. ~HeaderLooksValid' /\ LegacyCopy(0)'
  BY <1>2, <1>3, <1>5 DEF HeaderLooksValid, LegacyCopy
<1>8. pc = "copy" => Forward(k, c)'
  <2> SUFFICES ASSUME pc = "copy", NEW b \in Blocks
               PROVE  /\ b <= N - 1 - c => LegacyCopy(b)'
                      /\ b >= N - c => TargetCopy(k, b)'
    BY DEF Forward
  <2>1. lba = N - c /\ Forward(k, c) /\ c < N
    BY <1>2
  <2>2. CASE b <= N - 1 - c
    BY <1>5, <2>1, <2>2 DEF Forward, LegacyCopy, Blocks
  <2>3. CASE b >= N - c
    BY <1>5, <2>1, <2>3 DEF Forward, TargetCopy, Blocks
  <2> QED
    BY <2>2, <2>3 DEF Blocks
<1>9. pc = "restore" => Back(k, c)'
  <2> SUFFICES ASSUME pc = "restore", NEW b \in Blocks
               PROVE  /\ b <= N - c => LegacyCopy(b)'
                      /\ b >= N - c + 1 => TargetCopy(k, b)'
    BY DEF Back
  <2>1. lba = N + 1 - c /\ Back(k, c) /\ c >= 2
    BY <1>2
  <2>2. CASE b <= N - c
    BY <1>5, <2>1, <2>2 DEF Back, LegacyCopy, Blocks
  <2>3. CASE b >= N - c + 1
    BY <1>5, <2>1, <2>3 DEF Back, TargetCopy, Blocks
  <2> QED
    BY <2>2, <2>3 DEF Blocks
<1>10. CallInv'
  BY <1>1 DEF CallInv, MediumInv, ForwardSteps, BackSteps
<1>11. DiskInv'
  BY <1>0, <1>1, <1>2, <1>7, <1>8, <1>9 DEF DiskInv
<1>12. Recoverable'
  <2>1. \A b \in Blocks : LegacyCopy(b)' \/ TargetCopy(k, b)'
    BY <1>1, <1>8, <1>9 DEF Forward, Back, Blocks
  <2> QED
    BY <1>0, <1>1, <1>2, <1>7, <2>1 DEF Recoverable
<1> QED
  BY <1>6, <1>10, <1>11, <1>12

LEMMA TearScratchPreserves ==
    ASSUME KInv, TearScratch
    PROVE  KInv'
<1> USE GeometryAssumption DEF KInv
<1>1. /\ disk' = disk /\ pc' = "idle" /\ scratch'.kind = "torn"
      /\ scratch' \in {TornScratch(0), TornScratch(scratch.key)}
      /\ pc \in {"copied", "restored"} => scratch' = TornScratch(scratch.key)
      /\ pc \in {"copied", "committed", "restored", "stage", "forget", "cleanup"}
  BY DEF TearScratch, Cut, TornScratch
<1>2. TypeOK'
  <2>1. scratch' \in [kind : {"zero", "foreign", "torn", "staged"}, key : Nat,
                      done : 0 .. N, flags : {"in_progress", "completed"}]
    BY <1>1 DEF TypeOK, TornScratch
  <2> QED
    BY <1>1, <2>1 DEF TypeOK, TearScratch, Cut, Direction, Steps
<1>3. CallInv'
  BY <1>1 DEF CallInv, MediumInv, ForwardSteps, BackSteps
<1>4. CASE HeaderLooksValid
  BY <1>1, <1>2, <1>3, <1>4, HeaderFrame
<1>5. CASE ~HeaderLooksValid /\ pc = "forget"
  BY <1>1, <1>2, <1>5, ForgetFindsLegacy, LegacyFrame
<1>6. CASE ~HeaderLooksValid /\ pc = "stage"
  <2>1. AllLegacy
    BY <1>6 DEF CallInv, MediumInv, DiskInv, Zero
  <2> QED
    BY <1>1, <1>2, <1>6, <2>1, LegacyFrame
<1>7. CASE ~HeaderLooksValid /\ pc \in {"copied", "restored"}
  <2>1. /\ scratch'.key = scratch.key /\ ~HeaderLooksValid' /\ LegacyCopy(0)'
        /\ scratch.kind = "staged" /\ scratch.key > 0
    BY <1>1, <1>7 DEF TornScratch, HeaderLooksValid, LegacyCopy, CallInv, MediumInv, DiskInv
  <2>2. Recoverable'
    BY <1>1, <1>7, <2>1 DEF Recoverable, HeaderLooksValid, LegacyCopy, TargetCopy
  <2>3. DiskInv'
    BY <1>1, <2>1 DEF DiskInv
  <2> QED
    BY <1>2, <1>3, <2>2, <2>3
<1>8. pc \in {"committed", "cleanup"} => HeaderLooksValid
  BY DEF CallInv, MediumInv
<1> QED
  BY <1>1, <1>4, <1>5, <1>6, <1>7, <1>8

LEMMA StutterPreserves ==
    ASSUME KInv, UNCHANGED vars
    PROVE  KInv'
BY DEF KInv, vars, TypeOK, CallInv, MediumInv, DiskInv, Recoverable, HeaderLooksValid,
       LegacyCopy, TargetCopy, AllLegacy, Forward, Back

LEMMA KNextPreserves ==
    ASSUME KInv, [Next]_vars, ~reversed'
    PROVE  KInv'
<1>1. CASE \E a \in BOOLEAN : Call(a)
  BY <1>1, CallPreserves
<1>2. CASE Step
  BY <1>2, StagePreserves, CopyDataPreserves, CopyCheckpointPreserves,
     CommitHeaderPreserves, CommitCheckpointPreserves, RestoreDataPreserves,
     RestoreCheckpointPreserves, ForgetPreserves, CleanupPreserves DEF Step
<1>3. CASE Fault
  BY <1>3, InterruptPreserves, TearDataPreserves, TearScratchPreserves DEF Fault
<1>4. CASE UNCHANGED vars
  BY <1>4, StutterPreserves
<1> QED
  BY <1>1, <1>2, <1>3, <1>4 DEF Next

\* A write of data leaves LBA 0 alone, whatever it writes.
LEMMA DataWrite ==
    ASSUME TypeOK, ~HeaderLooksValid, NEW l \in 1 .. N, NEW v \in Cells,
           disk' = [disk EXCEPT ![l] = v]
    PROVE  ~HeaderLooksValid' /\ disk' \in [0 .. N -> Cells]
BY GeometryAssumption DEF TypeOK, HeaderLooksValid

\* A call may read noise, but it is a block it writes.
LEMMA CipherIsCell ==
    ASSUME TypeOK, NEW k \in Nat, NEW b \in Int, NEW l \in 0 .. N, NEW j \in Nat
    PROVE  Cipher(k, b, Decrypt(j, b, l)) \in Cells
BY DEF TypeOK, Cells, Cipher, Decrypt, Noise

LEMMA MediumPreserved ==
    ASSUME TypeOK, MediumInv, [Next]_vars
    PROVE  TypeOK' /\ MediumInv'
<1> USE GeometryAssumption
<1>0. PICK k \in Nat, c \in 0 .. N : scratch.key = k /\ scratch.done = c
  BY DEF TypeOK
<1>1. ASSUME NEW a \in BOOLEAN, Call(a)
      PROVE  TypeOK' /\ MediumInv'
  <2>1. TypeOK'
    BY <1>1 DEF TypeOK, Call, Decision, Answers, Steps
  <2>2. UNCHANGED <<disk, scratch>> /\ abort' = a
    BY <1>1 DEF Call
  <2>3. CASE Decision(a) \in Answers
    <3>1. pc' = "idle"
      BY <1>1, <2>3 DEF Call
    <3> QED
      BY <2>1, <2>2, <3>1 DEF MediumInv, ForwardSteps, BackSteps
  <2>4. CASE Decision(a) \notin Answers
    <3>1. pc' = Decision(a) /\ HeaderLooksValid' = HeaderLooksValid
      BY <1>1, <2>2, <2>4 DEF Call, HeaderLooksValid
    <3>2. /\ Decision(a) = "cleanup" => HeaderLooksValid
          /\ Decision(a) # "cleanup" => ~HeaderLooksValid
          /\ Decision(a) = "stage" => ~a /\ scratch = Zero
          /\ Decision(a) # "stage" => scratch.kind = "staged"
          /\ Decision(a) = "copy" => ~a /\ scratch.done < N
          /\ Decision(a) = "commit" => ~a /\ ~(scratch.done < N)
          /\ Decision(a) = "forget" => a /\ scratch.done <= 1
          /\ Decision(a) = "restore" => a /\ ~(scratch.done <= 1)
          /\ Decision(a) \in {"stage", "copy", "commit", "forget", "restore", "cleanup"}
      BY <2>4 DEF Decision, Answers, ScratchValid
    <3> QED
      BY <1>0, <2>1, <2>2, <3>1, <3>2 DEF MediumInv, TypeOK, ForwardSteps, BackSteps
  <2> QED
    BY <2>1, <2>3, <2>4
<1>2. CASE CopyData
  <2>1. c < N /\ ~HeaderLooksValid /\ ~abort /\ scratch.kind = "staged"
    BY <1>0, <1>2 DEF CopyData, MediumInv, ForwardSteps
  <2>2. N - 1 - c + 1 \in 1 .. N /\ N - 1 - c \in 0 .. N /\ LegacyKey \in Nat
    BY <2>1 DEF LegacyKey
  <2>3. Cipher(k, N - 1 - c, Decrypt(LegacyKey, N - 1 - c, N - 1 - c)) \in Cells
    BY <2>2, CipherIsCell
  <2>4. /\ disk' = [disk EXCEPT ![N - 1 - c + 1] =
                        Cipher(k, N - 1 - c, Decrypt(LegacyKey, N - 1 - c, N - 1 - c))]
        /\ pc' = "copied" /\ UNCHANGED <<scratch, gen, abort, status, faults, ahead, reversed>>
    BY <1>0, <1>2 DEF CopyData
  <2>5. ~HeaderLooksValid' /\ disk' \in [0 .. N -> Cells]
    BY <2>1, <2>2, <2>3, <2>4, DataWrite
  <2> QED
    BY <1>0, <2>1, <2>4, <2>5 DEF TypeOK, Steps, MediumInv, ForwardSteps, BackSteps
<1>3. CASE RestoreData
  <2>1. c >= 2 /\ ~HeaderLooksValid /\ abort /\ scratch.kind = "staged"
    BY <1>0, <1>3 DEF RestoreData, MediumInv, BackSteps
  <2>2. N - 1 - (c - 2) \in 1 .. N /\ N - 1 - (c - 2) + 1 \in 0 .. N /\ LegacyKey \in Nat
    BY <2>1 DEF LegacyKey
  <2>3. Cipher(LegacyKey, N - 1 - (c - 2),
               Decrypt(k, N - 1 - (c - 2), N - 1 - (c - 2) + 1)) \in Cells
    BY <2>2, CipherIsCell
  <2>4. /\ disk' = [disk EXCEPT ![N - 1 - (c - 2)] =
                        Cipher(LegacyKey, N - 1 - (c - 2),
                               Decrypt(k, N - 1 - (c - 2), N - 1 - (c - 2) + 1))]
        /\ pc' = "restored" /\ UNCHANGED <<scratch, gen, abort, status, faults, ahead, reversed>>
    BY <1>0, <1>3 DEF RestoreData
  <2>5. ~HeaderLooksValid' /\ disk' \in [0 .. N -> Cells]
    BY <2>1, <2>2, <2>3, <2>4, DataWrite
  <2> QED
    BY <1>0, <2>1, <2>4, <2>5 DEF TypeOK, Steps, MediumInv, ForwardSteps, BackSteps
<1>4. CASE TearData
  <2> DEFINE lba == IF pc = "copy" THEN N - c ELSE N + 1 - c
  <2>1. lba \in 1 .. N /\ ~HeaderLooksValid
    BY <1>0, <1>4 DEF TearData, MediumInv, ForwardSteps, BackSteps
  <2>2. disk' = [disk EXCEPT ![lba] = Damaged] /\ scratch' = scratch /\ pc' = "idle"
    BY <1>0, <1>4 DEF TearData, Cut
  <2>3. Damaged \in Cells
    BY DEF Damaged, Cipher, Cells, LegacyKey, Noise
  <2> HIDE DEF lba
  <2>4. disk' \in [0 .. N -> Cells]
    BY <2>1, <2>2, <2>3, DataWrite
  <2> QED
    BY <1>4, <2>2, <2>4 DEF TypeOK, TearData, Cut, Direction, Steps, MediumInv, ForwardSteps, BackSteps
<1>5. CASE CommitHeader
  <2>1. disk'[0] = HeaderCell(k) /\ disk' \in [0 .. N -> Cells]
    BY <1>0, <1>5 DEF CommitHeader, TypeOK, HeaderCell, Cipher, Cells, HeaderMark, Noise
  <2>2. HeaderLooksValid'
    BY <2>1 DEF HeaderLooksValid, HeaderCell, Cipher
  <2> QED
    BY <1>5, <2>1, <2>2 DEF CommitHeader, TypeOK, Steps, MediumInv, ForwardSteps, BackSteps
<1>6. CASE Stage \/ CopyCheckpoint \/ CommitCheckpoint \/ RestoreCheckpoint \/ Forget \/ Cleanup
  <2>1. pc' = "idle" /\ disk' = disk
    BY <1>6 DEF Stage, CopyCheckpoint, CommitCheckpoint, RestoreCheckpoint, Forget, Cleanup, Return
  <2>2. MediumInv'
    BY <2>1 DEF MediumInv, ForwardSteps, BackSteps
  <2>3. scratch' \in [kind : {"zero", "foreign", "torn", "staged"}, key : Nat,
                      done : 0 .. N, flags : {"in_progress", "completed"}] /\ gen' \in Nat
    BY <1>0, <1>6 DEF TypeOK, MediumInv, Stage, CopyCheckpoint, CommitCheckpoint, RestoreCheckpoint,
       Forget, Cleanup, Staged, Zero
  <2> QED
    BY <1>6, <2>1, <2>2, <2>3 DEF TypeOK, Steps, Answers, Stage, CopyCheckpoint, CommitCheckpoint,
       RestoreCheckpoint, Forget, Cleanup, Return
<1>7. CASE Interrupt \/ TearScratch
  <2>1. /\ pc' = "idle" /\ disk' = disk /\ gen' = gen /\ abort' = abort /\ reversed' = reversed
        /\ status' = "none" /\ faults' = faults + 1
        /\ ahead' \in {"none", "forward", "abort"}
    BY <1>7 DEF Interrupt, TearScratch, Cut, Direction, TypeOK
  <2>2. scratch' = scratch \/ scratch' = TornScratch(0) \/ scratch' = TornScratch(k)
    BY <1>0, <1>7 DEF Interrupt, TearScratch
  <2>3. scratch' \in [kind : {"zero", "foreign", "torn", "staged"}, key : Nat,
                      done : 0 .. N, flags : {"in_progress", "completed"}]
    BY <2>2 DEF TypeOK, TornScratch
  <2> QED
    BY <2>1, <2>3 DEF TypeOK, Steps, MediumInv, ForwardSteps, BackSteps
<1>8. CASE UNCHANGED vars
  BY <1>8 DEF vars, TypeOK, MediumInv, HeaderLooksValid
<1> QED
  BY <1>1, <1>2, <1>3, <1>4, <1>5, <1>6, <1>7, <1>8 DEF Next, Step, Fault

\* What was given up by a reversal does not come back.
LEMMA ReversedStays ==
    ASSUME [Next]_vars, reversed \in BOOLEAN, reversed
    PROVE  reversed'
BY DEF Next, Step, Fault, vars, Call, Stage, CopyData, CopyCheckpoint, CommitHeader,
       CommitCheckpoint, RestoreData, RestoreCheckpoint, Forget, Cleanup, Return,
       Interrupt, TearData, TearScratch, Cut

LEMMA NextPreserves ==
    ASSUME IInv, [Next]_vars
    PROVE  IInv'
<1>1. TypeOK' /\ MediumInv'
  BY MediumPreserved DEF IInv
<1>2. ASSUME ~reversed' PROVE KInv'
  <2>1. ~reversed
    BY <1>2, ReversedStays DEF IInv, TypeOK
  <2> QED
    BY <1>2, <2>1, KNextPreserves DEF IInv
<1> QED
  BY <1>1, <1>2 DEF IInv

LEMMA InductiveInvariant == Spec => []IInv
<1>1. Init => IInv
  BY InitInv DEF IInv, KInv, CallInv
<1>2. IInv /\ [Next]_vars => IInv'
  BY NextPreserves
<1> QED
  BY <1>1, <1>2, PTL DEF Spec

\* The code behaviour: the order of the two writes of a copy and of a restore
\* step, and the block each picks.  Whatever the size of the volume and wherever
\* calls are cut short or blocks written in part, with either flag at every call, a
\* block is lost only by a call that goes the other way after such a cut.
THEOREM NoOtherLoss == Spec => []LossNeedsReversal
<1>1. IInv => LossNeedsReversal
  BY DEF IInv, KInv, LossNeedsReversal
<1> QED
  BY <1>1, InductiveInvariant, PTL

\* A call that finds the header in force is past the writes of data.
LEMMA HeaderStill ==
    ASSUME IInv, [Next]_vars, HeaderLooksValid
    PROVE  disk' = disk
<1>1. pc \notin {"copy", "commit", "restore"}
  BY DEF IInv, MediumInv, ForwardSteps, BackSteps
<1> QED
  BY <1>1 DEF Next, Step, Fault, vars, Call, Stage, CopyData, CopyCheckpoint,
     CommitHeader, CommitCheckpoint, RestoreData, RestoreCheckpoint, Forget,
     Cleanup, Interrupt, TearData, TearScratch

\* The code behaviour: LBA 0 is written once, last, by the commit; a call that
\* finds a header there cleans the scratch block and touches nothing else.
THEOREM HeaderStays == Spec => HeaderIsFinal
<1>1. IInv /\ [Next]_vars => [HeaderLooksValid => UNCHANGED disk]_vars
  BY HeaderStill
<1> QED
  BY <1>1, InductiveInvariant, PTL DEF Spec, HeaderIsFinal

\* The code behaviour: a header is staged only into a blank scratch block, so
\* the key that blocks were copied under is not replaced beneath them.
THEOREM StagedKeyStays == Spec => KeyKept
<1> DEFINE Keeps == /\ scratch.kind = "staged" /\ scratch.done > 0
                    /\ scratch'.kind = "staged"
                    => scratch'.key = scratch.key
<1>1. IInv /\ [Next]_vars => [Keeps]_vars
  <2> SUFFICES ASSUME IInv, [Next]_vars, scratch.kind = "staged", scratch'.kind = "staged"
               PROVE  scratch'.key = scratch.key
    OBVIOUS
  <2>1. pc # "stage"
    BY DEF IInv, MediumInv, Zero
  <2>2. CASE (\E a \in BOOLEAN : Call(a)) \/ UNCHANGED vars
    BY <2>2 DEF Call, vars
  <2>3. CASE Step
    BY <2>1, <2>3 DEF Step, Stage, CopyData, CopyCheckpoint, CommitHeader,
       CommitCheckpoint, RestoreData, RestoreCheckpoint, Forget, Cleanup, Staged, Zero
  <2>4. CASE Fault
    <3>1. CASE Interrupt \/ TearData
      BY <3>1 DEF Interrupt, TearData
    <3>2. CASE TearScratch
      <4>1. PICK k : scratch' = TornScratch(k)
        BY <3>2, Zenon DEF TearScratch
      <4> QED
        BY <4>1 DEF TornScratch
    <3> QED
      BY <2>4, <3>1, <3>2 DEF Fault
  <2> QED
    BY <2>2, <2>3, <2>4 DEF Next
<1> QED
  BY <1>1, InductiveInvariant, PTL DEF Spec, KeyKept

-----------------------------------------------------------------------------
(* The migration implements RekeyPromise *)

HoldersMap == [b \in Blocks |-> HoldersOf(b)]

\* No block is lost, in the promise's terms.
LEMMA HoldersHeld ==
    ASSUME KInv, NEW b \in Blocks
    PROVE  HoldersOf(b) \in Promise!Held
<1>1. HoldersOf(b) \in SUBSET {"legacy", "target"}
  BY DEF HoldersOf
<1>2. HoldersOf(b) # {}
  BY DEF KInv, Recoverable, HoldersOf
<1> QED
  BY <1>1, <1>2 DEF Promise!Held, Promise!Domains

\* One write to one LBA of a volume still legacy is one move.
LEMMA WriteIsMove ==
    ASSUME KInv, KInv', ~HeaderLooksValid, ~HeaderLooksValid', scratch'.key = scratch.key,
           reversed' = reversed, NEW l \in 1 .. N, \A m \in 0 .. N : m # l => disk'[m] = disk[m]
    PROVE  Promise!Move
<1> USE GeometryAssumption
<1>1. l - 1 \in Blocks
  BY DEF Blocks
<1>2. PICK c \in Blocks : c = (IF l \in Blocks THEN l ELSE l - 1)
  BY <1>1
<1>3. \A b \in Blocks : b # l - 1 /\ b # c => HoldersOf(b)' = HoldersOf(b)
  BY <1>2 DEF HoldersOf, LegacyCopy, TargetCopy, Blocks
<1>4. HoldersOf(l - 1)' \in Promise!Held /\ HoldersOf(c)' \in Promise!Held
  <2>1. \A b \in Blocks : HoldersOf(b)' \in Promise!Held
    <3> TAKE b \in Blocks
    <3>1. HoldersOf(b)' \in SUBSET {"legacy", "target"}
      BY DEF HoldersOf
    <3>2. HoldersOf(b)' # {}
      BY DEF KInv, Recoverable, HoldersOf
    <3> QED
      BY <3>1, <3>2 DEF Promise!Held, Promise!Domains
  <2> QED
    BY <1>1, <1>2, <2>1
<1>5. HoldersMap' = [HoldersMap EXCEPT ![l - 1] = HoldersOf(l - 1)', ![c] = HoldersOf(c)']
  BY <1>1, <1>2, <1>3 DEF HoldersMap
<1>6. \E b, d \in Blocks : \E S, T \in Promise!Held :
          HoldersMap' = [HoldersMap EXCEPT ![b] = S, ![d] = T]
  BY <1>1, <1>2, <1>4, <1>5
<1>7. UNCHANGED HeaderLooksValid
  BY DEF HeaderLooksValid
<1> QED
  BY <1>6, <1>7 DEF Promise!Move, HoldersMap

LEMMA InitPromise == Init => Promise!Init
<1> SUFFICES ASSUME Init PROVE Promise!Init
  OBVIOUS
<1> USE GeometryAssumption
<1>1. ~HeaderLooksValid
  BY DEF Init, HeaderLooksValid, HeaderMark, Cipher
<1>2. \A b \in Blocks : LegacyCopy(b)
  BY DEF Init, Blocks, LegacyCopy
<1>3. scratch.key = 0
  BY DEF Init, Zero, Foreign
<1>4. \A b \in Blocks : HoldersOf(b) = {"legacy"}
  BY <1>1, <1>2, <1>3 DEF HoldersOf
<1> QED
  BY <1>1, <1>4 DEF Promise!Init, Init

\* The medium and the staged key unchanged: nothing the promise speaks of.
LEMMA SameDisk ==
    ASSUME disk' = disk, HeaderLooksValid \/ scratch'.key = scratch.key
    PROVE  UNCHANGED HoldersMap /\ UNCHANGED HeaderLooksValid
<1>1. HeaderLooksValid' = HeaderLooksValid
  BY DEF HeaderLooksValid
<1>2. \A b \in Blocks : HoldersOf(b)' = HoldersOf(b)
  BY <1>1 DEF HoldersOf, LegacyCopy, TargetCopy, HeaderLooksValid
<1> QED
  BY <1>1, <1>2 DEF HoldersMap

\* The key given up in front of a whole legacy volume.
LEMMA KeyGivenUp ==
    ASSUME AllLegacy, ~HeaderLooksValid, disk' = disk, scratch'.key = 0, reversed' = reversed
    PROVE  Promise!Forget
<1>1. UNCHANGED HeaderLooksValid
  BY DEF HeaderLooksValid
<1>2. \A b \in Blocks : "legacy" \in HoldersOf(b)
  BY DEF HoldersOf, AllLegacy
<1>3. \A b \in Blocks : HoldersOf(b)' = {"legacy"}
  BY <1>1 DEF HoldersOf, AllLegacy, LegacyCopy
<1>4. HoldersMap' = [b \in Blocks |-> {"legacy"}]
  BY <1>3 DEF HoldersMap
<1>5. \A b \in Blocks : "legacy" \in HoldersMap[b]
  BY <1>2 DEF HoldersMap
<1> QED
  BY <1>1, <1>4, <1>5 DEF Promise!Forget, HoldersMap

LEMMA CommitIsCommit ==
    ASSUME KInv, KInv', CommitHeader
    PROVE  Promise!Commit
<1> USE GeometryAssumption
<1>0. PICK k \in Nat : scratch.key = k
  BY DEF KInv, TypeOK
<1>1. ~HeaderLooksValid /\ k > 0 /\ \A b \in Blocks : TargetCopy(k, b)
  BY <1>0 DEF CommitHeader, KInv, CallInv, MediumInv, DiskInv, ForwardSteps, Forward, Blocks
<1>2. HeaderLooksValid'
  BY <1>0 DEF KInv, TypeOK, CommitHeader, HeaderCell, Cipher, HeaderLooksValid
<1>3. \A b \in Blocks : "target" \in HoldersOf(b)
  BY <1>0, <1>1 DEF HoldersOf
<1>4. \A b \in Blocks : HoldersOf(b)' = {"target"}
  BY <1>2 DEF HoldersOf, KInv, Recoverable
<1>5. HoldersMap' = [b \in Blocks |-> {"target"}]
  BY <1>4 DEF HoldersMap
<1>6. \A b \in Blocks : "target" \in HoldersMap[b]
  BY <1>3 DEF HoldersMap
<1>7. HeaderLooksValid' = TRUE
  BY <1>2 DEF HeaderLooksValid
<1>8. reversed' = reversed
  BY DEF CommitHeader
<1> QED
  BY <1>1, <1>5, <1>6, <1>7, <1>8 DEF Promise!Commit, HoldersMap

\* A blank block takes a header: only block N - 1 can have been left behind
\* in the header's domain, so staging is a move of that one block.
LEMMA StageIsMove ==
    ASSUME KInv, KInv', Stage
    PROVE  Promise!Move
<1> USE GeometryAssumption
<1>1. /\ AllLegacy /\ ~HeaderLooksValid /\ scratch.key = 0 /\ disk' = disk
      /\ scratch'.key = gen + 1 /\ gen \in Nat
  BY DEF Stage, KInv, TypeOK, CallInv, MediumInv, DiskInv, ForwardSteps, Zero, Staged
<1>2. UNCHANGED HeaderLooksValid /\ \A b \in Blocks : LegacyCopy(b)'
  BY <1>1 DEF HeaderLooksValid, AllLegacy, LegacyCopy
<1>3. \A b \in Blocks : HoldersOf(b) = {"legacy"}
  BY <1>1 DEF HoldersOf, AllLegacy
<1>4. N - 1 \in Blocks
  BY DEF Blocks
<1>5. \A b \in Blocks : b # N - 1 => HoldersOf(b)' = {"legacy"}
  <2> SUFFICES ASSUME NEW b \in Blocks, b # N - 1
               PROVE  HoldersOf(b)' = {"legacy"}
    OBVIOUS
  <2>1. b + 1 \in Blocks
    BY DEF Blocks
  <2>2. LegacyCopy(b + 1)
    BY <1>1, <2>1 DEF AllLegacy
  <2>3. ~TargetCopy(gen + 1, b)
    BY <1>1, <2>2 DEF LegacyCopy, TargetCopy, Cipher, LegacyKey
  <2>4. ~TargetCopy(scratch.key, b)'
    BY <1>1, <2>3 DEF TargetCopy
  <2> QED
    BY <1>1, <1>2, <2>4 DEF HoldersOf
<1>6. HoldersOf(N - 1)' \in Promise!Held
  <2>1. HoldersOf(N - 1)' \in SUBSET {"legacy", "target"}
    BY DEF HoldersOf
  <2>2. HoldersOf(N - 1)' # {}
    BY <1>1, <1>2, <1>4 DEF HoldersOf
  <2> QED
    BY <2>1, <2>2 DEF Promise!Held, Promise!Domains
<1>7. HoldersMap' = [HoldersMap EXCEPT ![N - 1] = HoldersOf(N - 1)', ![N - 1] = HoldersOf(N - 1)']
  BY <1>3, <1>4, <1>5 DEF HoldersMap
<1>8. \E b, d \in Blocks : \E S, T \in Promise!Held :
          HoldersMap' = [HoldersMap EXCEPT ![b] = S, ![d] = T]
  BY <1>4, <1>6, <1>7
<1>9. reversed' = reversed
  BY DEF Stage, Return
<1> QED
  BY <1>1, <1>2, <1>8, <1>9 DEF Promise!Move, HoldersMap

\* The writes of a copy and of a restore, whole or in part, are moves.
LEMMA DataWriteIsMove ==
    ASSUME KInv, KInv', CopyData \/ RestoreData \/ TearData
    PROVE  Promise!Move
<1> USE GeometryAssumption
<1>0. PICK c \in 0 .. N : scratch.done = c
  BY DEF KInv, TypeOK
<1>1. PICK l \in 1 .. N : \A m \in 0 .. N : m # l => disk'[m] = disk[m]
  <2>1. CASE CopyData
    <3>1. c < N
      BY <1>0, <2>1 DEF CopyData, KInv, CallInv, MediumInv
    <3>2. N - 1 - c + 1 \in 1 .. N
      BY <3>1
    <3> QED
      BY <1>0, <2>1, <3>2 DEF CopyData, KInv, TypeOK
  <2>2. CASE RestoreData
    <3>1. c >= 2
      BY <1>0, <2>2 DEF RestoreData, KInv, CallInv, MediumInv
    <3>2. N - 1 - (c - 2) \in 1 .. N
      BY <3>1
    <3> QED
      BY <1>0, <2>2, <3>2 DEF RestoreData, KInv, TypeOK
  <2>3. CASE TearData
    <3>1. (pc = "copy" /\ c < N) \/ (pc = "restore" /\ c >= 2)
      BY <1>0, <2>3 DEF TearData, KInv, CallInv, MediumInv
    <3>2. (IF pc = "copy" THEN N - c ELSE N + 1 - c) \in 1 .. N
      BY <3>1
    <3> QED
      BY <1>0, <2>3, <3>2 DEF TearData, KInv, TypeOK
  <2> QED
    BY <2>1, <2>2, <2>3
<1>2. scratch' = scratch /\ reversed' = reversed /\ pc \in {"copy", "restore"}
  BY DEF CopyData, RestoreData, TearData, Cut
<1>3. ~HeaderLooksValid
  BY <1>2 DEF KInv, CallInv, MediumInv, ForwardSteps, BackSteps
<1>4. ~HeaderLooksValid'
  BY <1>1, <1>3 DEF HeaderLooksValid
<1> QED
  BY <1>1, <1>2, <1>3, <1>4, WriteIsMove

LEMMA KStepPromise ==
    ASSUME KInv, KInv', [Next]_vars, reversed' = reversed
    PROVE  Promise!Next \/ UNCHANGED <<HoldersMap, HeaderLooksValid, reversed>>
<1>1. CASE CopyData \/ RestoreData \/ TearData
  BY <1>1, DataWriteIsMove DEF Promise!Next
<1>2. CASE Stage
  BY <1>2, StageIsMove DEF Promise!Next
<1>3. CASE CommitHeader
  BY <1>3, CommitIsCommit DEF Promise!Next
<1>4. CASE Forget
  <2>1. AllLegacy /\ ~HeaderLooksValid /\ disk' = disk /\ scratch'.key = 0
    BY <1>4, ForgetFindsLegacy DEF Forget, Zero
  <2> QED
    BY <2>1, KeyGivenUp DEF Promise!Next
<1>5. CASE CopyCheckpoint \/ RestoreCheckpoint \/ Interrupt \/ UNCHANGED vars
           \/ \E a \in BOOLEAN : Call(a)
  <2>1. disk' = disk /\ scratch'.key = scratch.key
    BY <1>5 DEF CopyCheckpoint, RestoreCheckpoint, Interrupt, Cut, Call, vars, Staged
  <2> QED
    BY <2>1, SameDisk
<1>6. CASE CommitCheckpoint \/ Cleanup
  <2>1. disk' = disk /\ HeaderLooksValid
    BY <1>6 DEF CommitCheckpoint, Cleanup, KInv, CallInv, MediumInv
  <2> QED
    BY <2>1, SameDisk
<1>7. CASE TearScratch
  <2>1. disk' = disk
    BY <1>7 DEF TearScratch
  <2>2. CASE pc = "forget"
    <3>1. AllLegacy /\ ~HeaderLooksValid
      BY <2>2, ForgetFindsLegacy
    <3>2. scratch'.key = 0 \/ scratch'.key = scratch.key
      BY <1>7, <2>2 DEF TearScratch, TornScratch
    <3> QED
      BY <2>1, <3>1, <3>2, KeyGivenUp, SameDisk DEF Promise!Next
  <2>3. CASE pc \in {"committed", "cleanup"}
    <3>1. HeaderLooksValid
      BY <2>3 DEF KInv, CallInv, MediumInv
    <3> QED
      BY <2>1, <3>1, SameDisk
  <2>4. CASE pc \in {"copied", "restored", "stage"}
    <3>1. scratch'.key = scratch.key
      BY <1>7, <2>4 DEF TearScratch, TornScratch, KInv, CallInv, MediumInv, Zero
    <3> QED
      BY <2>1, <3>1, SameDisk
  <2> QED
    BY <1>7, <2>2, <2>3, <2>4 DEF TearScratch
<1> QED
  BY <1>1, <1>2, <1>3, <1>4, <1>5, <1>6, <1>7 DEF Next, Step, Fault

\* The step of a reversal itself: a call has decided, nothing is written yet.
LEMMA ReversalStep ==
    ASSUME IInv, [Next]_vars, ~reversed, reversed'
    PROVE  Promise!Reverse
<1>1. PICK a \in BOOLEAN : Call(a)
  BY DEF Next, Step, Fault, vars, Stage, CopyData, CopyCheckpoint, CommitHeader,
     CommitCheckpoint, RestoreData, RestoreCheckpoint, Forget, Cleanup, Return,
     Interrupt, TearData, TearScratch, Cut
<1>2. disk' = disk /\ scratch' = scratch /\ reversed' \in BOOLEAN
  BY <1>1 DEF Call, IInv, TypeOK
<1>3. UNCHANGED HoldersMap /\ UNCHANGED HeaderLooksValid
  BY <1>2, SameDisk
<1> QED
  BY <1>2, <1>3 DEF Promise!Reverse, HoldersMap

\* After it, all that is left is that the header in force is final.
LEMMA ReversedPromise ==
    ASSUME IInv, IInv', [Next]_vars, reversed, reversed'
    PROVE  Promise!Lose \/ UNCHANGED <<HoldersMap, HeaderLooksValid, reversed>>
<1>0. reversed' = reversed
  BY DEF IInv, TypeOK
<1>1. CASE HeaderLooksValid
  <2>1. disk' = disk
    BY <1>1, HeaderStill
  <2> QED
    BY <1>0, <1>1, <2>1, SameDisk
<1>2. CASE ~HeaderLooksValid
  <2>1. \A b \in Blocks : HoldersOf(b)' \in SUBSET Promise!Domains
    BY DEF HoldersOf, Promise!Domains
  <2>2. HoldersMap' \in [Blocks -> SUBSET Promise!Domains]
    BY <2>1 DEF HoldersMap
  <2>3. HeaderLooksValid' \in BOOLEAN
    BY DEF HeaderLooksValid
  <2> QED
    BY <1>0, <1>2, <2>2, <2>3 DEF Promise!Lose, HoldersMap
<1> QED
  BY <1>1, <1>2

\* The code behaviour: the whole migration, with its aborts and everything that
\* cuts a call short, is one of the behaviours RekeyPromise allows: unless a caller
\* goes the other way after a cut between two writes, each block is held by one of
\* the two domains throughout, and the header takes over only when its own domain
\* holds them all; once it has taken over, nothing moves.
THEOREM MigrationKeepsPromise == Spec => KeepsPromise
<1>1. IInv /\ IInv' /\ [Next]_vars
        => [Promise!Next]_<<HoldersMap, HeaderLooksValid, reversed>>
  <2> SUFFICES ASSUME IInv, IInv', [Next]_vars
               PROVE  Promise!Next \/ UNCHANGED <<HoldersMap, HeaderLooksValid, reversed>>
    OBVIOUS
  <2>1. reversed \in BOOLEAN /\ reversed' \in BOOLEAN
    BY DEF IInv, TypeOK
  <2>2. CASE ~reversed /\ ~reversed'
    <3>1. KInv /\ KInv' /\ reversed' = reversed
      BY <2>1, <2>2 DEF IInv
    <3> QED
      BY <3>1, KStepPromise
  <2>3. CASE ~reversed /\ reversed'
    BY <2>3, ReversalStep DEF Promise!Next
  <2>4. CASE reversed
    <3>1. reversed'
      BY <2>1, <2>4, ReversedStays
    <3> QED
      BY <2>4, <3>1, ReversedPromise DEF Promise!Next
  <2> QED
    BY <2>1, <2>2, <2>3, <2>4
<1>2. IInv /\ IInv' /\ [Next]_vars
        => [Promise!Next]_<<[b \in Blocks |-> HoldersOf(b)], HeaderLooksValid, reversed>>
  BY <1>1 DEF HoldersMap
<1> QED
  BY <1>2, InitPromise, InductiveInvariant, PTL DEF Spec, KeepsPromise, Promise!Spec
=============================================================================

------------------------ MODULE BootSlotPromiseProofs ------------------------
(***************************************************************************)
(* Proofs about BootSlotStore, continued: what a running system may rely   *)
(* on (the medium agrees with RAM, an attempt is spent before it runs, a   *)
(* client arms what it staged, generations never go back) and that the     *)
(* store, sector by sector, implements the A/B update of ABUpdate.         *)
(*                                                                         *)
(* The inductive invariant has four layers, each proved from the ones      *)
(* below it: Phase, where the machine is and what may be in the device     *)
(* cache; Mirrors, which record is the newest and what a write in progress *)
(* is about to replace; Decision, what the record being written or left in *)
(* the cache decides about the update, and Vouched, that the medium vouches*)
(* for the running kernel; Budget, attempts and staged tokens.             *)
(***************************************************************************)
EXTENDS BootSlotStoreProofs

Writing(fs) == InControl /\ wr.for \in fs

Installing == {"init1", "init2"}
Loading    == {"spend", "rollback"}
Staging    == {"stage1", "stage2", "publish"}
Commands   == {"arm", "confirm"}

-----------------------------------------------------------------------------
(* Phase: who may be doing what *)

Where ==
    /\ mode \in {"off", "halted"} => pc = "idle"
    /\ mode = "install" => InData \/ Writing(Installing)
    /\ mode = "loader" =>
          pc \in {"bind", "select", "load"} \/ Writing(Loading)
    /\ mode = "kernel" =>
          pc \in {"idle", "bind"} \/ InData \/ Writing(Staging \union Commands)
    /\ ~InControl => wr = NoWrite

\* The provider, the bound state and the claim exist only where they may.
Holds ==
    /\ provider => mode = "kernel" /\ bsp.ready
    /\ mode = "kernel" /\ (InControl \/ InData) => provider
    /\ pc = "bind" => ~bsp.ready
    /\ mode = "loader" /\ pc # "bind" => bsp.ready
    /\ bsp.claimed => mode = "kernel" /\ (InData \/ Writing(Staging))
    /\ mode # "kernel" => running = NoImage
    /\ mode # "kernel" \/ pc = "bind" =>
          \A c \in Clients : client[c].step = "none"

Clean == ctl = vctl /\ hdr = vhdr /\ pay = vpay

\* When nothing is left in the device cache.
Flushed ==
    /\ mode = "off" => Clean
    /\ pc \in {"bind", "select", "load", "ctlWrite"} => Clean
    /\ provider /\ pc = "idle" => Clean
    /\ InData => ctl = vctl

Phase == Where /\ Holds /\ Flushed

-----------------------------------------------------------------------------
(* Mirrors: the newest record and the one that will replace it *)

\* RAM holds the newest record, except once it has been superseded by the
\* write in progress.
RamCurrent ==
    bsp.ready /\ ~Writing({"stage2"}) /\ pc # "ctlVerify" =>
        /\ HasRecord
        /\ Durable = Record(bsp.generation, bsm)
        /\ Newest(ctl) = bsp.copy

\* A record goes to the mirror that is not the newest, with a newer generation.
Ahead ==
    /\ pc \in {"ctlWrite", "ctlFlush"} /\ wr.for = "init1" =>
          ~HasRecord /\ wr.copy = 0
    /\ pc \in {"ctlWrite", "ctlFlush"} /\ wr.for # "init1" =>
          HasRecord /\ wr.copy = Other(Newest(ctl)) /\ Durable.gen < wr.gen
    /\ pc = "ctlFlush" =>
          vctl = [ctl EXCEPT ![wr.copy] = Record(wr.gen, wr.mgr)]
    /\ pc = "ctlVerify" =>
          HasRecord /\ Newest(ctl) = wr.copy /\ Durable = Record(wr.gen, wr.mgr)

\* The writes that come in pairs, and what they mean for the generation in RAM.
Pairs ==
    /\ Writing({"init1"}) => wr.gen = 1 /\ wr.copy = 0
    /\ Writing({"stage1"}) => /\ wr.gen = bsp.generation + 1
                              /\ bsp.generation + 3 <= GenMax
    /\ Writing({"stage2"}) => wr.gen = bsp.generation + 2
    /\ Writing({"init2", "stage2"}) => HasRecord /\ Durable.mgr = wr.mgr
    /\ Writing(Staging \union Commands \union Loading) => wr.gen > bsp.generation

Mirrors == RamCurrent /\ Ahead /\ Pairs

-----------------------------------------------------------------------------
(* Decision: what a record that is about to count says of the update *)

Good(m)  == m.img[m.confirmed]
Armed(m) == m.pending # NoSlot
Trial(m) == IF Armed(m) THEN m.img[m.pending] ELSE NoImage
Fresh(m) == Armed(m) /\ m.tries > 0

\* The record n next to the durable one: nothing new, or one of the decisions
\* of ABUpdate.
Keeps(n) ==
    /\ Good(n) = GoodImage /\ Trial(n) = TrialImage /\ (Fresh(n) <=> FreshTrial)
Installs(n) ==
    /\ GoodImage = NoImage /\ Good(n) \in Images
    /\ Trial(n) = TrialImage /\ (Fresh(n) <=> FreshTrial)
Arms(n) ==
    /\ running = GoodImage /\ GoodImage # NoImage /\ TrialImage = NoImage
    /\ Trial(n) \in Images /\ Fresh(n) /\ Good(n) = GoodImage
Spends(n) ==
    /\ running = NoImage /\ TrialImage # NoImage /\ FreshTrial
    /\ ~Fresh(n) /\ Good(n) = GoodImage /\ Trial(n) = TrialImage
RollsBack(n) ==
    /\ running = NoImage /\ TrialImage # NoImage /\ ~FreshTrial
    /\ Trial(n) = NoImage /\ Good(n) = GoodImage /\ (Fresh(n) <=> FreshTrial)
Accepts(n) ==
    /\ running = TrialImage /\ TrialImage # NoImage /\ ~FreshTrial
    /\ Good(n) = TrialImage /\ Trial(n) = NoImage /\ (Fresh(n) <=> FreshTrial)

Decides(n) ==
    \/ Keeps(n) \/ Installs(n) \/ Arms(n) \/ Spends(n) \/ RollsBack(n)
    \/ Accepts(n)

\* Each caller of bs_write_verified makes its own decision and no other.
Intent ==
    pc \in {"ctlWrite", "ctlFlush"} =>
        /\ wr.for = "init1" => Installs(wr.mgr)
        /\ wr.for \in {"init2", "stage1", "stage2", "publish"} => Keeps(wr.mgr)
        /\ wr.for = "arm" => Arms(wr.mgr)
        /\ wr.for = "spend" => Spends(wr.mgr)
        /\ wr.for = "rollback" => RollsBack(wr.mgr)
        /\ wr.for = "confirm" => Accepts(wr.mgr)

\* A record left in the cache is newer than the durable one, in the other
\* mirror, and makes one decision.
Cached ==
    \A c \in Copies : vctl[c] # ctl[c] =>
        /\ Usable(vctl[c])
        /\ Decides(vctl[c].mgr)
        /\ IF HasRecord
           THEN c = Other(Newest(ctl)) /\ vctl[c].gen > Durable.gen
           ELSE c = 0

\* The kernel that runs is the confirmed slot of m or its spent attempt.
Vouches(m) ==
    /\ attempt.slot \in {m.confirmed, m.pending}
    /\ running = m.img[attempt.slot]
    /\ attempt.flag = "pending" /\ m.pending = attempt.slot => m.tries = 0

Vouched ==
    /\ mode = "kernel" =>
          /\ HasRecord /\ Vouches(Durable.mgr)
          /\ InControl => Vouches(wr.mgr)
    /\ pc = "load" => IF op.sel = 1 THEN op.slot = bsm.pending /\ bsm.tries = 0
                      ELSE op.slot = bsm.confirmed /\ bsm.pending = NoSlot
    /\ Writing({"spend"}) => wr.mgr.tries = 0
    /\ Writing({"rollback"}) => wr.mgr.pending = NoSlot

Decision == Intent /\ Cached /\ Vouched

-----------------------------------------------------------------------------
(* Budget: one boot per armed image, and tokens that name what they staged *)

OneTry(m) == Armed(m) => m.boots[m.pending] + m.tries = MaxTries

Tries ==
    /\ \A c \in Copies : /\ Usable(ctl[c])  => OneTry(ctl[c].mgr)
                         /\ Usable(vctl[c]) => OneTry(vctl[c].mgr)
    /\ InControl => OneTry(wr.mgr)
    /\ bsp.ready => OneTry(bsm)

Staged ==
    /\ \A c \in Clients : client[c].step = "staged" =>
          /\ client[c].gen <= bsp.generation
          /\ client[c].gen = bsp.generation =>
                /\ bsm.img[client[c].slot] = client[c].img
                /\ bsm.boots[client[c].slot] = 0
    /\ Writing({"publish", "arm"}) => wr.mgr.img[op.slot] = op.img
    /\ Writing({"publish"}) => wr.mgr.boots[op.slot] = 0

Budget == Tries /\ Staged

BootInv == StoreInv /\ Phase /\ Mirrors /\ Decision /\ Budget


-----------------------------------------------------------------------------
(* Every step keeps Phase *)

\* The machine is switched off, the disk blank.
LEMMA InitPhase == Init => Phase
BY SMTT(60) DEF Init, Phase, Where, Holds, Flushed, Clean, Writing, InControl, InData,
       Unbound, NoToken

\* The machine is always in one of its phases.
LEMMA NextPhase ==
    ASSUME StoreInv, Phase, [Next]_vars PROVE Phase'
<1> USE DEF Phase, Where, Holds, Flushed, Clean, Writing, Installing, Loading,
            Staging, Commands, InControl, InData, mediumVars, viewVars,
            bootVars, ramVars
<1>t. /\ mode \in Modes /\ pc \in Steps /\ bsp \in Rams
      /\ client \in [Clients -> Tokens] /\ op.client \in Clients \union {NoClient}
      /\ provider \in BOOLEAN
  BY DEF StoreInv, TypeInv, TypeOK, Rams, Tokens
<1>v. pc \in {"payVerify", "hdrVerify", "ctlVerify"} => Clean
  BY DEF StoreInv, SpareTarget, Clean
<1>r. mode \in {"off", "install"} => ~bsp.ready
  BY DEF StoreInv, SafeManagers
<1>1. CASE PowerLoss
  BY <1>1 DEF PowerLoss, PowerOff, Unbound, NoToken
<1>2. CASE Restart
  BY <1>2 DEF Restart, PowerOff, Unbound, NoToken
<1>3. CASE PowerOn
  BY <1>3, <1>t, <1>v, <1>r DEF PowerOn
<1>4. CASE CtlWrite
  BY <1>4 DEF CtlWrite
<1>5. CASE CtlWriteError
  BY <1>5, <1>t
     DEF CtlWriteError, Abort, ReleaseClient, Modes, Steps, Rams, Tokens,
        NoToken
<1>6. CASE CtlFlush
  BY <1>6 DEF CtlFlush
<1>7. CASE CtlVerifyError
  BY <1>7, <1>t
     DEF CtlVerifyError, Abort, ReleaseClient, Modes, Steps, Rams, Tokens,
        NoToken
<1>8. CASE PayWrite
  BY <1>8 DEF PayWrite
<1>9. CASE PayFlush
  BY <1>9 DEF PayFlush
<1>10. CASE PayVerify
  BY <1>10 DEF PayVerify
<1>11. CASE PayVerifyError
  BY <1>11, <1>t, <1>v, <1>r
     DEF PayVerifyError, Abort, ReleaseClient, Modes, Steps, Rams, Tokens,
        NoToken
<1>12. CASE HdrWrite
  BY <1>12 DEF HdrWrite
<1>13. CASE HdrFlush
  BY <1>13 DEF HdrFlush
<1>14. CASE DataError
  BY <1>14, <1>t
     DEF DataError, Abort, ReleaseClient, Modes, Steps, Rams, Tokens, NoToken
<1>15. CASE InstallHeaderDone
  BY <1>15, <1>t, <1>v, <1>r DEF InstallHeaderDone, StartWrite
<1>16. CASE InstallFirstDone
  BY <1>16, <1>t, <1>v, <1>r DEF InstallFirstDone, Verified, StartWrite
<1>17. CASE InstallDone
  BY <1>17, <1>t, <1>v, <1>r DEF InstallDone, Verified
<1>18. CASE LoaderBind
  BY <1>18 DEF LoaderBind, Bound
<1>19. CASE LoaderBindRefused
  BY <1>19 DEF LoaderBindRefused, Halt
<1>20. CASE LoaderReadError
  BY <1>20 DEF LoaderReadError, Halt
<1>21. CASE SelectConfirmed
  BY <1>21 DEF SelectConfirmed
<1>22. CASE SelectAttempt
  BY <1>22 DEF SelectAttempt, CommitAllowed, Commit, StartWrite
<1>23. CASE SelectRollback
  BY <1>23 DEF SelectRollback, CommitAllowed, Commit, StartWrite
<1>24. CASE SelectRefused
  BY <1>24 DEF SelectRefused, Halt
<1>25. CASE AttemptSpent
  BY <1>25, <1>t, <1>v, <1>r DEF AttemptSpent, Verified, Publish
<1>26. CASE RolledBack
  BY <1>26, <1>t, <1>v, <1>r DEF RolledBack, Verified, Publish
<1>27. CASE EnterKernel
  BY <1>27 DEF EnterKernel, Unbound
<1>28. CASE LoadFailed
  BY <1>28 DEF LoadFailed, Halt
<1>29. CASE KernelBind
  BY <1>29 DEF KernelBind, Bound
<1>30. CASE KernelBindError
  BY <1>30 DEF KernelBindError
<1>31. CASE StageFirstDone
  BY <1>31, <1>t, <1>v, <1>r DEF StageFirstDone, Verified, StartWrite
<1>32. CASE StageSecondDone
  BY <1>32, <1>t, <1>v, <1>r DEF StageSecondDone, Verified
<1>33. CASE StageHeaderDone
  BY <1>33, <1>t, <1>v, <1>r DEF StageHeaderDone, Commit, StartWrite
<1>34. CASE StagePublished
  BY <1>34, <1>t, <1>v, <1>r
     DEF StagePublished, Verified, Publish, Modes, Steps, Rams, Tokens,
        NoToken
<1>35. CASE ConfirmBegin
  BY <1>35 DEF ConfirmBegin, KernelIdle, CommitAllowed, Commit, StartWrite
<1>36. CASE CommandDone
  BY <1>36, <1>t, <1>v, <1>r
     DEF CommandDone, Verified, Publish, ReleaseClient, Modes, Steps, Rams,
        Tokens, NoToken
<1>37. ASSUME NEW i \in Images, StartInstall(i) PROVE Phase'
  BY <1>37 DEF StartInstall
<1>38. ASSUME NEW c \in Clients, NEW i \in Images, PlanStage(c, i) PROVE Phase'
  BY <1>38 DEF PlanStage, KernelIdle
<1>39. ASSUME NEW c \in Clients, StageBegin(c) PROVE Phase'
  BY <1>39 DEF StageBegin, KernelIdle, StageAuthorized, StartWrite
<1>40. ASSUME NEW c \in Clients, ArmBegin(c) PROVE Phase'
  BY <1>40
     DEF ArmBegin, KernelIdle, ArmAuthorized, CommitAllowed, Commit,
        StartWrite
<1>41. ASSUME NEW c \in Clients, TokenRefused(c) PROVE Phase'
  BY <1>41 DEF TokenRefused
<1>42. CASE UNCHANGED vars
  BY <1>42 DEF vars
<1> QED
  BY <1>1, <1>2, <1>3, <1>4, <1>5, <1>6, <1>7, <1>8, <1>9, <1>10, <1>11,
     <1>12, <1>13, <1>14, <1>15, <1>16, <1>17, <1>18, <1>19, <1>20, <1>21,
     <1>22, <1>23, <1>24, <1>25, <1>26, <1>27, <1>28, <1>29, <1>30, <1>31,
     <1>32, <1>33, <1>34, <1>35, <1>36, <1>37, <1>38, <1>39, <1>40, <1>41,
     <1>42
     DEF Next, ControlWrite, DataWrite, Installer, Loader, Kernel, Client

-----------------------------------------------------------------------------
(* Which mirror a boot trusts *)

\* A bind trusts a usable mirror if there is one.
LEMMA NewestUsable ==
    ASSUME NEW v \in [Copies -> SectorValues], \E c \in Copies : Usable(v[c])
    PROVE  /\ Newest(v) \in Copies /\ Usable(v[Newest(v)])
           /\ v[Newest(v)] = Record(v[Newest(v)].gen, v[Newest(v)].mgr)
BY DEF Newest, Usable, Record, Copies, SectorValues

\* Writing a newer record over the older mirror makes it the trusted one.
LEMMA NewestLands ==
    ASSUME NEW v \in [Copies -> SectorValues], NEW c \in Copies,
           NEW r \in SectorValues, Usable(r),
           (\E x \in Copies : Usable(v[x])) =>
              c = Other(Newest(v)) /\ v[Newest(v)].gen < r.gen
    PROVE  Newest([v EXCEPT ![c] = r]) = c
BY DEF Newest, Usable, Other, Copies, SectorValues

\* Generations do not wrap below the bounds the code checks.
LEMMA AddGenExact ==
    ASSUME NEW g \in 0..GenMax
    PROVE  /\ g # GenMax => AddGen(g, 1) = g + 1
           /\ g + 3 <= GenMax => AddGen(g, 2) = g + 2
BY StoreAssumption DEF AddGen

-----------------------------------------------------------------------------
(* Every step keeps Mirrors *)

\* Nothing is bound and nothing is being written.
LEMMA InitMirrors == Init => Mirrors
BY SMTT(60) DEF Init, Mirrors, RamCurrent, Ahead, Pairs, Writing, InControl, Unbound

\* The newest record is always the one RAM holds or the one just written.
LEMMA NextMirrors ==
    ASSUME StoreInv, Phase, Phase', Mirrors, [Next]_vars PROVE Mirrors'
<1> USE DEF Mirrors, RamCurrent, Ahead, Pairs, Writing, Installing, Loading,
            Staging, Commands, InControl, mediumVars, viewVars, bootVars, ramVars
<1>t. /\ ctl \in [Copies -> SectorValues] /\ vctl \in [Copies -> SectorValues]
      /\ pc \in Steps /\ wr \in Writes /\ bsp \in Rams /\ bsm \in Managers
  BY DEF StoreInv, TypeInv, TypeOK, Rams, Writes
<1>n. /\ HasRecord => /\ Newest(ctl) \in Copies
                      /\ Durable = Record(Durable.gen, Durable.mgr)
      /\ \A g, m : Record(g, m).gen = g /\ Record(g, m).mgr = m
  BY <1>t, NewestUsable DEF HasRecord, Durable, Record
<1>d. ctl' = ctl => Durable' = Durable /\ HasRecord' = HasRecord
  BY DEF Durable, HasRecord
<1>g. /\ bsp.generation # GenMax =>
            AddGen(bsp.generation, 1) = bsp.generation + 1
      /\ bsp.generation + 3 <= GenMax =>
            AddGen(bsp.generation, 2) = bsp.generation + 2
  BY <1>t, AddGenExact DEF Rams
<1>o. \A c \in Copies : Other(c) \in Copies /\ Other(Other(c)) = c
  BY DEF Other, Copies
<1>c. /\ pc \in {"bind", "select", "load", "ctlWrite", "payVerify", "hdrVerify",
                 "ctlVerify"} => ctl = vctl
      /\ InData => ctl = vctl
  BY DEF Phase, Flushed, Clean, StoreInv, SpareTarget
<1>r. /\ mode \in {"off", "install"} => ~bsp.ready
      /\ InControl /\ wr.for = "stage1" => wr.copy = Other(bsp.copy)
  BY DEF StoreInv, SafeManagers, Claiming
<1>1. CASE PowerLoss
  BY <1>1, <1>t, <1>d, <1>c
     DEF PowerLoss, PowerOff, Unbound, NoToken, Phase, Where, Holds, InData
<1>2. CASE Restart
  BY <1>2 DEF Restart, PowerOff, Unbound, NoToken
<1>3. CASE PowerOn
  BY <1>3, <1>t DEF PowerOn, Phase, Where, Holds, InData
<1>4. CASE CtlWrite
  BY <1>4, <1>t, <1>d, <1>c DEF CtlWrite
<1>5. CASE CtlWriteError
  <2>1. ~bsp'.ready /\ pc' = "idle"
    BY <1>5, <1>t DEF CtlWriteError, Abort, Rams
  <2> QED BY <2>1
<1>6. CASE CtlFlush
  <2>1. /\ wr.copy \in Copies /\ Record(wr.gen, wr.mgr) \in SectorValues
        /\ Usable(Record(wr.gen, wr.mgr)) /\ Record(wr.gen, wr.mgr).gen = wr.gen
    BY <1>t, RecordType DEF Writes, Usable, Record
  <2>2. Newest(vctl) = wr.copy
    <3>1. vctl = [ctl EXCEPT ![wr.copy] = Record(wr.gen, wr.mgr)]
      BY <1>6 DEF CtlFlush
    <3>2. HasRecord => wr.copy = Other(Newest(ctl)) /\ Durable.gen < wr.gen
      BY <1>6 DEF CtlFlush
    <3> QED BY <1>t, <2>1, <3>1, <3>2, NewestLands DEF HasRecord, Durable
  <2>3. ctl' = vctl /\ vctl[wr.copy] = Record(wr.gen, wr.mgr)
    BY <1>6, <1>t, <2>1 DEF CtlFlush
  <2>4. HasRecord' /\ Newest(ctl)' = wr.copy /\ Durable' = Record(wr.gen, wr.mgr)
    BY <2>1, <2>2, <2>3 DEF HasRecord, Durable
  <2> QED BY <1>6, <2>1, <2>4 DEF CtlFlush, Record
<1>7. CASE CtlVerifyError
  <2>1. ~bsp'.ready /\ pc' = "idle"
    BY <1>7, <1>t DEF CtlVerifyError, Abort, Rams
  <2> QED BY <2>1
<1>8. CASE PayWrite
  BY <1>8, <1>t, <1>d, <1>c DEF PayWrite
<1>9. CASE PayFlush
  BY <1>9, <1>t, <1>d, <1>c DEF PayFlush, Phase, Where, Holds, InData
<1>10. CASE PayVerify
  BY <1>10, <1>t, <1>d, <1>c DEF PayVerify
<1>11. CASE PayVerifyError
  BY <1>11, <1>t, <1>d, <1>c
     DEF PayVerifyError, Abort, ReleaseClient, Phase, Where, Holds, InData
<1>12. CASE HdrWrite
  BY <1>12, <1>t, <1>d, <1>c DEF HdrWrite
<1>13. CASE HdrFlush
  BY <1>13, <1>t, <1>d, <1>c DEF HdrFlush, Phase, Where, Holds, InData
<1>14. CASE DataError
  BY <1>14, <1>t, <1>d, <1>c
     DEF DataError, Abort, ReleaseClient, Phase, Where, Holds, InData
<1>15. CASE InstallHeaderDone
  BY <1>15, <1>t, <1>d, <1>c
     DEF InstallHeaderDone, StartWrite, Phase, Where, Holds, InData,
        HasRecord, Usable, Erased
<1>16. CASE InstallFirstDone
  BY <1>16, <1>t, <1>d, <1>c, <1>n, <1>r
     DEF InstallFirstDone, Verified, StartWrite, Phase, Where, Holds, InData,
        Other
<1>17. CASE InstallDone
  BY <1>17, <1>t, <1>d, <1>c, <1>r
     DEF InstallDone, Verified, Phase, Where, Holds, InData
<1>18. CASE LoaderBind
  BY <1>18, <1>t, <1>d, <1>c, <1>n
     DEF LoaderBind, Bound, Phase, Where, Holds, InData, BindOK, HasRecord,
        Durable
<1>19. CASE LoaderBindRefused
  BY <1>19, <1>t, <1>d, <1>c DEF LoaderBindRefused, Halt
<1>20. CASE LoaderReadError
  BY <1>20, <1>t, <1>d, <1>c DEF LoaderReadError, Halt
<1>21. CASE SelectConfirmed
  BY <1>21, <1>t, <1>d, <1>c DEF SelectConfirmed
<1>22. CASE SelectAttempt
  BY <1>22, <1>t, <1>d, <1>c, <1>n, <1>g, <1>o
     DEF SelectAttempt, CommitAllowed, Commit, StartWrite, Phase, Where,
        Holds, InData, Rams
<1>23. CASE SelectRollback
  BY <1>23, <1>t, <1>d, <1>c, <1>n, <1>g, <1>o
     DEF SelectRollback, CommitAllowed, Commit, StartWrite, Phase, Where,
        Holds, InData, Rams
<1>24. CASE SelectRefused
  BY <1>24, <1>t, <1>d, <1>c DEF SelectRefused, Halt
<1>25. CASE AttemptSpent
  BY <1>25, <1>t, <1>d, <1>c, <1>n, <1>g, <1>o
     DEF AttemptSpent, Verified, Publish, Phase, Where, Holds, InData, Rams
<1>26. CASE RolledBack
  BY <1>26, <1>t, <1>d, <1>c, <1>n, <1>g, <1>o
     DEF RolledBack, Verified, Publish, Phase, Where, Holds, InData, Rams
<1>27. CASE EnterKernel
  BY <1>27 DEF EnterKernel, Unbound
<1>28. CASE LoadFailed
  BY <1>28, <1>t, <1>d, <1>c DEF LoadFailed, Halt
<1>29. CASE KernelBind
  BY <1>29, <1>t, <1>d, <1>c, <1>n
     DEF KernelBind, Bound, Phase, Where, Holds, InData, BindOK, HasRecord,
        Durable
<1>30. CASE KernelBindError
  BY <1>30, <1>t, <1>d, <1>c DEF KernelBindError
<1>31. CASE StageFirstDone
  BY <1>31, <1>t, <1>d, <1>c, <1>n, <1>g, <1>o, <1>r
     DEF StageFirstDone, Verified, StartWrite, Phase, Where, Holds, InData,
        Rams
<1>32. CASE StageSecondDone
  BY <1>32, <1>t, <1>d, <1>c, <1>n, <1>g, <1>o
     DEF StageSecondDone, Verified, Phase, Where, Holds, InData, Rams
<1>33. CASE StageHeaderDone
  BY <1>33, <1>t, <1>d, <1>c, <1>n, <1>g, <1>o
     DEF StageHeaderDone, Commit, StartWrite, Phase, Where, Holds, InData,
        Rams
<1>34. CASE StagePublished
  BY <1>34, <1>t, <1>d, <1>c, <1>n, <1>g, <1>o
     DEF StagePublished, Verified, Publish, Phase, Where, Holds, InData, Rams
<1>35. CASE ConfirmBegin
  BY <1>35, <1>t, <1>d, <1>c, <1>n, <1>g, <1>o
     DEF ConfirmBegin, KernelIdle, CommitAllowed, Commit, StartWrite, Phase,
        Where, Holds, InData, Rams
<1>36. CASE CommandDone
  BY <1>36, <1>t, <1>d, <1>c, <1>n, <1>g, <1>o
     DEF CommandDone, Verified, Publish, ReleaseClient, Phase, Where, Holds,
        InData, Rams
<1>37. ASSUME NEW i \in Images, StartInstall(i) PROVE Mirrors'
  BY <1>37, <1>t, <1>d, <1>c, <1>r
     DEF StartInstall, Phase, Where, Holds, InData
<1>38. ASSUME NEW c \in Clients, NEW i \in Images, PlanStage(c, i) PROVE Mirrors'
  BY <1>38, <1>t, <1>d, <1>c DEF PlanStage, KernelIdle
<1>39. ASSUME NEW c \in Clients, StageBegin(c) PROVE Mirrors'
  BY <1>39, <1>t, <1>d, <1>c, <1>n, <1>g, <1>o
     DEF StageBegin, KernelIdle, StageAuthorized, StartWrite, Phase, Where,
        Holds, InData, Rams
<1>40. ASSUME NEW c \in Clients, ArmBegin(c) PROVE Mirrors'
  BY <1>40, <1>t, <1>d, <1>c, <1>n, <1>g, <1>o
     DEF ArmBegin, KernelIdle, ArmAuthorized, CommitAllowed, Commit,
        StartWrite, Phase, Where, Holds, InData, Rams
<1>41. ASSUME NEW c \in Clients, TokenRefused(c) PROVE Mirrors'
  BY <1>41, <1>t, <1>d, <1>c DEF TokenRefused
<1>42. CASE UNCHANGED vars
  BY <1>42, <1>t, <1>d, <1>c DEF vars
<1> QED
  BY <1>1, <1>2, <1>3, <1>4, <1>5, <1>6, <1>7, <1>8, <1>9, <1>10, <1>11,
     <1>12, <1>13, <1>14, <1>15, <1>16, <1>17, <1>18, <1>19, <1>20, <1>21,
     <1>22, <1>23, <1>24, <1>25, <1>26, <1>27, <1>28, <1>29, <1>30, <1>31,
     <1>32, <1>33, <1>34, <1>35, <1>36, <1>37, <1>38, <1>39, <1>40, <1>41,
     <1>42
     DEF Next, ControlWrite, DataWrite, Installer, Loader, Kernel, Client

-----------------------------------------------------------------------------
(* What each transition of the manager says of the update *)

\* A valid record names a confirmed image, and an image for its attempt.
LEMMA ValidImages ==
    ASSUME NEW m \in Managers, Validate(m)
    PROVE  /\ Good(m) \in Images
           /\ Armed(m) => Trial(m) \in Images
           /\ ~Armed(m) => Trial(m) = NoImage /\ ~Fresh(m)
           /\ \A s \in Slots : m.st[s] = "VALID" => m.img[s] \in Images
BY DEF Managers, Validate, SlotIdentityValid, ValidSettled, ValidPending, Good,
       Armed, Trial, Fresh, Slots, NoSlot

\* Staging says nothing: neither the claim nor the publication.
LEMMA StageSays ==
    ASSUME NEW m \in Managers, NEW s \in Slots, NEW i,
           ~Armed(m), s # m.confirmed,
           NEW n \in {StageClaim(m, s, i), StagePublish(m, s, i)}
    PROVE  /\ Good(n) = Good(m) /\ ~Armed(n)
           /\ n.confirmed = m.confirmed /\ n.img[m.confirmed] = m.img[m.confirmed]
           /\ n.img[s] = i /\ n.boots[s] = 0
BY DEF Managers, StageClaim, StagePublish, ApplyImage, Good, Armed

\* Arming announces the slot's image as a fresh trial.
LEMMA ArmSays ==
    ASSUME NEW m \in Managers, NEW s \in Slots
    PROVE  /\ Good(Arm(m, s)) = Good(m) /\ Trial(Arm(m, s)) = m.img[s]
           /\ Fresh(Arm(m, s)) /\ Arm(m, s).img = m.img
           /\ Arm(m, s).confirmed = m.confirmed /\ Arm(m, s).pending = s
BY DEF Managers, Arm, Good, Trial, Armed, Fresh, MaxTries, Slots, NoSlot

\* Spending the attempt leaves a trial that is no longer fresh.
LEMMA SpendSays ==
    ASSUME NEW m \in Managers, Armed(m), m.tries > 0
    PROVE  /\ Good(Spend(m)) = Good(m) /\ Trial(Spend(m)) = Trial(m)
           /\ ~Fresh(Spend(m)) /\ Spend(m).tries = 0
           /\ Spend(m).boots[m.pending] = m.boots[m.pending] + 1
           /\ Spend(m).pending = m.pending
BY DEF Managers, Spend, Good, Trial, Armed, Fresh, MaxTries

\* Rolling back forgets the trial.
LEMMA RollbackSays ==
    ASSUME NEW m \in Managers
    PROVE  Good(Rollback(m)) = Good(m) /\ ~Armed(Rollback(m))
BY DEF Rollback, Good, Armed

\* Confirming makes the trial the good image.
LEMMA ConfirmSays ==
    ASSUME NEW m \in Managers, Armed(m)
    PROVE  LET n == Confirm(m, m.pending)
           IN  /\ Good(n) = Trial(m) /\ ~Armed(n)
               /\ n.img = m.img /\ n.confirmed = m.pending
BY DEF Confirm, Good, Trial, Armed

\* The update as ABUpdate sees it is read off the durable record alone.
LEMMA AbstractView ==
    /\ HasRecord => /\ GoodImage = Good(Durable.mgr)
                    /\ TrialImage = Trial(Durable.mgr)
                    /\ (FreshTrial <=> Fresh(Durable.mgr))
    /\ ~HasRecord => GoodImage = NoImage /\ TrialImage = NoImage /\ ~FreshTrial
BY DEF GoodImage, TrialImage, FreshTrial, HasTrial, Good, Trial, Fresh, Armed

-----------------------------------------------------------------------------
(* Every step keeps Decision *)

\* Nothing is decided and nothing runs.
LEMMA InitDecision == Init => Decision
BY SMTT(60) DEF Init, Decision, Intent, Cached, Vouched, Writing, InControl

\* Whatever is being written or is left in the cache makes one decision that
\* the durable record and the running kernel allow.
LEMMA NextDecision ==
    ASSUME StoreInv, StoreInv', Phase, Phase', Mirrors, Mirrors', Decision,
           [Next]_vars
    PROVE  Decision'
<1> USE DEF Decision, Intent, Cached, Vouched, Vouches, Decides, Keeps, Installs,
            Arms, Spends, RollsBack, Accepts, Writing, InControl, mediumVars,
            viewVars, bootVars, ramVars
<1>t. /\ ctl \in [Copies -> SectorValues] /\ vctl \in [Copies -> SectorValues]
      /\ pc \in Steps /\ wr \in Writes /\ bsp \in Rams /\ bsm \in Managers
      /\ attempt.slot \in Slots /\ NoSlot \notin Slots /\ mode \in Modes
      /\ op.slot \in Slots
  BY DEF StoreInv, TypeInv, TypeOK, Rams, Writes, Slots, NoSlot
<1>d. /\ ctl' = ctl => /\ Durable' = Durable /\ HasRecord' = HasRecord
                       /\ GoodImage' = GoodImage /\ TrialImage' = TrialImage
                       /\ (FreshTrial' <=> FreshTrial)
  BY DEF Durable, HasRecord, GoodImage, TrialImage, FreshTrial, HasTrial
<1>m. /\ bsp.ready => Validate(bsm)
      /\ bsp.ready /\ ~InControl => HasRecord /\ Durable.mgr = bsm
  BY DEF StoreInv, SafeManagers, SafeNow, Safe, Mirrors, RamCurrent, Writing,
         Record
<1>s. \A s, n : Selected(s, n).slot = s /\ Selected(s, n).sel = n
  BY DEF Selected, Operation
<1>l. pc \in {"select", "load"} =>
         mode = "loader" /\ running = NoImage /\ bsp.ready /\ Clean
  BY <1>t DEF Phase, Where, Holds, Flushed, Modes, InData
<1>q. KernelIdle => mode = "kernel" /\ bsp.ready /\ ~InControl
  BY DEF KernelIdle, Phase, Holds
<1>1. CASE PowerLoss
  BY <1>1 DEF PowerLoss, PowerOff, Unbound, NoToken
<1>2. CASE Restart
  BY <1>2 DEF Restart, PowerOff, Unbound, NoToken
<1>3. CASE PowerOn
  BY <1>3, <1>t, <1>d DEF PowerOn
<1>4. CASE CtlWrite
  <2>1. /\ ctl' = ctl /\ running' = running /\ ctl = vctl
        /\ vctl \in [Copies -> SectorValues]
    BY <1>4, <1>t DEF CtlWrite, Abort, Phase, Flushed, Clean
  <2>2. Decides(wr.mgr)
    BY <1>4, <1>t DEF CtlWrite, Phase, Where, Installing, Loading, Staging,
       Commands, Modes, InData
  <2>3. /\ Usable(Record(wr.gen, wr.mgr)) /\ Record(wr.gen, wr.mgr).mgr = wr.mgr
        /\ Record(wr.gen, wr.mgr).gen = wr.gen
    BY DEF Usable, Record
  <2>4. IF HasRecord THEN wr.copy = Other(Newest(ctl)) /\ wr.gen > Durable.gen
        ELSE wr.copy = 0
    BY <1>4 DEF CtlWrite, Mirrors, Ahead
  <2>5. ASSUME NEW c \in Copies, vctl'[c] # ctl[c]
        PROVE  c = wr.copy /\ vctl'[c] = Record(wr.gen, wr.mgr)
    BY <1>4, <2>1, <2>5 DEF CtlWrite
  <2>6. Cached'
    BY <1>d, <2>1, <2>2, <2>3, <2>4, <2>5
  <2> QED BY <1>4, <1>d, <2>1, <2>6 DEF CtlWrite
<1>5. CASE CtlWriteError
  <2>1. /\ ctl' = ctl /\ running' = running /\ ctl = vctl
        /\ vctl \in [Copies -> SectorValues]
    BY <1>5, <1>t DEF CtlWriteError, Abort, Phase, Flushed, Clean
  <2>2. Decides(wr.mgr)
    BY <1>5, <1>t DEF CtlWriteError, Phase, Where, Installing, Loading, Staging,
       Commands, Modes, InData
  <2>3. /\ Usable(Record(wr.gen, wr.mgr)) /\ Record(wr.gen, wr.mgr).mgr = wr.mgr
        /\ Record(wr.gen, wr.mgr).gen = wr.gen
    BY DEF Usable, Record
  <2>4. IF HasRecord THEN wr.copy = Other(Newest(ctl)) /\ wr.gen > Durable.gen
        ELSE wr.copy = 0
    BY <1>5 DEF CtlWriteError, Mirrors, Ahead
  <2>5. ASSUME NEW c \in Copies, vctl'[c] # ctl[c]
        PROVE  c = wr.copy /\ vctl'[c] = Record(wr.gen, wr.mgr)
    BY <1>5, <2>1, <2>5 DEF CtlWriteError
  <2>6. Cached'
    BY <1>d, <2>1, <2>2, <2>3, <2>4, <2>5
  <2> QED BY <1>5, <1>d, <2>1, <2>6 DEF CtlWriteError, Abort
<1>6. CASE CtlFlush
  BY <1>6, <1>t, <1>d
     DEF CtlFlush, Phase, Where, Holds, Flushed, Clean, Writing, Installing,
        Loading, Staging, Commands, InData, Mirrors, Ahead, Record
<1>7. CASE CtlVerifyError
  BY <1>7, <1>t, <1>d DEF CtlVerifyError, Abort, ReleaseClient
<1>8. CASE PayWrite
  BY <1>8, <1>t, <1>d DEF PayWrite
<1>9. CASE PayFlush
  BY <1>9, <1>t, <1>d
     DEF PayFlush, Phase, Where, Holds, Flushed, Clean, Writing, Installing,
        Loading, Staging, Commands, InData
<1>10. CASE PayVerify
  BY <1>10, <1>t, <1>d DEF PayVerify
<1>11. CASE PayVerifyError
  BY <1>11, <1>t, <1>d DEF PayVerifyError, Abort, ReleaseClient
<1>12. CASE HdrWrite
  BY <1>12, <1>t, <1>d DEF HdrWrite
<1>13. CASE HdrFlush
  BY <1>13, <1>t, <1>d
     DEF HdrFlush, Phase, Where, Holds, Flushed, Clean, Writing, Installing,
        Loading, Staging, Commands, InData
<1>14. CASE DataError
  BY <1>14, <1>t, <1>d DEF DataError, Abort, ReleaseClient
<1>15. CASE InstallHeaderDone
  <2>1. op.img \in Images /\ ctl = vctl
    BY <1>15 DEF InstallHeaderDone, StoreInv, SpareTarget, InData
  <2>2. ~HasRecord
    BY <1>15, <2>1 DEF InstallHeaderDone, HasRecord, Usable, Erased
  <2>3. Installs(Installed(op.img))
    <3>1. Good(Installed(op.img)) = op.img /\ ~Armed(Installed(op.img))
      BY DEF Good, Armed, Installed, Defaults, Slots
    <3> QED BY <2>1, <2>2, <3>1, AbstractView DEF Trial, Fresh
  <2>4. pc' = "ctlWrite" /\ wr'.mgr = Installed(op.img) /\ wr'.for = "init1"
    BY <1>15 DEF InstallHeaderDone, StartWrite
  <2> QED BY <1>15, <1>d, <2>3, <2>4 DEF InstallHeaderDone
<1>16. CASE InstallFirstDone
  BY <1>16, <1>t, <1>d, AbstractView
     DEF InstallFirstDone, Verified, StartWrite, Phase, Where, Holds, Flushed,
        Clean, Writing, Installing, Loading, Staging, Commands, InData,
        Mirrors, Ahead, Record
<1>17. CASE InstallDone
  BY <1>17, <1>t, <1>d DEF InstallDone, Verified
<1>18. CASE LoaderBind
  BY <1>18, <1>t, <1>d DEF LoaderBind, Bound
<1>19. CASE LoaderBindRefused
  BY <1>19, <1>t, <1>d DEF LoaderBindRefused, Halt
<1>20. CASE LoaderReadError
  BY <1>20, <1>t, <1>d DEF LoaderReadError, Halt
<1>21. CASE SelectConfirmed
  BY <1>21, <1>t, <1>d, <1>s
     DEF SelectConfirmed, Phase, Where, Holds, Flushed, Clean, Writing,
        Installing, Loading, Staging, Commands, InData
<1>22. CASE SelectAttempt
  <2>1. /\ Armed(bsm) /\ bsm.tries > 0 /\ bsp.ready /\ ~InControl
        /\ mode = "loader" /\ running = NoImage
    BY <1>22, <1>l DEF SelectAttempt, Armed
  <2>2. Spends(Spend(bsm)) /\ Spend(bsm).tries = 0
    BY <1>t, <1>m, <2>1, AbstractView, ValidImages, SpendSays, NoImageAssumption
       DEF Fresh
  <2>3. pc' = "ctlWrite" /\ wr'.mgr = Spend(bsm) /\ wr'.for = "spend"
    BY <1>22 DEF SelectAttempt, Commit, StartWrite
  <2> QED BY <1>22, <1>d, <2>1, <2>2, <2>3 DEF SelectAttempt
<1>23. CASE SelectRollback
  <2>1. /\ Armed(bsm) /\ bsm.tries = 0 /\ bsp.ready /\ ~InControl
        /\ mode = "loader" /\ running = NoImage
    BY <1>23, <1>l DEF SelectRollback, Armed
  <2>2. RollsBack(Rollback(bsm)) /\ Rollback(bsm).pending = NoSlot
    BY <1>t, <1>m, <2>1, AbstractView, ValidImages, RollbackSays,
       NoImageAssumption
       DEF Fresh, Trial, Armed
  <2>3. pc' = "ctlWrite" /\ wr'.mgr = Rollback(bsm) /\ wr'.for = "rollback"
    BY <1>23 DEF SelectRollback, Commit, StartWrite
  <2> QED BY <1>23, <1>d, <2>1, <2>2, <2>3 DEF SelectRollback
<1>24. CASE SelectRefused
  BY <1>24, <1>t, <1>d DEF SelectRefused, Halt
<1>25. CASE AttemptSpent
  BY <1>25, <1>t, <1>d, <1>s
     DEF AttemptSpent, Verified, Publish, Phase, Where, Holds, Flushed, Clean,
        Writing, Installing, Loading, Staging, Commands, InData
<1>26. CASE RolledBack
  BY <1>26, <1>t, <1>d, <1>s
     DEF RolledBack, Verified, Publish, Phase, Where, Holds, Flushed, Clean,
        Writing, Installing, Loading, Staging, Commands, InData
<1>27. CASE EnterKernel
  <2>1. HasRecord' /\ Durable'.mgr = bsm /\ ctl' = vctl'
    BY <1>27, <1>d, <1>l, <1>m DEF EnterKernel, Clean
  <2>2. pc' = "bind" /\ mode' = "kernel"
    BY <1>27 DEF EnterKernel
  <2>3. /\ attempt'.slot = op.slot /\ running' = bsm.img[op.slot]
        /\ attempt'.flag = "pending" => op.sel = 1
    <3>1. op.sel \in 0..2
      BY DEF StoreInv, TypeInv, TypeOK
    <3> QED BY <1>27, <3>1 DEF EnterKernel
  <2>4. IF op.sel = 1 THEN op.slot = bsm.pending /\ bsm.tries = 0
        ELSE op.slot = bsm.confirmed /\ bsm.pending = NoSlot
    BY <1>27 DEF EnterKernel
  <2> QED BY <2>1, <2>2, <2>3, <2>4
<1>28. CASE LoadFailed
  BY <1>28, <1>t, <1>d DEF LoadFailed, Halt
<1>29. CASE KernelBind
  BY <1>29, <1>t, <1>d DEF KernelBind, Bound
<1>30. CASE KernelBindError
  BY <1>30, <1>t, <1>d DEF KernelBindError
<1>31. CASE StageFirstDone
  BY <1>31, <1>t, <1>d, AbstractView
     DEF StageFirstDone, Verified, StartWrite, Phase, Where, Holds, Flushed,
        Clean, Writing, Installing, Loading, Staging, Commands, InData,
        Mirrors, Ahead, Record
<1>32. CASE StageSecondDone
  BY <1>32, <1>t, <1>d DEF StageSecondDone, Verified
<1>33. CASE StageHeaderDone
  <2>1. /\ bsp.ready /\ ~InControl /\ mode = "kernel" /\ ~Armed(bsm)
        /\ op.slot # bsm.confirmed
    <3>1. bsp.ready /\ ~InControl /\ mode = "kernel" /\ bsm.st[op.slot] = "FAILED"
      BY <1>33 DEF StageHeaderDone
    <3> QED BY <1>t, <1>m, <3>1 DEF Armed, Validate, ValidPending, ValidSettled,
           Managers, Slots, NoSlot
  <2>2. op.slot \in Slots
    BY <1>t DEF StoreInv, TypeInv, TypeOK
  <2> DEFINE n == StagePublish(bsm, op.slot, op.img)
  <2>3. /\ Good(n) = Good(bsm) /\ ~Armed(n) /\ n.confirmed = bsm.confirmed
        /\ n.img[bsm.confirmed] = bsm.img[bsm.confirmed]
    BY <1>t, <2>1, <2>2, StageSays
  <2>4. pc' = "ctlWrite" /\ wr'.mgr = n /\ wr'.for \in {"stage1", "publish"}
    BY <1>33 DEF StageHeaderDone, Commit, StartWrite
  <2>5. UNCHANGED <<ctl, vctl, mode, running, attempt>>
    BY <1>33 DEF StageHeaderDone
  <2> HIDE DEF n
  <2>6. Keeps(n)
    BY <1>m, <2>1, <2>3, AbstractView DEF Trial, Fresh
  <2>7. Vouches(n) /\ Vouches(Durable.mgr) /\ HasRecord
    BY <1>t, <1>m, <2>1, <2>3 DEF Armed
  <2> QED BY <1>d, <2>1, <2>4, <2>5, <2>6, <2>7
<1>34. CASE StagePublished
  BY <1>34, <1>t, <1>d DEF StagePublished, Verified, Publish
<1>35. CASE ConfirmBegin
  <2>1. /\ bsp.ready /\ ~InControl /\ mode = "kernel" /\ Armed(bsm)
        /\ bsm.pending = attempt.slot /\ bsm.tries = 0
    BY <1>35, <1>q, <1>t DEF ConfirmBegin, Armed
  <2> DEFINE n == Confirm(bsm, attempt.slot)
  <2>2. /\ Good(n) = Trial(bsm) /\ ~Armed(n) /\ n.img = bsm.img
        /\ n.confirmed = attempt.slot
    BY <1>t, <2>1, ConfirmSays
  <2>3. pc' = "ctlWrite" /\ wr'.mgr = n /\ wr'.for = "confirm"
    BY <1>35 DEF ConfirmBegin, Commit, StartWrite
  <2>4. UNCHANGED <<ctl, vctl, mode, running, attempt>>
    BY <1>35 DEF ConfirmBegin
  <2> HIDE DEF n
  <2>5. Vouches(n) /\ Vouches(Durable.mgr) /\ HasRecord
    BY <1>t, <1>m, <2>1, <2>2 DEF Armed
  <2>6. Accepts(n)
    BY <1>t, <1>m, <2>1, <2>2, <2>5, AbstractView, ValidImages, NoImageAssumption
       DEF Trial, Fresh
  <2> QED BY <1>d, <2>1, <2>3, <2>4, <2>5, <2>6
<1>36. CASE CommandDone
  BY <1>36, <1>t, <1>d DEF CommandDone, Verified, Publish, ReleaseClient
<1>37. ASSUME NEW i \in Images, StartInstall(i) PROVE Decision'
  BY <1>37 DEF StartInstall
<1>38. ASSUME NEW c \in Clients, NEW i \in Images, PlanStage(c, i) PROVE Decision'
  BY <1>38, <1>t, <1>d DEF PlanStage, KernelIdle
<1>39. ASSUME NEW c \in Clients, StageBegin(c) PROVE Decision'
  <2>1. /\ bsp.ready /\ ~InControl /\ mode = "kernel" /\ ~Armed(bsm)
        /\ client[c].slot # bsm.confirmed
    BY <1>39, <1>q DEF StageBegin, StageAuthorized, Armed
  <2>2. client[c].slot \in Slots
    BY <1>t DEF StoreInv, TypeInv, TypeOK
  <2> DEFINE n == StageClaim(bsm, client[c].slot, client[c].img)
  <2>3. /\ Good(n) = Good(bsm) /\ ~Armed(n) /\ n.confirmed = bsm.confirmed
        /\ n.img[bsm.confirmed] = bsm.img[bsm.confirmed]
    BY <1>t, <2>1, <2>2, StageSays
  <2>4. pc' = "ctlWrite" /\ wr'.mgr = n /\ wr'.for \in {"stage1", "publish"}
    BY <1>39 DEF StageBegin, Commit, StartWrite
  <2>5. UNCHANGED <<ctl, vctl, mode, running, attempt>>
    BY <1>39 DEF StageBegin
  <2> HIDE DEF n
  <2>6. Keeps(n)
    BY <1>m, <2>1, <2>3, AbstractView DEF Trial, Fresh
  <2>7. Vouches(n) /\ Vouches(Durable.mgr) /\ HasRecord
    BY <1>t, <1>m, <2>1, <2>3 DEF Armed
  <2> QED BY <1>d, <2>1, <2>4, <2>5, <2>6, <2>7
<1>40. ASSUME NEW c \in Clients, ArmBegin(c) PROVE Decision'
  <2> DEFINE n == Arm(bsm, client[c].slot)
  <2>1. /\ bsp.ready /\ ~InControl /\ mode = "kernel" /\ ~Armed(bsm)
        /\ client[c].slot # bsm.confirmed /\ bsm.st[client[c].slot] = "VALID"
    BY <1>40, <1>q DEF ArmBegin, ArmAuthorized, Armed
  <2>2. client[c].slot \in Slots
    BY DEF StoreInv, TypeInv, TypeOK
  <2>3. /\ Good(n) = Good(bsm) /\ Trial(n) = bsm.img[client[c].slot] /\ Fresh(n)
        /\ n.img = bsm.img /\ n.confirmed = bsm.confirmed
        /\ n.pending = client[c].slot
    BY <1>t, <2>2, ArmSays
  <2>4. pc' = "ctlWrite" /\ wr'.mgr = n /\ wr'.for = "arm"
    BY <1>40 DEF ArmBegin, Commit, StartWrite
  <2>5. UNCHANGED <<ctl, vctl, mode, running, attempt>>
    BY <1>40 DEF ArmBegin
  <2> HIDE DEF n
  <2>6. Vouches(n) /\ Vouches(Durable.mgr) /\ HasRecord
    BY <1>t, <1>m, <2>1, <2>3 DEF Armed
  <2>7. Arms(n)
    BY <1>t, <1>m, <2>1, <2>2, <2>3, <2>6, AbstractView, ValidImages,
       NoImageAssumption
       DEF Good, Armed
  <2> QED BY <1>d, <2>1, <2>4, <2>5, <2>6, <2>7
<1>41. ASSUME NEW c \in Clients, TokenRefused(c) PROVE Decision'
  BY <1>41, <1>t, <1>d DEF TokenRefused
<1>42. CASE UNCHANGED vars
  BY <1>42, <1>t, <1>d DEF vars
<1> QED
  BY <1>1, <1>2, <1>3, <1>4, <1>5, <1>6, <1>7, <1>8, <1>9, <1>10, <1>11,
     <1>12, <1>13, <1>14, <1>15, <1>16, <1>17, <1>18, <1>19, <1>20, <1>21,
     <1>22, <1>23, <1>24, <1>25, <1>26, <1>27, <1>28, <1>29, <1>30, <1>31,
     <1>32, <1>33, <1>34, <1>35, <1>36, <1>37, <1>38, <1>39, <1>40, <1>41,
     <1>42, ZenonT(60)
     DEF Next, ControlWrite, DataWrite, Installer, Loader, Kernel, Client

-----------------------------------------------------------------------------
(* Every step keeps Budget *)

\* A record with nothing pending has no attempt to account for.
LEMMA SettledTries == ASSUME NEW m, ~Armed(m) PROVE OneTry(m)
BY DEF OneTry

\* Arming a slot that was just staged grants it its one boot.
LEMMA ArmTries ==
    ASSUME NEW m \in Managers, NEW s \in Slots, m.boots[s] = 0
    PROVE  OneTry(Arm(m, s))
BY DEF OneTry, Arm, Managers, MaxTries

\* Spending moves the attempt from the tries left to the boots made.
LEMMA SpendTries ==
    ASSUME NEW m \in Managers, OneTry(m), Armed(m), m.tries > 0
    PROVE  OneTry(Spend(m))
BY DEF OneTry, Armed, Spend, Managers, MaxTries

\* Nothing is armed and no client holds a token.
LEMMA InitBudget == Init => Budget
BY SMTT(60) DEF Init, Budget, Tries, Staged, Writing, InControl, Usable, Erased, Unbound,
       NoToken

\* Attempts add up in every record, and a token whose generation is current
\* names the image its slot holds.
LEMMA NextBudget ==
    ASSUME StoreInv, StoreInv', Phase, Phase', Mirrors, Decision, Budget,
           [Next]_vars
    PROVE  Budget'
<1> USE DEF Budget, Tries, Staged, Writing, InControl, mediumVars, viewVars,
            bootVars, ramVars
<1>t. /\ ctl \in [Copies -> SectorValues] /\ vctl \in [Copies -> SectorValues]
      /\ pc \in Steps /\ wr \in Writes /\ bsp \in Rams /\ bsm \in Managers
      /\ client \in [Clients -> Tokens] /\ op.slot \in Slots
      /\ op.client \in Clients \union {NoClient} /\ mode \in Modes
  BY DEF StoreInv, TypeInv, TypeOK, Rams, Writes, Tokens
<1>m. bsp.ready => Validate(bsm)
  BY DEF StoreInv, SafeManagers, SafeNow, Safe
<1>r. \A g, m : /\ Usable(Record(g, m)) /\ Record(g, m).gen = g
                /\ Record(g, m).mgr = m
  BY DEF Usable, Record
<1>p. /\ InControl /\ wr.for \notin Installing => wr.gen > bsp.generation
      /\ InControl => wr.gen \in 0..GenMax /\ bsp.generation \in 0..GenMax
  BY <1>t DEF Mirrors, Pairs, Installing, Staging, Commands, Loading, Writes,
     Rams, Callers, Phase, Where, Modes, InData
<1>1. CASE PowerLoss
  <2>1. PowerOff
    BY <1>1 DEF PowerLoss
  <2>2. ASSUME NEW c \in Copies, Usable(ctl'[c]) PROVE OneTry(ctl'[c].mgr)
    <3>1. ctl'[c] \in Settle(ctl[c], vctl[c], Torn)
      BY <2>1 DEF PowerOff
    <3>2. ctl'[c] = ctl[c] \/ ctl'[c] = vctl[c]
      BY <2>2, <3>1 DEF Settle, Usable, Torn
    <3> QED BY <2>2, <3>2
  <2>3. /\ vctl' = ctl' /\ pc' = "idle" /\ ~bsp'.ready
        /\ \A c \in Clients : client'[c].step = "none"
    BY <2>1 DEF PowerOff, Unbound, NoToken
  <2> QED BY <2>2, <2>3
<1>2. CASE Restart
  <2>1. PowerOff
    BY <1>2 DEF Restart
  <2>2. ASSUME NEW c \in Copies, Usable(ctl'[c]) PROVE OneTry(ctl'[c].mgr)
    <3>1. ctl'[c] \in Settle(ctl[c], vctl[c], Torn)
      BY <2>1 DEF PowerOff
    <3>2. ctl'[c] = ctl[c] \/ ctl'[c] = vctl[c]
      BY <2>2, <3>1 DEF Settle, Usable, Torn
    <3> QED BY <2>2, <3>2
  <2>3. /\ vctl' = ctl' /\ pc' = "idle" /\ ~bsp'.ready
        /\ \A c \in Clients : client'[c].step = "none"
    BY <2>1 DEF PowerOff, Unbound, NoToken
  <2> QED BY <2>2, <2>3
<1>3. CASE PowerOn
  BY <1>3 DEF PowerOn
<1>4. CASE CtlWrite
  <2>1. OneTry(wr.mgr) /\ ctl' = ctl
    BY <1>4 DEF CtlWrite
  <2>2. ASSUME NEW c \in Copies, Usable(vctl'[c]) PROVE OneTry(vctl'[c].mgr)
    BY <1>4, <1>t, <1>r, <2>1, <2>2 DEF CtlWrite
  <2> QED BY <1>4, <2>1, <2>2 DEF CtlWrite
<1>5. CASE CtlWriteError
  <2>1. OneTry(wr.mgr) /\ ctl' = ctl
    BY <1>5 DEF CtlWriteError
  <2>2. ASSUME NEW c \in Copies, Usable(vctl'[c]) PROVE OneTry(vctl'[c].mgr)
    BY <1>5, <1>t, <1>r, <2>1, <2>2 DEF CtlWriteError
  <2>3. /\ \A c \in Clients : client'[c] = client[c] \/ client'[c].step = "none"
        /\ bsm' = bsm /\ bsp'.generation = bsp.generation /\ ~bsp'.ready
        /\ pc' = "idle"
    BY <1>5, <1>t DEF CtlWriteError, Abort, ReleaseClient, NoToken, Rams
  <2> QED BY <2>1, <2>2, <2>3
<1>6. CASE CtlFlush
  BY <1>6 DEF CtlFlush
<1>7. CASE CtlVerifyError
  BY <1>7, <1>t
     DEF CtlVerifyError, Abort, ReleaseClient, Phase, Where, Holds, Modes,
        InData, Rams, Tokens, NoToken
<1>8. CASE PayWrite
  BY <1>8 DEF PayWrite
<1>9. CASE PayFlush
  BY <1>9 DEF PayFlush
<1>10. CASE PayVerify
  BY <1>10 DEF PayVerify
<1>11. CASE PayVerifyError
  BY <1>11, <1>t
     DEF PayVerifyError, Abort, ReleaseClient, Phase, Where, Holds, Modes,
        InData, Rams, Tokens, NoToken
<1>12. CASE HdrWrite
  BY <1>12 DEF HdrWrite
<1>13. CASE HdrFlush
  BY <1>13 DEF HdrFlush
<1>14. CASE DataError
  BY <1>14, <1>t
     DEF DataError, Abort, ReleaseClient, Phase, Where, Holds, Modes, InData,
        Rams, Tokens, NoToken
<1>15. CASE InstallHeaderDone
  <2>1. OneTry(Installed(op.img))
    BY <1>15, <1>t, SettledTries
       DEF Armed, Installed, StoreInv
  <2>2. pc' = "ctlWrite" /\ wr'.mgr = Installed(op.img)
    BY <1>15 DEF InstallHeaderDone, Commit, StartWrite
  <2> QED BY <1>15, <2>1, <2>2 DEF InstallHeaderDone, StartWrite
<1>16. CASE InstallFirstDone
  BY <1>16 DEF InstallFirstDone, Verified, StartWrite
<1>17. CASE InstallDone
  BY <1>17 DEF InstallDone, Verified
<1>18. CASE LoaderBind
  BY <1>18, <1>t, NewestUsable
     DEF LoaderBind, Bound, Phase, Where, Holds, Modes, InData, Rams, Tokens,
        NoToken, BindOK
<1>19. CASE LoaderBindRefused
  BY <1>19 DEF LoaderBindRefused, Halt
<1>20. CASE LoaderReadError
  BY <1>20 DEF LoaderReadError, Halt
<1>21. CASE SelectConfirmed
  BY <1>21 DEF SelectConfirmed
<1>22. CASE SelectAttempt
  <2>1. OneTry(Spend(bsm))
    BY <1>22, <1>t, SpendTries
       DEF SelectAttempt, CommitAllowed, Armed
  <2>2. pc' = "ctlWrite" /\ wr'.mgr = Spend(bsm)
    BY <1>22 DEF SelectAttempt, Commit, StartWrite
  <2> QED BY <1>22, <2>1, <2>2 DEF SelectAttempt, Commit, StartWrite
<1>23. CASE SelectRollback
  <2>1. OneTry(Rollback(bsm))
    BY <1>23, <1>t, SettledTries, RollbackSays
       DEF SelectRollback
  <2>2. pc' = "ctlWrite" /\ wr'.mgr = Rollback(bsm)
    BY <1>23 DEF SelectRollback, Commit, StartWrite
  <2> QED BY <1>23, <2>1, <2>2 DEF SelectRollback, Commit, StartWrite
<1>24. CASE SelectRefused
  BY <1>24 DEF SelectRefused, Halt
<1>25. CASE AttemptSpent
  BY <1>25, <1>t, <1>p
     DEF AttemptSpent, Verified, Publish, Phase, Where, Holds, Modes, InData,
        Rams, Tokens, NoToken, Installing
<1>26. CASE RolledBack
  BY <1>26, <1>t, <1>p
     DEF RolledBack, Verified, Publish, Phase, Where, Holds, Modes, InData,
        Rams, Tokens, NoToken, Installing
<1>27. CASE EnterKernel
  BY <1>27, <1>t
     DEF EnterKernel, Unbound, Phase, Where, Holds, Modes, InData, Rams,
        Tokens, NoToken
<1>28. CASE LoadFailed
  BY <1>28 DEF LoadFailed, Halt
<1>29. CASE KernelBind
  BY <1>29, <1>t, NewestUsable
     DEF KernelBind, Bound, Phase, Where, Holds, Modes, InData, Rams, Tokens,
        NoToken, BindOK
<1>30. CASE KernelBindError
  BY <1>30 DEF KernelBindError
<1>31. CASE StageFirstDone
  BY <1>31 DEF StageFirstDone, Verified, StartWrite
<1>32. CASE StageSecondDone
  BY <1>32, <1>t, <1>p
     DEF StageSecondDone, Verified, Phase, Where, Holds, Modes, InData, Rams,
        Tokens, NoToken, Installing
<1>33. CASE StageHeaderDone
  <2>1. ~Armed(bsm) /\ op.slot # bsm.confirmed
    BY <1>33, <1>t, <1>m DEF StageHeaderDone, Armed, Validate, ValidPending,
       ValidSettled, Managers, Slots, NoSlot
  <2> DEFINE n == StagePublish(bsm, op.slot, op.img)
  <2>2. OneTry(n) /\ n.img[op.slot] = op.img /\ n.boots[op.slot] = 0
    BY <1>t, <2>1, StageSays, SettledTries
  <2>3. pc' = "ctlWrite" /\ wr'.mgr = n
    BY <1>33 DEF StageHeaderDone, Commit, StartWrite
  <2> HIDE DEF n
  <2> QED BY <1>33, <2>2, <2>3 DEF StageHeaderDone
<1>34. CASE StagePublished
  BY <1>34, <1>t, <1>p
     DEF StagePublished, Verified, Publish, Phase, Where, Holds, Modes,
        InData, Rams, Tokens, NoToken, Installing
<1>35. CASE ConfirmBegin
  <2>1. OneTry(Confirm(bsm, attempt.slot))
    BY SettledTries DEF Confirm, Armed
  <2>2. /\ pc' = "ctlWrite" /\ wr'.mgr = Confirm(bsm, attempt.slot)
        /\ wr'.for = "confirm"
    BY <1>35 DEF ConfirmBegin, Commit, StartWrite
  <2> QED BY <1>35, <2>1, <2>2 DEF ConfirmBegin
<1>36. CASE CommandDone
  BY <1>36, <1>t, <1>p
     DEF CommandDone, Verified, Publish, ReleaseClient, Phase, Where, Holds,
        Modes, InData, Rams, Tokens, NoToken, Installing
<1>37. ASSUME NEW i \in Images, StartInstall(i) PROVE Budget'
  BY <1>37, <1>t
     DEF StartInstall, Phase, Where, Holds, Modes, InData, Rams, Tokens,
        NoToken, Usable, Erased
<1>38. ASSUME NEW c \in Clients, NEW i \in Images, PlanStage(c, i) PROVE Budget'
  BY <1>38 DEF PlanStage, KernelIdle
<1>39. ASSUME NEW c \in Clients, StageBegin(c) PROVE Budget'
  <2> DEFINE n == StageClaim(bsm, client[c].slot, client[c].img)
  <2>1. OneTry(n)
    BY <1>39, SettledTries
       DEF StageBegin, StageAuthorized, Armed, StageClaim, ApplyImage
  <2>2. pc' = "ctlWrite" /\ wr'.mgr = n /\ wr'.for = "stage1"
    BY <1>39 DEF StageBegin, StartWrite
  <2>3. bsp'.generation = bsp.generation /\ bsp'.ready = bsp.ready
    BY <1>39, <1>t DEF StageBegin, Rams
  <2> HIDE DEF n
  <2> QED BY <1>39, <2>1, <2>2, <2>3 DEF StageBegin
<1>40. ASSUME NEW c \in Clients, ArmBegin(c) PROVE Budget'
  <2>1. /\ client[c].gen = bsp.generation /\ client[c].step = "staged"
        /\ client[c].slot \in Slots
    BY <1>40, <1>t DEF ArmBegin, ArmAuthorized, Tokens
  <2>2. bsm.img[client[c].slot] = client[c].img /\ bsm.boots[client[c].slot] = 0
    BY <2>1
  <2> DEFINE n == Arm(bsm, client[c].slot)
  <2>3. OneTry(n) /\ n.img = bsm.img
    BY <1>t, <2>1, <2>2, ArmTries, ArmSays
  <2>4. /\ pc' = "ctlWrite" /\ wr'.mgr = n /\ wr'.for = "arm"
        /\ op'.slot = client[c].slot /\ op'.img = client[c].img
    BY <1>40 DEF ArmBegin, Commit, StartWrite, Operation
  <2> HIDE DEF n
  <2> QED BY <1>40, <2>2, <2>3, <2>4 DEF ArmBegin
<1>41. ASSUME NEW c \in Clients, TokenRefused(c) PROVE Budget'
  BY <1>41, <1>t
     DEF TokenRefused, Phase, Where, Holds, Modes, InData, Rams, Tokens,
        NoToken
<1>42. CASE UNCHANGED vars
  BY <1>42 DEF vars
<1> QED
  BY <1>1, <1>2, <1>3, <1>4, <1>5, <1>6, <1>7, <1>8, <1>9, <1>10, <1>11,
     <1>12, <1>13, <1>14, <1>15, <1>16, <1>17, <1>18, <1>19, <1>20, <1>21,
     <1>22, <1>23, <1>24, <1>25, <1>26, <1>27, <1>28, <1>29, <1>30, <1>31,
     <1>32, <1>33, <1>34, <1>35, <1>36, <1>37, <1>38, <1>39, <1>40, <1>41,
     <1>42
     DEF Next, ControlWrite, DataWrite, Installer, Loader, Kernel, Client

-----------------------------------------------------------------------------
(* The whole invariant, and the safety properties it implies *)

\* BootInv holds in every reachable state.
LEMMA BootInvariant == Spec => []BootInv
<1>1. Init => BootInv
  BY InitSafe, InitPhase, InitMirrors, InitDecision, InitBudget DEF BootInv
<1>2. BootInv /\ [Next]_vars => BootInv'
  <2> SUFFICES ASSUME BootInv, [Next]_vars PROVE BootInv'
    OBVIOUS
  <2>1. StoreInv'
    BY NextSafe DEF BootInv
  <2>2. Phase'
    BY NextPhase DEF BootInv
  <2>3. Mirrors'
    BY <2>2, NextMirrors DEF BootInv
  <2>4. Decision'
    BY <2>1, <2>2, <2>3, NextDecision DEF BootInv
  <2>5. Budget'
    BY <2>1, <2>2, NextBudget DEF BootInv
  <2> QED BY <2>1, <2>2, <2>3, <2>4, <2>5 DEF BootInv
<1> QED BY <1>1, <1>2, PTL DEF Spec

\* Whatever is durable is a valid record.
LEMMA DurableValid ==
    ASSUME BootInv, HasRecord
    PROVE  /\ Newest(ctl) \in Copies /\ Usable(Durable)
           /\ Durable.mgr \in Managers /\ SafeNow(Durable.mgr)
           /\ OneTry(Durable.mgr)
<1>1. ctl \in [Copies -> SectorValues]
  BY DEF BootInv, StoreInv, TypeInv, TypeOK
<1>2. Newest(ctl) \in Copies /\ Usable(Durable)
  BY <1>1, NewestUsable DEF HasRecord, Durable
<1> QED BY <1>1, <1>2
        DEF BootInv, StoreInv, SafeRecords, Budget, Tries, Durable, SectorValues

\* For any number of updates, crashes and device errors: an armed image gets
\* one boot, which is spent on the medium before its kernel runs.
THEOREM AttemptAlwaysSound == Spec => []AttemptSound
<1>1. BootInv => AttemptSpentFirst
  <2> SUFFICES ASSUME BootInv, mode = "kernel", attempt.flag = "pending",
                      Durable.mgr.pending = attempt.slot
               PROVE  Durable.mgr.tries = 0 /\ Durable.mgr.boots[attempt.slot] = 1
    BY DEF AttemptSpentFirst
  <2>1. HasRecord /\ Durable.mgr.tries = 0
    BY DEF BootInv, Decision, Vouched, Vouches
  <2>2. Durable.mgr \in Managers /\ OneTry(Durable.mgr)
    BY <2>1, DurableValid
  <2>3. attempt.slot \in Slots /\ attempt.slot # NoSlot
    BY DEF BootInv, StoreInv, TypeInv, TypeOK, Slots, NoSlot
  <2> QED BY <2>1, <2>2, <2>3 DEF OneTry, Armed, MaxTries, Managers
<1>2. BootInv => OneAttempt
  BY DEF BootInv, Budget, Tries, OneTry, Armed, OneAttempt
<1> QED BY <1>1, <1>2, BootInvariant, PTL DEF AttemptSound

\* Between operations, whatever failed in the last one: RAM is what the next
\* boot will read, an offered provider has nothing in flight, no claim is left.
THEOREM BetweenOperationsHolds == Spec => []BetweenOperations
<1>1. BootInv => RamMatchesMedium
  BY DEF BootInv, Mirrors, RamCurrent, Writing, InControl, RamMatchesMedium
<1>2. BootInv => ProviderClean
  BY DEF BootInv, Phase, Holds, Flushed, Clean, ProviderClean, KernelIdle
<1>3. BootInv => ClaimReleased
  BY DEF BootInv, Phase, Holds, Writing, InControl, InData, ClaimReleased
<1> QED BY <1>1, <1>2, <1>3, BootInvariant, PTL DEF BetweenOperations

\* Whatever the clients interleave: an arm command arms the image its own
\* client staged.
THEOREM ClientsArmTheirOwn == Spec => []ArmsOwnImage
<1>1. BootInv => ArmsOwnImage
  <2>1. BootInv /\ wr.for = "arm" => InControl
    BY DEF BootInv, Phase, Where, NoWrite
  <2> QED BY <2>1 DEF BootInv, Budget, Staged, Writing, ArmsOwnImage
<1> QED BY <1>1, BootInvariant, PTL

\* The kernel that runs stays complete on the medium, in a slot that the
\* durable record confirms or tries.
THEOREM RunningAlwaysIntact == Spec => []RunningIntact
<1>1. BootInv => RunningIntact
  <2> SUFFICES ASSUME BootInv, mode = "kernel"
               PROVE  /\ attempt.slot \in
                            {Durable.mgr.confirmed, Durable.mgr.pending}
                      /\ Intact(hdr, pay, attempt.slot, running)
    BY DEF RunningIntact
  <2>1. HasRecord /\ Vouches(Durable.mgr)
    BY DEF BootInv, Decision, Vouched
  <2>2. Durable.mgr \in Managers /\ SafeNow(Durable.mgr)
    BY <2>1, DurableValid
  <2>3. attempt.slot \in Slots
    BY DEF BootInv, StoreInv, TypeInv, TypeOK
  <2>4. attempt.slot \in Needed(Durable.mgr)
    BY <2>1, <2>2, <2>3
       DEF Vouches, SafeNow, Safe, Validate, ValidSettled, ValidPending, Needed,
           Slots, NoSlot, Managers
  <2> QED BY <2>1, <2>2, <2>4 DEF Vouches, SafeNow, Safe
<1> QED BY <1>1, BootInvariant, PTL

-----------------------------------------------------------------------------
(* What a loss of power leaves *)

\* Losing power keeps the durable record, or lets the one record the device
\* had cached take its place.
LEMMA PowerOffOutcome ==
    ASSUME BootInv, PowerOff
    PROVE  \/ (HasRecord' <=> HasRecord) /\ (HasRecord => Durable' = Durable)
           \/ \E c \in Copies : /\ vctl[c] # ctl[c]
                                /\ HasRecord' /\ Durable' = vctl[c]
<1>t. /\ ctl \in [Copies -> SectorValues] /\ vctl \in [Copies -> SectorValues]
      /\ ctl' \in [Copies -> SectorValues]
  <2>2. TypeInv => /\ ctl \in [Copies -> SectorValues]
                   /\ vctl \in [Copies -> SectorValues]
    BY DEF TypeInv, TypeOK
  <2>3. PICK v \in [Copies ->
                      UNION {Settle(ctl[x], vctl[x], Torn) : x \in Copies}] :
              /\ \A x \in Copies : v[x] \in Settle(ctl[x], vctl[x], Torn)
              /\ ctl' = v
    BY DEF PowerOff
  <2>4. \A x \in Copies : v[x] \in SectorValues
    BY <2>2, <2>3, RestTypes DEF BootInv, StoreInv, Settle
  <2> QED BY <2>2, <2>3, <2>4 DEF BootInv, StoreInv
<1>s. ASSUME NEW x \in Copies
      PROVE  /\ ctl'[x] \in {ctl[x], vctl[x], Torn}
             /\ vctl[x] = ctl[x] => ctl'[x] = ctl[x]
  <2>1. ctl'[x] \in Settle(ctl[x], vctl[x], Torn)
    BY DEF PowerOff
  <2> QED BY <2>1 DEF Settle
<1>u. ~Usable(Torn)
  BY DEF Usable, Torn
<1>o. \A x \in Copies : Other(x) \in Copies /\ Other(x) # x /\
                        \A y \in Copies : y = x \/ y = Other(x)
  BY DEF Other, Copies
<1>n. HasRecord => /\ Newest(ctl) \in Copies /\ Usable(Durable)
                   /\ ctl'[Newest(ctl)] = ctl[Newest(ctl)]
  <2>1. HasRecord => Newest(ctl) \in Copies /\ Usable(Durable)
    BY DurableValid
  <2>2. HasRecord => vctl[Newest(ctl)] = ctl[Newest(ctl)]
    BY <1>o, <2>1 DEF BootInv, Decision, Cached
  <2> QED BY <1>s, <2>1, <2>2
<1>1. CASE \E c \in Copies : ctl'[c] # ctl[c] /\ Usable(ctl'[c])
  <2>1. PICK c \in Copies : ctl'[c] # ctl[c] /\ Usable(ctl'[c])
    BY <1>1
  <2>2. ctl'[c] = vctl[c] /\ vctl[c] # ctl[c] /\ vctl[c] \in SectorValues
    BY <1>s, <1>t, <1>u, <2>1
  <2>3. IF HasRecord THEN c = Other(Newest(ctl)) /\ vctl[c].gen > Durable.gen
        ELSE c = 0
    BY <2>2 DEF BootInv, Decision, Cached
  <2>4. ctl' = [ctl EXCEPT ![c] = vctl[c]]
    <3>1. ASSUME NEW x \in Copies, x # c PROVE ctl'[x] = ctl[x]
      <4>1. CASE HasRecord
        BY <1>n, <1>o, <2>3, <3>1, <4>1
      <4>2. CASE ~HasRecord
        <5>1. vctl[x] = ctl[x]
          BY <2>3, <3>1, <4>2 DEF BootInv, Decision, Cached
        <5> QED BY <1>s, <5>1
      <4> QED BY <4>1, <4>2
    <3> QED BY <1>t, <2>2, <3>1
  <2>5. HasRecord => vctl[c].gen > Durable.gen /\ c = Other(Newest(ctl))
    BY <2>3
  <2>6. Newest(ctl') = c
    <3>1. HasRecord => Durable.gen \in Nat /\ vctl[c].gen \in Nat
      BY <1>n, <1>t, <2>2 DEF Durable, SectorValues
    <3>2. (\E x \in Copies : Usable(ctl[x])) =>
             c = Other(Newest(ctl)) /\ ctl[Newest(ctl)].gen < vctl[c].gen
      BY <2>5, <3>1 DEF HasRecord, Durable
    <3> QED BY <1>t, <2>1, <2>2, <2>4, <3>2, NewestLands
  <2> QED BY <2>1, <2>2, <2>6 DEF HasRecord, Durable
<1>2. CASE \A c \in Copies : ctl'[c] = ctl[c] \/ ~Usable(ctl'[c])
  <2>1. CASE ~HasRecord
    BY <1>2, <2>1 DEF HasRecord
  <2>2. CASE HasRecord
    <3>1. Newest(ctl') = Newest(ctl)
      BY <1>2, <1>n, <1>t, <2>2 DEF Newest, Copies, Durable, HasRecord
    <3> QED BY <1>n, <2>2, <3>1 DEF HasRecord, Durable
  <2> QED BY <2>1, <2>2
<1> QED BY <1>1, <1>2

\* A flush of the control sector makes the record written the durable one.
LEMMA FlushOutcome ==
    ASSUME BootInv, BootInv', CtlFlush
    PROVE  HasRecord' /\ Durable' = Record(wr.gen, wr.mgr)
BY DEF BootInv, Mirrors, Ahead, CtlFlush

\* Only a control flush and a loss of power change the durable record.
LEMMA OtherwiseDurable ==
    ASSUME BootInv, [Next]_vars, ~CtlFlush, ~PowerOff
    PROVE  \/ ctl' = ctl
           \/ ~HasRecord /\ ~HasRecord' /\ mode = "off" /\ mode' = "install"
              /\ running' = running
<1> USE DEF mediumVars
<1>1. ASSUME NEW i \in Images, StartInstall(i)
      PROVE  ~HasRecord /\ ~HasRecord' /\ mode = "off" /\ mode' = "install"
             /\ running' = running
  BY <1>1 DEF StartInstall, HasRecord, Usable, Erased
<1>2. CASE PayFlush \/ HdrFlush
  BY <1>2 DEF PayFlush, HdrFlush, BootInv, Phase, Flushed, InData
<1>3. ASSUME NEW c \in Clients, Client(c) PROVE ctl' = ctl
  BY <1>3 DEF Client, PlanStage, StageBegin, ArmBegin, TokenRefused
<1>4. CASE Kernel
  BY <1>4 DEF Kernel, KernelBind, KernelBindError, StageFirstDone,
     StageSecondDone, StageHeaderDone, StagePublished, ConfirmBegin, CommandDone
<1>5. CASE Loader
  BY <1>5 DEF Loader, LoaderBind, LoaderBindRefused, LoaderReadError,
     SelectConfirmed, SelectAttempt, SelectRollback, SelectRefused, AttemptSpent,
     RolledBack, EnterKernel, LoadFailed
<1>6. CASE Installer \/ PowerOn \/ UNCHANGED vars
  BY <1>6 DEF Installer, InstallHeaderDone, InstallFirstDone, InstallDone,
     PowerOn, vars
<1>7. CASE CtlWrite \/ CtlWriteError \/ CtlVerifyError
  BY <1>7 DEF CtlWrite, CtlWriteError, CtlVerifyError
<1>8. CASE PayWrite \/ PayVerify \/ PayVerifyError \/ HdrWrite \/ DataError
  BY <1>8 DEF PayWrite, PayVerify, PayVerifyError, HdrWrite, DataError
<1> QED BY <1>1, <1>2, <1>3, <1>4, <1>5, <1>6, <1>7, <1>8
        DEF Next, ControlWrite, DataWrite, PowerLoss, Restart

\* The generation the next boot selects never goes back, whatever sectors a
\* crash tears and whichever write an error leaves in doubt.
THEOREM GenerationNeverGoesBack == Spec => GenerationMonotonic
<1>1. ASSUME BootInv, BootInv', [Next]_vars, HasRecord
      PROVE  Durable'.gen >= Durable.gen
  <2>t. Durable.gen \in Nat
    <3>1. Durable \in SectorValues
      BY <1>1, DurableValid DEF Durable, BootInv, StoreInv, TypeInv, TypeOK
    <3> QED BY <3>1, StoreAssumption DEF SectorValues
  <2>1. CASE CtlFlush
    <3>1. Durable'.gen = wr.gen /\ wr.gen \in Nat
      BY <1>1, <2>1, FlushOutcome, StoreAssumption
         DEF Record, BootInv, StoreInv, TypeInv, TypeOK
    <3>2. Durable.gen < wr.gen
      BY <1>1, <2>1 DEF BootInv, Mirrors, Ahead, CtlFlush
    <3> QED BY <2>t, <3>1, <3>2
  <2>2. CASE PowerOff
    <3>1. CASE Durable' = Durable
      BY <2>t, <3>1
    <3>2. ASSUME NEW c \in Copies, vctl[c] # ctl[c], Durable' = vctl[c]
          PROVE  Durable'.gen >= Durable.gen
      <4>1. vctl[c].gen > Durable.gen
        BY <1>1, <3>2 DEF BootInv, Decision, Cached
      <4>2. vctl[c].gen \in Nat
        BY StoreAssumption, <1>1
           DEF BootInv, StoreInv, TypeInv, TypeOK, SectorValues
      <4> QED BY <2>t, <3>2, <4>1, <4>2
    <3> QED BY <1>1, <2>2, <3>1, <3>2, PowerOffOutcome
  <2>3. CASE ~CtlFlush /\ ~PowerOff
    <3>1. ctl' = ctl
      BY <1>1, <2>3, OtherwiseDurable
    <3> QED BY <2>t, <3>1 DEF Durable
  <2> QED BY <2>1, <2>2, <2>3
<1> QED BY <1>1, BootInvariant, PTL DEF Spec, GenerationMonotonic

-----------------------------------------------------------------------------
(* Refinement of ABUpdate *)

\* The loader is between spending the attempt and jumping to its image.
GrantPoint ==
    \/ pc = "ctlVerify" /\ wr.for = "spend"
    \/ pc = "load" /\ op.sel = 1

\* The abstract state after the step is read off the durable record after it.
LEMMA AbstractViewNext ==
    /\ HasRecord' => /\ GoodImage' = Good(Durable'.mgr)
                     /\ TrialImage' = Trial(Durable'.mgr)
                     /\ FreshTrial' <=> Fresh(Durable'.mgr)
    /\ ~HasRecord' => GoodImage' = NoImage /\ TrialImage' = NoImage /\ ~FreshTrial'
BY DEF GoodImage, TrialImage, FreshTrial, HasTrial, Good, Trial, Fresh, Armed

\* The abstract flags are truth values.
LEMMA AbstractFlags ==
    /\ FreshTrial \in BOOLEAN /\ FreshTrial' \in BOOLEAN
    /\ Granted \in BOOLEAN /\ Granted' \in BOOLEAN
BY DEF FreshTrial, HasTrial, Granted

\* A record that becomes durable makes exactly the decision it was written for.
LEMMA DecisionMade ==
    ASSUME NEW n, HasRecord', Durable'.mgr = n
    PROVE  /\ Keeps(n) => UNCHANGED <<GoodImage, TrialImage, FreshTrial>>
           /\ Installs(n) => Promise!DecideInstall
           /\ Arms(n) => Promise!DecideArm
           /\ Spends(n) => Promise!DecideAttempt
           /\ RollsBack(n) => Promise!DecideRollback
           /\ Accepts(n) => Promise!DecideConfirm
<1>1. GoodImage' = Good(n) /\ TrialImage' = Trial(n) /\ (FreshTrial' <=> Fresh(n))
  BY AbstractViewNext
<1>a. Keeps(n) => UNCHANGED <<GoodImage, TrialImage, FreshTrial>>
  BY <1>1, AbstractFlags DEF Keeps
<1>b. Installs(n) => Promise!DecideInstall
  BY <1>1, AbstractFlags DEF Installs, Promise!DecideInstall
<1>c. Arms(n) => Promise!DecideArm
  BY <1>1, AbstractFlags DEF Arms, Promise!DecideArm
<1>d. Spends(n) => Promise!DecideAttempt
  BY <1>1, AbstractFlags DEF Spends, Promise!DecideAttempt
<1>e. RollsBack(n) => Promise!DecideRollback
  BY <1>1, AbstractFlags DEF RollsBack, Promise!DecideRollback
<1>f. Accepts(n) => Promise!DecideConfirm
  BY <1>1, AbstractFlags DEF Accepts, Promise!DecideConfirm
<1> QED BY <1>a, <1>b, <1>c, <1>d, <1>e, <1>f

\* A step that leaves the durable record and the kernel alone, and is not about
\* to start the attempt, is the loader giving up or no step at all.
LEMMA QuietPromise ==
    ASSUME ctl' = ctl \/ (~HasRecord /\ ~HasRecord'), running' = running,
           ~GrantPoint'
    PROVE  Promise!GiveUp \/ UNCHANGED Promise!absVars
<1>1. UNCHANGED <<GoodImage, TrialImage, FreshTrial>>
  <2>1. CASE ctl' = ctl
    BY <2>1 DEF GoodImage, TrialImage, FreshTrial, HasTrial, HasRecord, Durable
  <2>2. CASE ~HasRecord /\ ~HasRecord'
    BY <2>2 DEF GoodImage, TrialImage, FreshTrial, HasTrial
  <2> QED BY <2>1, <2>2
<1>2. Granted' = FALSE
  BY AbstractFlags DEF Granted, GrantPoint
<1>3. CASE Granted
  BY <1>1, <1>2, <1>3 DEF Promise!GiveUp
<1>4. CASE Granted = FALSE
  BY <1>1, <1>2, <1>4 DEF Promise!absVars
<1> QED BY <1>3, <1>4, AbstractFlags

\* A control flush makes the decision of its caller.
LEMMA FlushPromise ==
    ASSUME BootInv, BootInv', CtlFlush
    PROVE  Promise!AbsNext \/ UNCHANGED Promise!absVars
<1>1. HasRecord' /\ Durable'.mgr = wr.mgr
  BY FlushOutcome DEF Record
<1>2. running' = running /\ Granted = FALSE
  BY AbstractFlags DEF CtlFlush, bootVars, Granted
<1>3. CASE wr.for = "spend"
  <2>1. Promise!DecideAttempt
    BY <1>1, <1>3, DecisionMade DEF BootInv, Decision, Intent, CtlFlush
  <2>2. TrialImage' # NoImage
    BY <2>1 DEF Promise!DecideAttempt
  <2>3. HasTrial'
    BY <2>2 DEF TrialImage
  <2>4. Granted' = TRUE
    BY <1>3, <2>3, AbstractFlags DEF Granted, CtlFlush
  <2> QED BY <1>2, <2>1, <2>4 DEF Promise!AbsNext, Promise!Attempt
<1>4. CASE wr.for # "spend"
  <2>1. Granted' = FALSE
    BY <1>4, AbstractFlags DEF Granted, CtlFlush
  <2>2. wr.for \in {"init1", "init2", "stage1", "stage2", "publish", "arm",
                    "rollback", "confirm"}
    BY <1>4 DEF BootInv, StoreInv, TypeInv, TypeOK, Modes, Phase, Where, Writing,
       Installing, Loading, Staging, Commands, InControl, InData, CtlFlush
  <2>3. \/ UNCHANGED <<GoodImage, TrialImage, FreshTrial>>
        \/ Promise!DecideInstall \/ Promise!DecideArm
        \/ Promise!DecideRollback \/ Promise!DecideConfirm
    BY <1>1, <2>2, DecisionMade DEF BootInv, Decision, Intent, CtlFlush
  <2> QED BY <1>2, <2>1, <2>3
          DEF Promise!AbsNext, Promise!absVars, Promise!Install,
              Promise!ArmTrial, Promise!Restore, Promise!Accept
<1> QED BY <1>3, <1>4

\* Losing power is the abstract crash: the decision in flight is made or lost.
LEMMA PowerOffPromise ==
    ASSUME BootInv, PowerOff
    PROVE  Promise!Crash
<1>1. running' = NoImage /\ Granted' = FALSE
  BY AbstractFlags DEF PowerOff, Granted
<1>2. ASSUME NEW c \in Copies, vctl[c] # ctl[c], HasRecord', Durable' = vctl[c]
      PROVE  \/ UNCHANGED <<GoodImage, TrialImage, FreshTrial>>
             \/ Promise!DecideInstall \/ Promise!DecideArm
             \/ Promise!DecideAttempt
             \/ Promise!DecideRollback \/ Promise!DecideConfirm
  <2>1. Decides(vctl[c].mgr)
    BY <1>2 DEF BootInv, Decision, Cached
  <2> QED BY <1>2, <2>1, DecisionMade DEF Decides
<1>3. ASSUME HasRecord' <=> HasRecord, HasRecord => Durable' = Durable
      PROVE  UNCHANGED <<GoodImage, TrialImage, FreshTrial>>
  BY <1>3, AbstractView, AbstractViewNext, AbstractFlags
<1> QED BY <1>1, <1>2, <1>3, PowerOffOutcome DEF Promise!Crash

\* Jumping to the loaded image runs the confirmed image or the trial.
LEMMA EnterPromise ==
    ASSUME BootInv, EnterKernel
    PROVE  Promise!RunGood \/ Promise!RunTrial
<1>1. /\ mode = "loader" /\ running = NoImage /\ bsp.ready
  BY DEF BootInv, StoreInv, TypeInv, TypeOK, Modes, Phase, Where, Holds, Writing,
     InControl, InData, EnterKernel
<1>2. HasRecord /\ Durable.mgr = bsm
  BY <1>1 DEF BootInv, Mirrors, RamCurrent, Writing, InControl, EnterKernel, Record
<1>3. Good(bsm) \in Images /\ (Armed(bsm) => Trial(bsm) \in Images)
  BY <1>2, DurableValid, ValidImages DEF SafeNow, Safe
<1>4. UNCHANGED <<GoodImage, TrialImage, FreshTrial>>
  BY DEF EnterKernel, mediumVars, GoodImage, TrialImage, FreshTrial, HasTrial,
     HasRecord, Durable
<1>5. running' = bsm.img[op.slot] /\ Granted' = FALSE
  BY AbstractFlags DEF EnterKernel, Granted
<1>6. GoodImage = Good(bsm) /\ TrialImage = Trial(bsm)
  BY <1>2, AbstractView
<1>7. CASE op.sel = 1
  <2>1. op.slot = bsm.pending /\ op.slot \in Slots
    BY <1>7 DEF BootInv, Decision, Vouched, EnterKernel, StoreInv, TypeInv, TypeOK
  <2>2. Armed(bsm)
    BY <2>1 DEF Armed, Slots, NoSlot
  <2>3. Granted
    BY <1>2, <1>7, <2>2 DEF Granted, HasTrial, Armed, EnterKernel
  <2> QED BY <1>1, <1>4, <1>5, <1>6, <2>1, <2>2, <2>3 DEF Promise!RunTrial, Trial
<1>8. CASE op.sel # 1
  <2>1. op.slot = bsm.confirmed /\ ~Armed(bsm)
    BY <1>8 DEF BootInv, Decision, Vouched, EnterKernel, Armed
  <2>2. Granted = FALSE
    BY <1>8, AbstractFlags DEF Granted, EnterKernel
  <2> QED BY <1>1, <1>3, <1>4, <1>5, <1>6, <2>1, <2>2, NoImageAssumption
          DEF Promise!RunGood, Trial, Good
<1> QED BY <1>7, <1>8

\* Every step of the store is a step of the promise or no step at all.
LEMMA StepPromise ==
    ASSUME BootInv, BootInv', [Next]_vars
    PROVE  Promise!AbsNext \/ UNCHANGED Promise!absVars
<1>1. CASE CtlFlush
  BY <1>1, FlushPromise
<1>2. CASE PowerOff
  BY <1>2, PowerOffPromise DEF Promise!AbsNext
<1>3. CASE EnterKernel
  BY <1>3, EnterPromise DEF Promise!AbsNext
<1>4. CASE AttemptSpent
  <2>1. ctl' = ctl /\ running' = running /\ GrantPoint /\ GrantPoint'
    BY <1>4 DEF AttemptSpent, Verified, GrantPoint, Selected, Operation,
       mediumVars, bootVars
  <2>2. UNCHANGED <<GoodImage, TrialImage, FreshTrial, HasTrial>>
    BY <2>1 DEF GoodImage, TrialImage, FreshTrial, HasTrial, HasRecord, Durable
  <2>3. Granted' <=> Granted
    BY <2>1, <2>2 DEF Granted, GrantPoint
  <2> QED BY <2>1, <2>2, <2>3, AbstractFlags DEF Promise!absVars
<1>5. CASE UNCHANGED vars
  BY <1>5 DEF vars, Promise!absVars, GoodImage, TrialImage, FreshTrial, HasTrial,
     HasRecord, Durable, Granted, mediumVars, viewVars, bootVars, ramVars
<1>6. CASE ~CtlFlush /\ ~PowerOff /\ ~EnterKernel /\ ~AttemptSpent /\ Next
  <2>1. ctl' = ctl \/ (~HasRecord /\ ~HasRecord')
    BY <1>6, OtherwiseDurable
  <2>2. running' = running /\ ~GrantPoint'
    <3> USE DEF bootVars, GrantPoint
    <3>1. ASSUME NEW i \in Images, StartInstall(i)
          PROVE  running' = running /\ ~GrantPoint'
      BY <3>1 DEF StartInstall
    <3>2. ASSUME NEW c \in Clients, Client(c)
          PROVE  running' = running /\ ~GrantPoint'
      BY <3>2 DEF Client, PlanStage, StageBegin, ArmBegin, TokenRefused, StartWrite,
         Commit, KernelIdle
    <3>3. CASE Kernel
      BY <3>3 DEF Kernel, KernelBind, KernelBindError, StageFirstDone,
         StageSecondDone, StageHeaderDone, StagePublished, ConfirmBegin,
         CommandDone, StartWrite, Commit
    <3>4. CASE Loader
      BY <1>6, <3>4 DEF Loader, LoaderBind, LoaderBindRefused, LoaderReadError,
         SelectConfirmed, SelectAttempt, SelectRollback, SelectRefused,
         RolledBack, LoadFailed, Halt, StartWrite, Commit, Selected, Operation
    <3>5. CASE Installer \/ PowerOn
      BY <3>5 DEF Installer, InstallHeaderDone, InstallFirstDone, InstallDone,
         PowerOn, StartWrite
    <3>6. CASE ControlWrite
      BY <1>6, <3>6 DEF ControlWrite, CtlWrite, CtlWriteError, CtlVerifyError, Abort
    <3>7. CASE DataWrite
      BY <3>7 DEF DataWrite, PayWrite, PayFlush, PayVerify, PayVerifyError,
         HdrWrite, HdrFlush, DataError, Abort
    <3> QED BY <1>6, <3>1, <3>2, <3>3, <3>4, <3>5, <3>6, <3>7
            DEF Next, PowerLoss, Restart
  <2> QED BY <2>1, <2>2, QuietPromise DEF Promise!AbsNext
<1> QED BY <1>1, <1>2, <1>3, <1>4, <1>5, <1>6

\* Sector by sector, with crashes, torn sectors and device errors anywhere and
\* any number of clients and updates, the store implements the A/B update: a
\* confirmed image is replaced only by one that ran and was confirmed, and an
\* armed image gets one boot.
THEOREM StoreKeepsPromise == Spec => ImplementsPromise
<1>1. Init => Promise!AbsInit
  <2> SUFFICES ASSUME Init PROVE Promise!AbsInit
    OBVIOUS
  <2>1. ~HasRecord /\ running = NoImage /\ pc = "idle"
    BY DEF Init, HasRecord, Usable, Erased
  <2> QED BY <2>1, AbstractView, AbstractFlags DEF Promise!AbsInit, Granted
<1>2. BootInv /\ BootInv' /\ [Next]_vars => [Promise!AbsNext]_(Promise!absVars)
  BY StepPromise
<1> QED BY <1>1, <1>2, BootInvariant, PTL
        DEF Spec, ImplementsPromise, Promise!AbsSpec

=============================================================================

------------------------- MODULE BootSlotStoreProofs -------------------------
(***************************************************************************)
(* Proofs about BootSlotStore for every set of images and clients, every   *)
(* payload size, every bound on faults, with and without torn sectors.     *)
(***************************************************************************)
EXTENDS BootSlotStore, TLAPS

-----------------------------------------------------------------------------
(* The manager's transitions, for every set of images.  Each yields a manager *)
(* of the right type, keeps boot_slot_manager_validate true, and never makes   *)
(* a record rely on the bytes of a slot it did not rely on before              *)
(* (StagePublish excepted).                                                    *)

\* What bs_manager_defaults puts in RAM is a manager.
LEMMA DefaultsType == Defaults \in Managers
BY DEF Defaults, Managers, Slots, States, NoSlot, MaxTries

\* x ^ 1u is the other of two.
LEMMA OtherSlot ==
    ASSUME NEW s \in Slots
    PROVE  /\ Other(s) \in Slots
           /\ Other(s) # s
           /\ \A x \in Slots : x = s \/ x = Other(s)
BY DEF Slots, Other

-----------------------------------------------------------------------------
(* Types *)

\* bs_slot_apply_image keeps the manager well formed.
LEMMA ApplyImageType ==
    ASSUME NEW m \in Managers, NEW s \in Slots,
           NEW i \in Images \union {NoImage},
           NEW q \in States, NEW n \in Slots
    PROVE  ApplyImage(m, s, i, q, n) \in Managers
BY DEF ApplyImage, Managers

\* The manager the installer writes is well formed.
LEMMA InstalledType ==
    ASSUME NEW i \in Images \union {NoImage} PROVE Installed(i) \in Managers
BY DefaultsType DEF Installed, Managers, Slots, States, NoSlot, MaxTries

\* store_stage_authorize and store_stage_publish keep it well formed.
LEMMA StageType ==
    ASSUME NEW m \in Managers, NEW s \in Slots,
           NEW i \in Images \union {NoImage}
    PROVE  StageClaim(m, s, i) \in Managers /\ StagePublish(m, s, i) \in Managers
<1>1. m.confirmed \in Slots
  BY DEF Managers
<1> QED BY <1>1, ApplyImageType DEF StageClaim, StagePublish, States

\* Arming keeps it well formed.
LEMMA ArmType ==
    ASSUME NEW m \in Managers, NEW s \in Slots
    PROVE  Arm(m, s) \in Managers
BY DEF Arm, Managers, States, MaxTries

\* Spending an attempt keeps it well formed when there is one to spend.
LEMMA SpendType ==
    ASSUME NEW m \in Managers, m.pending # NoSlot, m.tries > 0
    PROVE  Spend(m) \in Managers
BY DEF Spend, Managers, MaxTries

\* Rolling back keeps it well formed.
LEMMA RollbackType ==
    ASSUME NEW m \in Managers, m.pending # NoSlot
    PROVE  Rollback(m) \in Managers
<1> DEFINE a == [m.st EXCEPT ![m.pending] = "FAILED", ![m.confirmed] = "ACTIVE"]
           b == [m.health EXCEPT ![m.pending] = FALSE, ![m.confirmed] = TRUE]
<1>1. m.pending \in Slots /\ m.confirmed \in Slots
  BY DEF Managers
<1>2. a \in [Slots -> States]
  BY <1>1 DEF Managers, States
<1>3. b \in [Slots -> BOOLEAN]
  BY <1>1 DEF Managers
<1> HIDE DEF a, b
<1>4. [st |-> a, img |-> m.img, boots |-> m.boots, health |-> b,
       active |-> m.confirmed, next |-> m.confirmed,
       confirmed |-> m.confirmed, pending |-> NoSlot, rollback |-> FALSE,
       tries |-> 0] \in Managers
  BY <1>1, <1>2, <1>3 DEF Managers, MaxTries
<1> QED BY <1>4 DEF Rollback, a, b

\* Confirming keeps it well formed.
LEMMA ConfirmType ==
    ASSUME NEW m \in Managers, NEW s \in Slots
    PROVE  Confirm(m, s) \in Managers
BY DEF Confirm, Managers, States, MaxTries

-----------------------------------------------------------------------------
(* boot_slot_manager_validate *)

\* The installed manager passes its own validation.
LEMMA InstalledValid ==
    ASSUME NEW i \in Images PROVE Validate(Installed(i))
BY NoImageAssumption
   DEF Installed, Defaults, Validate, SlotIdentityValid, ValidSettled,
       ValidPending, Slots, NoSlot, Other

\* Declaring the target FAILED keeps the record valid.
LEMMA StageClaimValid ==
    ASSUME NEW m \in Managers, NEW s \in Slots, NEW i \in Images,
           Validate(m), m.pending = NoSlot, s # m.confirmed
    PROVE  Validate(StageClaim(m, s, i))
BY NoImageAssumption
   DEF StageClaim, ApplyImage, Managers, Validate, SlotIdentityValid,
       ValidSettled, Slots, Other

\* Publishing the staged slot keeps the record valid.
LEMMA StagePublishValid ==
    ASSUME NEW m \in Managers, NEW s \in Slots, NEW i \in Images,
           Validate(m), m.pending = NoSlot, s # m.confirmed
    PROVE  Validate(StagePublish(m, s, i))
BY NoImageAssumption
   DEF StagePublish, ApplyImage, Managers, Validate, SlotIdentityValid,
       ValidSettled, Slots, Other

\* Arming a VALID slot keeps the record valid.
LEMMA ArmValid ==
    ASSUME NEW m \in Managers, NEW s \in Slots, Validate(m),
           m.pending = NoSlot, s # m.confirmed, m.st[s] = "VALID"
    PROVE  Validate(Arm(m, s))
BY DEF Arm, Managers, Validate, SlotIdentityValid, ValidSettled, ValidPending,
       Slots, Other, NoSlot

\* Spending the attempt keeps the record valid.
LEMMA SpendValid ==
    ASSUME NEW m \in Managers, Validate(m), m.pending # NoSlot
    PROVE  Validate(Spend(m))
BY DEF Spend, Managers, Validate, SlotIdentityValid, ValidPending, Slots, NoSlot

\* Rolling back keeps the record valid.
LEMMA RollbackValid ==
    ASSUME NEW m \in Managers, Validate(m), m.pending # NoSlot
    PROVE  Validate(Rollback(m))
BY DEF Rollback, Managers, Validate, SlotIdentityValid, ValidSettled,
       ValidPending, Slots, Other, NoSlot

\* Confirming the attempt keeps the record valid.
LEMMA ConfirmValid ==
    ASSUME NEW m \in Managers, Validate(m), m.pending # NoSlot
    PROVE  Validate(Confirm(m, m.pending))
BY DEF Confirm, Managers, Validate, SlotIdentityValid, ValidSettled,
       ValidPending, Slots, Other, NoSlot

-----------------------------------------------------------------------------
(* Which bytes a record relies on *)

\* After the claim the record no longer relies on the slot being overwritten.
LEMMA StageClaimNeeds ==
    ASSUME NEW m \in Managers, NEW s \in Slots, NEW i \in Images
    PROVE  /\ s \notin Needed(StageClaim(m, s, i))
           /\ \A x \in Needed(StageClaim(m, s, i)) :
                 x \in Needed(m) /\ StageClaim(m, s, i).img[x] = m.img[x]
BY DEF StageClaim, ApplyImage, Managers, Needed

\* Publishing relies on the staged slot, with the staged image, and on nothing
\* else that is new.
LEMMA StagePublishNeeds ==
    ASSUME NEW m \in Managers, NEW s \in Slots, NEW i \in Images
    PROVE  \A x \in Needed(StagePublish(m, s, i)) :
               \/ x = s /\ StagePublish(m, s, i).img[x] = i
               \/ x \in Needed(m) /\ StagePublish(m, s, i).img[x] = m.img[x]
BY DEF StagePublish, ApplyImage, Managers, Needed

\* Arming relies on the two slots the valid record relied on already.
LEMMA ArmNeeds ==
    ASSUME NEW m \in Managers, NEW s \in Slots, Validate(m),
           m.pending = NoSlot, m.st[s] = "VALID"
    PROVE  \A x \in Needed(Arm(m, s)) :
               x \in Needed(m) /\ Arm(m, s).img[x] = m.img[x]
BY DEF Arm, Managers, Needed, Validate, ValidSettled, Slots

\* Spending changes no slot state.
LEMMA SpendNeeds ==
    ASSUME NEW m \in Managers
    PROVE  \A x \in Needed(Spend(m)) :
               x \in Needed(m) /\ Spend(m).img[x] = m.img[x]
BY DEF Spend, Managers, Needed

\* Rolling back gives up the attempt and keeps the fallback.
LEMMA RollbackNeeds ==
    ASSUME NEW m \in Managers, Validate(m), m.pending # NoSlot
    PROVE  \A x \in Needed(Rollback(m)) :
               x \in Needed(m) /\ Rollback(m).img[x] = m.img[x]
BY DEF Rollback, Managers, Needed, Validate, ValidPending, Slots, NoSlot

\* Confirming keeps both slots.
LEMMA ConfirmNeeds ==
    ASSUME NEW m \in Managers, Validate(m), m.pending # NoSlot
    PROVE  \A x \in Needed(Confirm(m, m.pending)) :
               x \in Needed(m) /\ Confirm(m, m.pending).img[x] = m.img[x]
BY DEF Confirm, Managers, Needed, Validate, ValidPending, Slots, NoSlot

-----------------------------------------------------------------------------
(* The store *)

InControl == pc \in {"ctlWrite", "ctlFlush", "ctlVerify"}
InData    == pc \in {"payWrite", "payFlush", "payVerify", "hdrWrite",
                     "hdrFlush", "hdrVerify"}

\* TypeOK is not inductive: the slot an attempt loads exists because the
\* record that spent the attempt has one pending.
TypeInv ==
    /\ TypeOK
    /\ InControl /\ wr.for = "spend" => wr.mgr.pending # NoSlot

Writes == [copy : Copies, gen : 0..GenMax, mgr : Managers, for : Callers]
Ops    == [client : Clients \union {NoClient}, slot : Slots,
           img : Content, k : Sectors, sel : 0..2]
Rams   == [generation : 0..GenMax, copy : Copies, ready : BOOLEAN,
           degraded : BOOLEAN, claimed : BOOLEAN]
Tokens == [step : {"none", "planned", "staged"}, slot : Slots, img : Content,
           gen : 0..GenMax, mgr : Managers]
Attempts == [flag : {"none", "confirmed", "pending", "rollback"},
             slot : Slots, gen : 0..GenMax]

-----------------------------------------------------------------------------
(* The constant values have the types of the variables they are put in. *)

\* The values Init and a power cycle put in the variables are well typed.
LEMMA RestTypes ==
    /\ Erased \in SectorValues /\ Torn \in SectorValues
    /\ NoWrite \in Writes
    /\ NoOp \in Ops
    /\ NoToken \in Tokens
    /\ NoAttempt \in Attempts
    /\ Unbound \in Rams
<1>1. 0 \in 0..GenMax /\ 0 \in Copies /\ 0 \in Slots
  BY StoreAssumption DEF Copies, Slots
<1>2. Erased \in SectorValues /\ Torn \in SectorValues
  BY <1>1, DefaultsType DEF Erased, Torn, SectorValues
<1>3. NoWrite \in Writes
  BY <1>1, DefaultsType DEF NoWrite, Writes, Callers
<1>4. NoOp \in Ops
  BY <1>1, StoreAssumption DEF NoOp, Operation, Ops, Content, Sectors
<1>5. NoToken \in Tokens
  BY <1>1, DefaultsType DEF NoToken, Tokens, Content
<1>6. NoAttempt \in Attempts /\ Unbound \in Rams
  BY <1>1 DEF NoAttempt, Attempts, Unbound, Rams
<1> QED BY <1>2, <1>3, <1>4, <1>5, <1>6

\* An operation's locals are well typed.
LEMMA OperationType ==
    ASSUME NEW c \in Clients \union {NoClient}, NEW s \in Slots, NEW i \in Content
    PROVE  Operation(c, s, i) \in Ops
BY StoreAssumption DEF Operation, Ops, Sectors

\* So are those of the loader once it has selected a slot.
LEMMA SelectedType ==
    ASSUME NEW s \in Slots, NEW n \in 0..2
    PROVE  Selected(s, n) \in Ops
<1>1. Operation(NoClient, s, NoImage) \in Ops
  BY OperationType DEF Content
<1> HIDE DEF Operation
<1> QED BY <1>1 DEF Selected, Ops

\* The power-on state is well typed.
LEMMA InitType == Init => TypeInv
<1> SUFFICES ASSUME Init PROVE TypeInv
  OBVIOUS
<1>1. /\ ctl \in [Copies -> SectorValues] /\ vctl \in [Copies -> SectorValues]
      /\ hdr \in [Slots -> Content] /\ vhdr \in [Slots -> Content]
      /\ pay \in [Slots -> [Sectors -> Content]]
      /\ vpay \in [Slots -> [Sectors -> Content]]
  BY RestTypes DEF Init, Content
<1>2. /\ mode \in Modes /\ pc \in Steps /\ wr \in Writes /\ op \in Ops
      /\ bsm \in Managers /\ bsp \in Rams /\ provider \in BOOLEAN
      /\ attempt \in Attempts /\ client \in [Clients -> Tokens]
      /\ running \in Content /\ ~InControl
  BY RestTypes, DefaultsType DEF Init, Modes, Steps, Content, InControl
<1>3. faults \in 0..MaxFaults
  BY StoreAssumption DEF Init
<1> QED BY <1>1, <1>2, <1>3 DEF TypeInv, TypeOK, Writes, Ops, Rams, Tokens, Attempts

\* Power-off settles every sector to a value of its type and clears RAM.
LEMMA PowerOffType ==
    ASSUME TypeInv, PowerOff, faults' \in 0..MaxFaults
    PROVE  TypeInv'
<1>1. ctl' \in [Copies -> SectorValues] /\ vctl' = ctl'
  <2>1. PICK v \in [Copies -> UNION {Settle(ctl[x], vctl[x], Torn) : x \in Copies}] :
              /\ \A x \in Copies : v[x] \in Settle(ctl[x], vctl[x], Torn)
              /\ ctl' = v /\ vctl' = v
    BY DEF PowerOff
  <2>2. ASSUME NEW x \in Copies PROVE v[x] \in SectorValues
    BY <2>1, RestTypes DEF TypeInv, TypeOK, Settle
  <2> QED BY <2>1, <2>2
<1>2. hdr' \in [Slots -> Content] /\ vhdr' = hdr'
  <2>1. PICK h \in [Slots -> UNION {Settle(hdr[s], vhdr[s], NoImage) : s \in Slots}] :
              /\ \A s \in Slots : h[s] \in Settle(hdr[s], vhdr[s], NoImage)
              /\ hdr' = h /\ vhdr' = h
    BY DEF PowerOff
  <2>2. ASSUME NEW s \in Slots PROVE h[s] \in Content
    BY <2>1 DEF TypeInv, TypeOK, Settle, Content
  <2> QED BY <2>1, <2>2
<1>3. pay' \in [Slots -> [Sectors -> Content]] /\ vpay' = pay'
  <2> DEFINE U == UNION {Settle(pay[s][k], vpay[s][k], NoImage) :
                            s \in Slots, k \in Sectors}
  <2>1. PICK p \in [Slots -> [Sectors -> U]] :
              /\ \A s \in Slots, k \in Sectors :
                    p[s][k] \in Settle(pay[s][k], vpay[s][k], NoImage)
              /\ pay' = p /\ vpay' = p
    BY DEF PowerOff
  <2> HIDE DEF U
  <2>2. ASSUME NEW s \in Slots, NEW k \in Sectors
        PROVE  p[s][k] \in Content
    <3>1. pay[s][k] \in Content /\ vpay[s][k] \in Content
      BY DEF TypeInv, TypeOK
    <3>2. p[s][k] \in Settle(pay[s][k], vpay[s][k], NoImage)
      BY <2>1
    <3> QED BY <3>1, <3>2 DEF Settle, Content
  <2>3. ASSUME NEW s \in Slots PROVE p[s] \in [Sectors -> Content]
    <3>1. p[s] \in [Sectors -> U]
      BY <2>1
    <3>2. \A k \in Sectors : p[s][k] \in Content
      BY <2>2
    <3> QED BY <3>1, <3>2
  <2> QED BY <2>1, <2>3
<1>4. /\ mode' \in Modes /\ pc' \in Steps /\ wr' \in Writes /\ op' \in Ops
      /\ bsm' \in Managers /\ bsp' \in Rams /\ provider' \in BOOLEAN
      /\ attempt' \in Attempts /\ client' \in [Clients -> Tokens]
      /\ running' \in Content /\ ~InControl'
  BY RestTypes, DefaultsType DEF PowerOff, Modes, Steps, Content, InControl
<1> QED BY <1>1, <1>2, <1>3, <1>4
        DEF TypeInv, TypeOK, Writes, Ops, Rams, Tokens, Attempts

-----------------------------------------------------------------------------
(* Type correctness *)

\* Overwriting one payload sector keeps the payload well typed.
LEMMA OverwriteType ==
    ASSUME NEW p \in [Slots -> [Sectors -> Content]], NEW s \in Slots,
           NEW k \in Sectors, NEW i \in Content
    PROVE  [p EXCEPT ![s][k] = i] \in [Slots -> [Sectors -> Content]]
<1>1. [p[s] EXCEPT ![k] = i] \in [Sectors -> Content]
  OBVIOUS
<1> QED BY <1>1

\* A client's token is cleared or kept.
LEMMA ReleaseType ==
    ASSUME TypeInv, ReleaseClient PROVE client' \in [Clients -> Tokens]
BY RestTypes DEF TypeInv, TypeOK, ReleaseClient, Tokens

\* Every error path leaves a well-typed state.
LEMMA AbortType ==
    ASSUME TypeInv, NEW u \in BOOLEAN, NEW k \in BOOLEAN, Abort(u, k), Fault,
           UNCHANGED mediumVars,
           vctl' \in [Copies -> SectorValues], vhdr' \in [Slots -> Content],
           vpay' \in [Slots -> [Sectors -> Content]]
    PROVE  TypeInv'
<1>1. /\ bsp' \in Rams /\ provider' \in BOOLEAN /\ mode' \in Modes
      /\ pc' \in Steps /\ ~InControl'
  BY DEF Abort, TypeInv, TypeOK, Rams, Modes, Steps, InControl
<1>2. wr' \in Writes /\ op' \in Ops /\ client' \in [Clients -> Tokens]
  BY RestTypes, ReleaseType DEF Abort
<1>3. faults' \in 0..MaxFaults
  BY StoreAssumption DEF Fault, TypeInv, TypeOK
<1>4. UNCHANGED <<ctl, hdr, pay, bsm, attempt, running>>
  BY DEF Abort, mediumVars
<1> QED BY <1>1, <1>2, <1>3, <1>4
        DEF TypeInv, TypeOK, Writes, Ops, Rams, Tokens, Attempts

\* Generations are 64-bit: addition stays in range, by wrapping if need be.
LEMMA AddGenType ==
    ASSUME NEW g \in 0..GenMax, NEW n \in 1..2 PROVE AddGen(g, n) \in 0..GenMax
BY StoreAssumption DEF AddGen

\* A record to write is well typed, so starting a control write is.
LEMMA StartWriteType ==
    ASSUME TypeInv, NEW c \in Copies, NEW g \in 0..GenMax, NEW m \in Managers,
           NEW f \in Callers, StartWrite(c, g, m, f)
    PROVE  pc' \in Steps /\ wr' \in Writes /\ wr'.for = f /\ wr'.mgr = m
BY DEF StartWrite, Steps, Writes

\* A commit writes the other mirror with the next generation.
LEMMA CommitType ==
    ASSUME TypeInv, NEW m \in Managers, NEW f \in Callers, Commit(m, f)
    PROVE  pc' \in Steps /\ wr' \in Writes /\ wr'.for = f /\ wr'.mgr = m
<1>1. Other(bsp.copy) \in Copies
  BY DEF TypeInv, TypeOK, Other, Copies
<1>2. AddGen(bsp.generation, 1) \in 0..GenMax
  BY AddGenType DEF TypeInv, TypeOK
<1> QED BY <1>1, <1>2, StartWriteType DEF Commit

\* The sector a verified write puts on the device is well typed.
LEMMA RecordType ==
    ASSUME NEW g \in 0..GenMax, NEW m \in Managers
    PROVE  Record(g, m) \in SectorValues
BY DEF Record, SectorValues

\* Every step keeps every variable in its type.
LEMMA NextType == TypeInv /\ [Next]_vars => TypeInv'
<1> SUFFICES ASSUME TypeInv, [Next]_vars PROVE TypeInv'
  OBVIOUS
<1>1. CASE PowerLoss
  BY <1>1, PowerOffType, StoreAssumption
     DEF PowerLoss, TypeInv, TypeOK
<1>2. CASE Restart
  BY <1>2, PowerOffType
     DEF Restart, TypeInv, TypeOK
<1>3. CASE PowerOn
  BY <1>3
     DEF PowerOn, Modes, Steps, TypeInv, TypeOK, InControl, mediumVars,
         viewVars, bootVars, ramVars
<1>4. CASE CtlWrite
  BY <1>4, RecordType
     DEF CtlWrite, Steps, TypeInv, TypeOK, InControl, mediumVars, viewVars,
         bootVars, ramVars
<1>5. CASE CtlWriteError
  <2>1. vctl' \in [Copies -> SectorValues]
    <3>1. Record(wr.gen, wr.mgr) \in SectorValues /\ vctl \in [Copies -> SectorValues]
      BY RecordType DEF TypeInv, TypeOK
    <3> QED BY <1>5, <3>1 DEF CtlWriteError
  <2>2. vhdr' = vhdr /\ vpay' = vpay /\ UNCHANGED mediumVars
    BY <1>5 DEF CtlWriteError
  <2>3. Abort(TRUE, TRUE) /\ Fault
    BY <1>5 DEF CtlWriteError
  <2> QED BY <2>1, <2>2, <2>3, AbortType DEF TypeInv, TypeOK
<1>6. CASE CtlFlush
  BY <1>6
     DEF CtlFlush, Steps, TypeInv, TypeOK, InControl, mediumVars, viewVars,
         bootVars, ramVars
<1>7. CASE CtlVerifyError
  BY <1>7, AbortType
     DEF CtlVerifyError, TypeInv, TypeOK, InControl, mediumVars, viewVars,
         bootVars, ramVars
<1>8. CASE PayWrite
  <2>1. op \in Ops /\ vpay \in [Slots -> [Sectors -> Content]]
    BY DEF TypeInv, TypeOK, Ops
  <2>2. vpay' \in [Slots -> [Sectors -> Content]]
    BY <1>8, <2>1, OverwriteType DEF PayWrite, Ops
  <2>3. op' \in Ops
    BY <1>8, <2>1, StoreAssumption DEF PayWrite, Ops, Sectors
  <2>4. pc' \in Steps /\ ~InControl'
    BY <1>8 DEF PayWrite, Steps, InControl
  <2> QED BY <1>8, <2>2, <2>3, <2>4
          DEF PayWrite, Ops, TypeInv, TypeOK, mediumVars, bootVars, ramVars
<1>9. CASE PayFlush
  BY <1>9
     DEF PayFlush, Steps, TypeInv, TypeOK, InControl, mediumVars, viewVars,
         bootVars, ramVars
<1>10. CASE PayVerify
  BY <1>10
     DEF PayVerify, Steps, TypeInv, TypeOK, InControl, mediumVars, viewVars,
         bootVars, ramVars
<1>11. CASE PayVerifyError
  BY <1>11, AbortType
     DEF PayVerifyError, TypeInv, TypeOK, InControl, mediumVars, viewVars,
         bootVars, ramVars
<1>12. CASE HdrWrite
  BY <1>12
     DEF HdrWrite, Steps, TypeInv, TypeOK, InControl, mediumVars, viewVars,
         bootVars, ramVars
<1>13. CASE HdrFlush
  BY <1>13
     DEF HdrFlush, Steps, TypeInv, TypeOK, InControl, mediumVars, viewVars,
         bootVars, ramVars
<1>14. CASE DataError
  <2>1. op \in Ops /\ vctl \in [Copies -> SectorValues]
        /\ vhdr \in [Slots -> Content] /\ vpay \in [Slots -> [Sectors -> Content]]
    BY DEF TypeInv, TypeOK, Ops
  <2>2. vpay' = vpay \/ vpay' = [vpay EXCEPT ![op.slot][op.k] = op.img]
    BY <1>14 DEF DataError, viewVars
  <2>3. vpay' \in [Slots -> [Sectors -> Content]]
    <3>1. op.slot \in Slots /\ op.k \in Sectors /\ op.img \in Content
      BY <2>1 DEF Ops
    <3>2. [vpay EXCEPT ![op.slot][op.k] = op.img] \in [Slots -> [Sectors -> Content]]
      BY <2>1, <3>1, OverwriteType
    <3> QED BY <2>1, <2>2, <3>2
  <2>4. vhdr' \in [Slots -> Content] /\ vctl' \in [Copies -> SectorValues]
    BY <1>14, <2>1 DEF DataError, viewVars, Ops
  <2>5. Abort(TRUE, FALSE) /\ Fault /\ UNCHANGED mediumVars
    BY <1>14 DEF DataError
  <2> QED BY <2>3, <2>4, <2>5, AbortType
<1>15. CASE InstallHeaderDone
  BY <1>15, InstalledType, StoreAssumption, StartWriteType
     DEF InstallHeaderDone, Callers, Content, Copies, TypeInv, TypeOK,
         InControl, mediumVars, viewVars, bootVars, ramVars, Writes, Ops, Rams,
         Tokens, Attempts
<1>16. CASE InstallFirstDone
  BY <1>16, StoreAssumption, StartWriteType
     DEF InstallFirstDone, Callers, Copies, TypeInv, TypeOK, InControl,
         mediumVars, viewVars, bootVars, ramVars, Writes, Ops, Rams, Tokens,
         Attempts
<1>17. CASE InstallDone
  BY <1>17, RestTypes
     DEF InstallDone, Modes, Steps, TypeInv, TypeOK, InControl, mediumVars,
         viewVars, bootVars, ramVars, Writes, Ops, Rams, Tokens, Attempts
<1>18. CASE LoaderBind
  BY <1>18
     DEF LoaderBind, Bound, Newest, Copies, SectorValues, Steps, TypeInv,
         TypeOK, InControl, mediumVars, viewVars, bootVars, ramVars
<1>19. CASE LoaderBindRefused
  BY <1>19, RestTypes
     DEF LoaderBindRefused, Halt, Modes, Steps, TypeInv, TypeOK, InControl,
         mediumVars, viewVars, bootVars, ramVars, Writes, Ops, Rams, Tokens,
         Attempts
<1>20. CASE LoaderReadError
  BY <1>20, RestTypes, StoreAssumption
     DEF LoaderReadError, Fault, Halt, Modes, Steps, TypeInv, TypeOK,
         InControl, mediumVars, viewVars, bootVars, ramVars, Writes, Ops, Rams,
         Tokens, Attempts
<1>21. CASE SelectConfirmed
  <2>1. bsm.confirmed \in Slots
    BY DEF TypeInv, TypeOK, Managers
  <2>2. op' \in Ops
    BY <1>21, <2>1, SelectedType DEF SelectConfirmed
  <2> QED BY <1>21, <2>2
          DEF SelectConfirmed, Steps, Ops, TypeInv, TypeOK, InControl,
              mediumVars, viewVars, bootVars, ramVars
<1>22. CASE SelectAttempt
  <2>1. Spend(bsm) \in Managers /\ Spend(bsm).pending # NoSlot
    BY <1>22, SpendType DEF SelectAttempt, TypeInv, TypeOK, Managers, Spend
  <2>2. pc' \in Steps /\ wr' \in Writes /\ wr'.for = "spend" /\ wr'.mgr = Spend(bsm)
    BY <1>22, <2>1, CommitType DEF SelectAttempt, CommitAllowed, Callers
  <2> QED BY <1>22, <2>1, <2>2
          DEF SelectAttempt, Writes, TypeInv, TypeOK, InControl, mediumVars,
              viewVars, bootVars, ramVars
<1>23. CASE AttemptSpent
  <2>1. wr.mgr.pending \in Slots
    BY <1>23 DEF AttemptSpent, Verified, TypeInv, TypeOK, InControl, Managers
  <2>2. op' \in Ops
    BY <1>23, <2>1, SelectedType DEF AttemptSpent
  <2>3. bsp' \in Rams /\ bsm' \in Managers
    BY <1>23 DEF AttemptSpent, Publish, TypeInv, TypeOK, Rams
  <2> QED BY <1>23, <2>2, <2>3, RestTypes
          DEF AttemptSpent, Steps, TypeInv, TypeOK, InControl, mediumVars,
              viewVars, bootVars, ramVars, Writes, Ops, Rams, Tokens, Attempts
<1>24. CASE SelectRollback
  BY <1>24, RollbackType, CommitType
     DEF SelectRollback, CommitAllowed, Callers, TypeInv, TypeOK, InControl,
         mediumVars, viewVars, bootVars, ramVars, Writes, Ops, Rams, Tokens,
         Attempts
<1>25. CASE RolledBack
  <2>1. wr.mgr.confirmed \in Slots
    BY <1>25 DEF RolledBack, Verified, TypeInv, TypeOK, InControl, Managers
  <2>2. op' \in Ops
    BY <1>25, <2>1, SelectedType DEF RolledBack
  <2>3. bsp' \in Rams /\ bsm' \in Managers
    BY <1>25 DEF RolledBack, Publish, TypeInv, TypeOK, Rams
  <2> QED BY <1>25, <2>2, <2>3, RestTypes
          DEF RolledBack, Steps, TypeInv, TypeOK, InControl, mediumVars,
              viewVars, bootVars, ramVars, Writes, Ops, Rams, Tokens, Attempts
<1>26. CASE SelectRefused
  BY <1>26, RestTypes
     DEF SelectRefused, Halt, Modes, Steps, TypeInv, TypeOK, InControl,
         mediumVars, viewVars, bootVars, ramVars, Writes, Ops, Rams, Tokens,
         Attempts
<1>27. CASE EnterKernel
  BY <1>27, RestTypes, DefaultsType, SMTT(60)
     DEF EnterKernel, Modes, Steps, Managers, Content, TypeInv, TypeOK,
         InControl, mediumVars, viewVars, bootVars, ramVars, Writes, Ops, Rams,
         Tokens, Attempts
<1>28. CASE LoadFailed
  BY <1>28, RestTypes, StoreAssumption
     DEF LoadFailed, Fault, Halt, Modes, Steps, TypeInv, TypeOK, InControl,
         mediumVars, viewVars, bootVars, ramVars, Writes, Ops, Rams, Tokens,
         Attempts
<1>29. CASE KernelBind
  BY <1>29
     DEF KernelBind, Bound, Newest, Copies, SectorValues, Steps, TypeInv,
         TypeOK, InControl, mediumVars, viewVars, bootVars, ramVars
<1>30. CASE KernelBindError
  BY <1>30, StoreAssumption
     DEF KernelBindError, Fault, Steps, TypeInv, TypeOK, InControl, mediumVars,
         viewVars, bootVars, ramVars
<1>31. CASE StageFirstDone
  BY <1>31, AddGenType, StartWriteType
     DEF StageFirstDone, Verified, Callers, TypeInv, TypeOK, InControl,
         mediumVars, viewVars, bootVars, ramVars, Writes, Ops, Rams, Tokens,
         Attempts
<1>32. CASE StageSecondDone
  BY <1>32, RestTypes
     DEF StageSecondDone, Verified, Steps, TypeInv, TypeOK, InControl,
         mediumVars, viewVars, bootVars, ramVars, Writes, Ops, Rams, Tokens,
         Attempts
<1>33. CASE StageHeaderDone
  BY <1>33, StageType, CommitType
     DEF StageHeaderDone, Callers, Content, TypeInv, TypeOK, InControl,
         mediumVars, viewVars, bootVars, ramVars, Writes, Ops, Rams, Tokens,
         Attempts
<1>34. CASE StagePublished
  BY <1>34, RestTypes, DefaultsType
     DEF StagePublished, Publish, Verified, Steps, TypeInv, TypeOK, InControl,
         mediumVars, viewVars, bootVars, ramVars, Writes, Ops, Rams, Tokens,
         Attempts
<1>35. CASE ConfirmBegin
  BY <1>35, ConfirmType, CommitType, OperationType
     DEF ConfirmBegin, CommitAllowed, Callers, Content, TypeInv, TypeOK,
         InControl, mediumVars, viewVars, bootVars, ramVars, Writes, Ops, Rams,
         Tokens, Attempts
<1>36. CASE CommandDone
  BY <1>36, RestTypes, ReleaseType
     DEF CommandDone, Publish, Verified, Steps, TypeInv, TypeOK, InControl,
         mediumVars, viewVars, bootVars, ramVars, Writes, Ops, Rams, Tokens,
         Attempts
<1>37. ASSUME NEW i \in Images, StartInstall(i) PROVE TypeInv'
  <2>1. ctl' \in [Copies -> SectorValues] /\ vctl' = ctl'
    BY <1>37, RestTypes DEF StartInstall
  <2>2. hdr' \in [Slots -> Content] /\ vhdr' = hdr'
    BY <1>37 DEF StartInstall, Content
  <2>3. pay' \in [Slots -> [Sectors -> Content]] /\ vpay' = pay'
    BY <1>37 DEF StartInstall, Content
  <2>4. op' \in Ops
    BY <1>37, OperationType DEF StartInstall, Slots, Content
  <2> QED BY <1>37, <2>1, <2>2, <2>3, <2>4
          DEF StartInstall, Modes, Steps, TypeInv, TypeOK, InControl,
              mediumVars, viewVars, bootVars, ramVars, Ops
<1>38. ASSUME NEW c \in Clients, NEW i \in Images, PlanStage(c, i) PROVE TypeInv'
  BY <1>38
     DEF PlanStage, Other, Slots, Content, Managers, TypeInv, TypeOK,
         InControl, mediumVars, viewVars, bootVars, ramVars
<1>39. ASSUME NEW c \in Clients, StageBegin(c) PROVE TypeInv'
  <2>1. client[c] \in Tokens /\ bsp \in Rams /\ bsm \in Managers
    BY DEF TypeInv, TypeOK, Tokens, Rams
  <2>2. client[c].slot \in Slots /\ client[c].img \in Content
    BY <2>1 DEF Tokens
  <2>3. /\ Other(bsp.copy) \in Copies
        /\ AddGen(bsp.generation, 1) \in 0..GenMax
    <3>1. bsp.generation \in 0..GenMax /\ bsp.copy \in Copies
      BY <2>1 DEF Rams
    <3> QED BY <3>1, AddGenType DEF Other, Copies
  <2>4. StageClaim(bsm, client[c].slot, client[c].img) \in Managers
    BY <2>1, <2>2, StageType DEF Content
  <2>5. pc' \in Steps /\ wr' \in Writes /\ wr'.for = "stage1"
    BY <1>39, <2>3, <2>4, StartWriteType DEF StageBegin, Callers
  <2>6. op' \in Ops /\ bsp' \in Rams
    BY <1>39, <2>1, <2>2, OperationType DEF StageBegin, Rams
  <2> QED BY <1>39, <2>3, <2>5, <2>6
          DEF StageBegin, TypeInv, TypeOK, InControl, mediumVars, viewVars,
              bootVars, ramVars, Writes, Ops, Rams, Tokens, Attempts
<1>40. ASSUME NEW c \in Clients, ArmBegin(c) PROVE TypeInv'
  BY <1>40, ArmType, OperationType, CommitType
     DEF ArmBegin, ArmAuthorized, CommitAllowed, Callers, TypeInv, TypeOK,
         InControl, mediumVars, viewVars, bootVars, ramVars, Writes, Ops, Rams,
         Tokens, Attempts
<1>41. ASSUME NEW c \in Clients, TokenRefused(c) PROVE TypeInv'
  BY <1>41, RestTypes
     DEF TokenRefused, TypeInv, TypeOK, InControl, mediumVars, viewVars,
         bootVars, ramVars, Writes, Ops, Rams, Tokens, Attempts
<1>42. CASE UNCHANGED vars
  BY <1>42 DEF vars, TypeInv, TypeOK, InControl, mediumVars, viewVars,
      bootVars, ramVars
<1> QED
  BY <1>1, <1>2, <1>3, <1>4, <1>5, <1>6, <1>7, <1>8, <1>9, <1>10, <1>11, <1>12,
      <1>13, <1>14, <1>15, <1>16, <1>17, <1>18, <1>19, <1>20, <1>21, <1>22,
      <1>23, <1>24, <1>25, <1>26, <1>27, <1>28, <1>29, <1>30, <1>31, <1>32,
      <1>33, <1>34, <1>35, <1>36, <1>37, <1>38, <1>39, <1>40, <1>41, <1>42
     DEF Next, ControlWrite, DataWrite, Installer, Loader, Kernel, Client

\* Every variable keeps the shape of the C object it stands for, whatever the
\* sets of images and clients: a slot index, a try count, a payload sector
\* never leaves its range.
THEOREM TypeCorrect == Spec => []TypeOK
<1>1. TypeInv => TypeOK
  BY DEF TypeInv
<1> QED BY <1>1, InitType, NextType, PTL DEF Spec

-----------------------------------------------------------------------------
(***************************************************************************)
(* The inductive invariant behind SlotsIntact and RecordsValid.  A manager *)
(* is Safe when it passes boot_slot_manager_validate and every slot it     *)
(* relies on is complete both on the medium and as reads see it, so that   *)
(* neither a flush nor the loss of the cache can spoil it.                 *)
(***************************************************************************)
Safe(h, p, vh, vp, m) ==
    /\ Validate(m)
    /\ \A s \in Needed(m) : Intact(h, p, s, m.img[s]) /\ Intact(vh, vp, s, m.img[s])

SafeNow(m) == Safe(hdr, pay, vhdr, vpay, m)

\* Every record a bind may ever read, now or after a crash.
SafeRecords ==
    \A c \in Copies : /\ Usable(ctl[c])  => SafeNow(ctl[c].mgr)
                      /\ Usable(vctl[c]) => SafeNow(vctl[c].mgr)

\* The record being written, and the manager in RAM.
SafeManagers ==
    /\ InControl => SafeNow(wr.mgr)
    /\ bsp.ready => SafeNow(bsm)
    /\ mode \in {"off", "install"} => ~bsp.ready

\* No record, wherever it is held, relies on slot s.
Spare(s) ==
    /\ \A c \in Copies : /\ Usable(ctl[c])  => s \notin Needed(ctl[c].mgr)
                         /\ Usable(vctl[c]) => s \notin Needed(vctl[c].mgr)
    /\ bsp.ready => s \notin Needed(bsm)

\* While payload and header are written, nothing relies on the target slot.
SpareTarget ==
    /\ InData => op.img \in Images /\ Spare(op.slot)
    /\ InData /\ mode = "install" => op.slot = 0
    /\ pc \in {"hdrWrite", "hdrFlush", "hdrVerify"} =>
          \A k \in Sectors : vpay[op.slot][k] = op.img
    /\ pc \in {"payVerify", "hdrVerify", "ctlVerify"} =>
          ctl = vctl /\ hdr = vhdr /\ pay = vpay

\* The two mirrors of store_stage_authorize give the target slot up in turn.
Claiming ==
    /\ InControl /\ wr.for \in {"stage1", "stage2"} =>
          op.img \in Images /\ op.slot \notin Needed(wr.mgr)
    /\ InControl /\ wr.for = "stage1" => wr.copy = Other(bsp.copy)
    /\ InControl /\ wr.for = "stage2" =>
          \A c \in Copies : c # wr.copy /\ Usable(vctl[c]) =>
              op.slot \notin Needed(vctl[c].mgr)
    /\ \A c \in Clients : client[c].step = "planned" => client[c].img \in Images

StoreInv ==
    TypeInv /\ SafeRecords /\ SafeManagers /\ SpareTarget /\ Claiming

-----------------------------------------------------------------------------
(* What keeps a manager Safe *)

\* A manager that relies on no more than a safe one is safe.
LEMMA SafeFrom ==
    ASSUME NEW h, NEW p, NEW vh, NEW vp, NEW m, NEW n,
           Safe(h, p, vh, vp, m), Validate(n),
           \A x \in Needed(n) : x \in Needed(m) /\ n.img[x] = m.img[x]
    PROVE  Safe(h, p, vh, vp, n)
BY DEF Safe

\* A flush makes the medium what reads saw.
LEMMA SafeFlush ==
    ASSUME NEW h, NEW p, NEW vh, NEW vp, NEW m, Safe(h, p, vh, vp, m)
    PROVE  Safe(vh, vp, vh, vp, m)
BY DEF Safe

\* Writing a payload sector of a slot the manager does not rely on.
LEMMA SafePayWrite ==
    ASSUME NEW h, NEW p, NEW vh, NEW m, NEW vp \in [Slots -> [Sectors -> Content]],
           NEW s \in Slots, NEW k \in Sectors, NEW i \in Content,
           Safe(h, p, vh, vp, m), s \notin Needed(m)
    PROVE  Safe(h, p, vh, [vp EXCEPT ![s][k] = i], m)
<1>1. ASSUME NEW x \in Needed(m)
      PROVE  [vp EXCEPT ![s][k] = i][x] = vp[x]
  BY DEF Needed
<1> QED BY <1>1 DEF Safe, Intact

\* Writing the header of a slot the manager does not rely on.
LEMMA SafeHdrWrite ==
    ASSUME NEW h, NEW p, NEW vp, NEW m, NEW vh \in [Slots -> Content],
           NEW s \in Slots, NEW i \in Content,
           Safe(h, p, vh, vp, m), s \notin Needed(m)
    PROVE  Safe(h, p, [vh EXCEPT ![s] = i], vp, m)
<1>1. ASSUME NEW x \in Needed(m)
      PROVE  [vh EXCEPT ![s] = i][x] = vh[x]
  BY DEF Needed
<1> QED BY <1>1 DEF Safe, Intact

\* Losing power: a slot the manager relies on has nothing in the cache that
\* differs from the medium, so however its sectors settle they keep its image.
LEMMA SafeSettle ==
    ASSUME TypeInv, PowerOff, NEW m, SafeNow(m)
    PROVE  Safe(hdr', pay', vhdr', vpay', m)
<1>1. hdr' = vhdr' /\ pay' = vpay'
  BY DEF PowerOff
<1>2. ASSUME NEW s \in Needed(m)
      PROVE  Intact(hdr', pay', s, m.img[s])
  <2>1. /\ s \in Slots
        /\ Intact(hdr, pay, s, m.img[s]) /\ Intact(vhdr, vpay, s, m.img[s])
    BY DEF SafeNow, Safe, Needed
  <2>2. hdr'[s] \in Settle(hdr[s], vhdr[s], NoImage)
    BY <2>1 DEF PowerOff
  <2>3. ASSUME NEW k \in Sectors
        PROVE  pay'[s][k] \in Settle(pay[s][k], vpay[s][k], NoImage)
    BY <2>1 DEF PowerOff
  <2> QED BY <2>1, <2>2, <2>3 DEF Intact, Settle
<1> QED BY <1>1, <1>2 DEF SafeNow, Safe

\* After power-off every record is one that was on the medium or in the cache.
LEMMA PowerOffSafe ==
    ASSUME StoreInv, PowerOff, TypeInv'
    PROVE  StoreInv'
<1>1. ASSUME NEW c \in Copies, Usable(ctl'[c])
      PROVE  Safe(hdr', pay', vhdr', vpay', ctl'[c].mgr)
  <2>1. ctl'[c] \in Settle(ctl[c], vctl[c], Torn)
    BY DEF PowerOff
  <2>2. ctl'[c] = ctl[c] \/ ctl'[c] = vctl[c]
    BY <2>1, <1>1 DEF Settle, Usable, Torn
  <2>3. SafeNow(ctl'[c].mgr)
    BY <1>1, <2>2 DEF StoreInv, SafeRecords
  <2> QED BY <2>3, SafeSettle DEF StoreInv
<1>2. vctl' = ctl'
  BY DEF PowerOff
<1>3. pc' = "idle" /\ ~bsp'.ready /\ \A c \in Clients : client'[c].step = "none"
  BY DEF PowerOff, Unbound, NoToken
<1>4. SafeRecords'
  BY <1>1, <1>2 DEF SafeRecords, SafeNow
<1>5. SafeManagers' /\ SpareTarget' /\ Claiming'
  BY <1>3 DEF SafeManagers, SpareTarget, Claiming, InControl, InData
<1> QED BY <1>4, <1>5 DEF StoreInv

\* An error path gives everything up: it needs safe records and a safe RAM.
LEMMA AbortSafe ==
    ASSUME StoreInv, NEW u \in BOOLEAN, NEW k \in BOOLEAN, Abort(u, k), TypeInv',
           SafeRecords', bsp.ready => SafeNow(bsm)'
    PROVE  StoreInv'
<1>1. /\ pc' = "idle" /\ mode' \in {"kernel", "halted"} /\ bsm' = bsm
      /\ bsp'.ready => bsp.ready
  BY DEF Abort, StoreInv, TypeInv, TypeOK
<1>2. SafeManagers' /\ SpareTarget'
  BY <1>1 DEF SafeManagers, SpareTarget, InControl, InData, SafeNow
<1>3. ASSUME NEW c \in Clients, client'[c].step = "planned"
      PROVE  client'[c].img \in Images
  BY <1>3 DEF Abort, ReleaseClient, NoToken, StoreInv, Claiming, TypeInv, TypeOK
<1>4. Claiming'
  BY <1>1, <1>3 DEF Claiming, InControl
<1> QED BY <1>2, <1>4 DEF StoreInv

Sectors6 == <<ctl, hdr, pay, vctl, vhdr, vpay>>

\* A step that touches no sector keeps every record safe.
LEMMA RecordsKept ==
    ASSUME StoreInv, UNCHANGED Sectors6 PROVE SafeRecords'
BY DEF Sectors6, StoreInv, SafeRecords, SafeNow

\* A step that touches no sector and is not about to write one only has to
\* account for the manager in RAM and for the clients' plans.
LEMMA QuietStep ==
    ASSUME StoreInv, UNCHANGED Sectors6, TypeInv', ~InControl', ~InData',
           bsp'.ready => Safe(hdr, pay, vhdr, vpay, bsm'),
           mode' \in {"off", "install"} => ~bsp'.ready,
           \A c \in Clients : client'[c].step = "planned" => client'[c].img \in Images
    PROVE  StoreInv'
<1>1. SafeRecords'
  BY RecordsKept
<1>2. SafeManagers'
  BY DEF SafeManagers, SafeNow, Sectors6
<1>3. SpareTarget' /\ Claiming'
  BY DEF SpareTarget, Claiming, InControl, InData
<1> QED BY <1>1, <1>2, <1>3 DEF StoreInv

\* Starting the write of a safe record on behalf of anyone but
\* store_stage_authorize.
LEMMA WriteStep ==
    ASSUME StoreInv, UNCHANGED <<Sectors6, bsm, bsp, mode, client>>, TypeInv',
           NEW c, NEW g, NEW m, NEW f, StartWrite(c, g, m, f),
           f \notin {"stage1", "stage2"}, SafeNow(m)
    PROVE  StoreInv'
<1>1. SafeRecords'
  BY RecordsKept
<1>2. wr'.mgr = m /\ wr'.for = f /\ pc' = "ctlWrite"
  BY DEF StartWrite
<1>3. SafeManagers'
  BY <1>2 DEF SafeManagers, SafeNow, Sectors6, StoreInv
<1>4. SpareTarget' /\ Claiming'
  BY <1>2 DEF SpareTarget, Claiming, InControl, InData, StoreInv
<1> QED BY <1>1, <1>3, <1>4 DEF StoreInv

\* A flush leaves every safe manager safe.
LEMMA FlushStep ==
    ASSUME StoreInv, ctl' = vctl, hdr' = vhdr, pay' = vpay, TypeInv',
           UNCHANGED <<viewVars, mode, bsm, bsp, wr, op, client>>,
           \/ pc = "ctlFlush" /\ pc' = "ctlVerify"
           \/ pc = "payFlush" /\ pc' = "payVerify"
           \/ pc = "hdrFlush" /\ pc' = "hdrVerify"
    PROVE  StoreInv'
<1>1. ASSUME NEW m, SafeNow(m) PROVE Safe(hdr', pay', vhdr', vpay', m)
  BY <1>1, SafeFlush DEF SafeNow, viewVars
<1>2. SafeRecords'
  BY <1>1 DEF StoreInv, SafeRecords, SafeNow, viewVars
<1>3. SafeManagers'
  BY <1>1 DEF StoreInv, SafeManagers, SafeNow, InControl
<1>4. SpareTarget'
  BY DEF StoreInv, SpareTarget, Spare, InData, viewVars
<1>5. Claiming'
  BY DEF StoreInv, Claiming, InControl, viewVars
<1> QED BY <1>2, <1>3, <1>4, <1>5 DEF StoreInv

\* Overwriting bytes of a spare slot leaves every safe manager safe.
LEMMA SpareWrite ==
    ASSUME StoreInv, InData, UNCHANGED <<ctl, hdr, pay, vctl>>,
           \/ vhdr' = vhdr /\ vpay' = [vpay EXCEPT ![op.slot][op.k] = op.img]
           \/ vpay' = vpay /\ vhdr' = [vhdr EXCEPT ![op.slot] = op.img]
           \/ UNCHANGED <<vhdr, vpay>>
    PROVE  SafeRecords' /\ (bsp.ready => Safe(hdr', pay', vhdr', vpay', bsm))
<1>1. /\ op.slot \in Slots /\ op.k \in Sectors /\ op.img \in Content
      /\ vpay \in [Slots -> [Sectors -> Content]] /\ vhdr \in [Slots -> Content]
  BY DEF StoreInv, TypeInv, TypeOK
<1>2. ASSUME NEW m, SafeNow(m), op.slot \notin Needed(m)
      PROVE  Safe(hdr', pay', vhdr', vpay', m)
  BY <1>1, <1>2, SafePayWrite, SafeHdrWrite DEF SafeNow
<1>3. Spare(op.slot)
  BY DEF StoreInv, SpareTarget
<1>4. ASSUME NEW c \in Copies
      PROVE  /\ Usable(ctl[c])  => Safe(hdr', pay', vhdr', vpay', ctl[c].mgr)
             /\ Usable(vctl[c]) => Safe(hdr', pay', vhdr', vpay', vctl[c].mgr)
  BY <1>2, <1>3 DEF StoreInv, SafeRecords, Spare
<1>5. SafeRecords'
  BY <1>4 DEF SafeRecords, SafeNow
<1>6. bsp.ready => Safe(hdr', pay', vhdr', vpay', bsm)
  BY <1>2, <1>3 DEF StoreInv, SafeManagers, Spare
<1> QED BY <1>5, <1>6

-----------------------------------------------------------------------------
(* Every step keeps StoreInv *)

\* The installed system is empty: nothing to rely on.
LEMMA InitSafe == Init => StoreInv
<1> SUFFICES ASSUME Init PROVE StoreInv
  OBVIOUS
<1>1. TypeInv
  BY InitType
<1>2. /\ \A c \in Copies : ~Usable(ctl[c]) /\ ~Usable(vctl[c])
      /\ ~bsp.ready /\ pc = "idle"
      /\ \A c \in Clients : client[c].step = "none"
  BY DEF Init, Usable, Erased, Unbound, NoToken
<1> QED BY <1>1, <1>2
        DEF StoreInv, SafeRecords, SafeManagers, SpareTarget, Claiming,
            InControl, InData

\* Writing the control record that was prepared: it is safe already.
LEMMA CtlWriteSafe ==
    ASSUME StoreInv, pc = "ctlWrite", UNCHANGED <<ctl, hdr, pay, vhdr, vpay>>,
           vctl' \in {vctl, [vctl EXCEPT ![wr.copy] = Record(wr.gen, wr.mgr)]}
    PROVE  SafeRecords'
<1>1. SafeNow(wr.mgr)
  BY DEF StoreInv, SafeManagers, InControl
<1>2. ASSUME NEW c \in Copies, Usable(vctl'[c]) PROVE SafeNow(vctl'[c].mgr)
  <2>1. vctl'[c] = vctl[c] \/ vctl'[c] = Record(wr.gen, wr.mgr)
    BY DEF StoreInv, TypeInv, TypeOK
  <2> QED BY <1>1, <1>2, <2>1 DEF StoreInv, SafeRecords, Record
<1> QED BY <1>2 DEF StoreInv, SafeRecords, SafeNow

\* Every step keeps every reachable record safe.
LEMMA NextSafe == StoreInv /\ [Next]_vars => StoreInv'
<1> SUFFICES ASSUME StoreInv, [Next]_vars PROVE StoreInv'
  OBVIOUS
<1>a. TypeInv /\ TypeInv'
  BY NextType DEF StoreInv
<1>b. \A c \in Clients : client[c].step = "planned" => client[c].img \in Images
  BY DEF StoreInv, Claiming
<1>c. bsp.ready => SafeNow(bsm)
  BY DEF StoreInv, SafeManagers
<1>d. bsm \in Managers /\ wr.mgr \in Managers
  BY <1>a DEF TypeInv, TypeOK
<1>1. CASE PowerLoss
  BY <1>1, <1>a, PowerOffSafe DEF PowerLoss
<1>2. CASE Restart
  BY <1>2, <1>a, PowerOffSafe DEF Restart
<1>3. CASE PowerOn
  BY <1>3, <1>a, <1>b, <1>c, QuietStep
     DEF PowerOn, SafeNow, InControl, InData, Sectors6, mediumVars, viewVars,
         bootVars, ramVars
<1>4. CASE CtlWrite
  <2>1. SafeRecords'
    BY <1>4, CtlWriteSafe DEF CtlWrite, mediumVars
  <2>2. SafeManagers' /\ SpareTarget'
    BY <1>4 DEF CtlWrite, StoreInv, SafeManagers, SpareTarget, SafeNow,
        InControl,
             InData, Sectors6, mediumVars, viewVars, bootVars, ramVars
  <2>3. \A c \in Copies : c # wr.copy => vctl'[c] = vctl[c]
    BY <1>4, <1>a DEF CtlWrite, TypeInv, TypeOK
  <2>4. Claiming'
    BY <1>4, <2>3 DEF CtlWrite, StoreInv, Claiming, InControl, ramVars
  <2> QED BY <1>a, <2>1, <2>2, <2>4 DEF StoreInv
<1>5. CASE CtlWriteError
  <2>1. SafeRecords'
    BY <1>5, CtlWriteSafe DEF CtlWriteError, mediumVars
  <2>2. bsp.ready => SafeNow(bsm)'
    BY <1>5, <1>c DEF CtlWriteError, Abort, SafeNow, mediumVars
  <2> QED BY <1>5, <1>a, <2>1, <2>2, AbortSafe DEF CtlWriteError
<1>6. CASE CtlFlush
  BY <1>6, <1>a, FlushStep DEF CtlFlush, bootVars, ramVars
<1>7. CASE PayFlush
  BY <1>7, <1>a, FlushStep DEF PayFlush, bootVars, ramVars
<1>8. CASE HdrFlush
  BY <1>8, <1>a, FlushStep DEF HdrFlush, bootVars, ramVars
<1>9. CASE CtlVerifyError
  <2>1. SafeRecords'
    BY <1>9, RecordsKept DEF CtlVerifyError, Sectors6, mediumVars, viewVars,
        bootVars, ramVars
  <2>2. bsp.ready => SafeNow(bsm)'
    BY <1>9, <1>c DEF CtlVerifyError, Abort, SafeNow, mediumVars, viewVars
  <2> QED BY <1>9, <1>a, <2>1, <2>2, AbortSafe DEF CtlVerifyError
<1>10. CASE PayVerifyError
  <2>1. SafeRecords'
    BY <1>10, RecordsKept DEF PayVerifyError, Sectors6, mediumVars, viewVars,
        bootVars, ramVars
  <2>2. bsp.ready => SafeNow(bsm)'
    BY <1>10, <1>c DEF PayVerifyError, Abort, SafeNow, mediumVars, viewVars
  <2> QED BY <1>10, <1>a, <2>1, <2>2, AbortSafe DEF PayVerifyError
<1>11. CASE PayWrite
  <2>1. SafeRecords' /\ (bsp.ready => Safe(hdr', pay', vhdr', vpay', bsm))
    BY <1>11, SpareWrite DEF PayWrite, InData, mediumVars
  <2>2. /\ pc' \in {"payWrite", "payFlush"}
        /\ op'.slot = op.slot /\ op'.img = op.img
    BY <1>11, <1>a DEF PayWrite, TypeInv, TypeOK
  <2>3. SafeManagers'
    BY <1>11, <2>1, <2>2 DEF PayWrite, StoreInv, SafeManagers, SafeNow,
        InControl,
        Sectors6, mediumVars, viewVars, bootVars, ramVars
  <2>4. SpareTarget'
    BY <1>11, <2>2 DEF PayWrite, StoreInv, SpareTarget, Spare, InData, Sectors6,
        mediumVars, viewVars, bootVars, ramVars
  <2>5. Claiming'
    BY <1>b, <1>11, <2>2 DEF PayWrite, Claiming, InControl
  <2> QED BY <1>a, <2>1, <2>3, <2>4, <2>5 DEF StoreInv
<1>12. CASE PayVerify
  <2>1. SafeRecords'
    BY <1>12, RecordsKept DEF PayVerify, Sectors6, mediumVars, viewVars,
        bootVars,
        ramVars
  <2>2. SafeManagers' /\ SpareTarget'
    BY <1>12 DEF PayVerify, StoreInv, SafeManagers, SafeNow, SpareTarget, Spare,
             InControl, InData, Sectors6, mediumVars, viewVars, bootVars, ramVars
  <2>3. Claiming'
    BY <1>b, <1>12 DEF PayVerify, Claiming, InControl
  <2> QED BY <1>a, <2>1, <2>2, <2>3 DEF StoreInv
<1>13. CASE HdrWrite
  <2>1. SafeRecords' /\ (bsp.ready => Safe(hdr', pay', vhdr', vpay', bsm))
    BY <1>13, SpareWrite DEF HdrWrite, InData, mediumVars
  <2>2. SafeManagers'
    BY <1>13, <2>1 DEF HdrWrite, StoreInv, SafeManagers, SafeNow, InControl,
        Sectors6, mediumVars, viewVars, bootVars, ramVars
  <2>3. SpareTarget'
    BY <1>13 DEF HdrWrite, StoreInv, SpareTarget, Spare, InData, Sectors6,
        mediumVars, viewVars, bootVars, ramVars
  <2>4. Claiming'
    BY <1>b, <1>13 DEF HdrWrite, Claiming, InControl
  <2> QED BY <1>a, <2>1, <2>2, <2>3, <2>4 DEF StoreInv
<1>14. CASE DataError
  <2>1. SafeRecords' /\ (bsp.ready => Safe(hdr', pay', vhdr', vpay', bsm))
    BY <1>14, SpareWrite DEF DataError, InData, mediumVars, viewVars
  <2>2. Abort(TRUE, FALSE) /\ bsm' = bsm
    BY <1>14 DEF DataError, Abort
  <2> QED BY <1>a, <2>1, <2>2, AbortSafe DEF SafeNow
<1>15. CASE InstallHeaderDone
  <2>1. /\ op.img \in Images /\ hdr = vhdr /\ pay = vpay
        /\ \A k \in Sectors : vpay[op.slot][k] = op.img
    BY <1>15 DEF InstallHeaderDone, StoreInv, SpareTarget, InData
  <2>2. ASSUME NEW x \in Needed(Installed(op.img))
        PROVE  x = 0 /\ Installed(op.img).img[x] = op.img
    BY DEF Needed, Installed, Defaults, Slots
  <2>3. SafeNow(Installed(op.img))
    BY <1>15, <2>1, <2>2, InstalledValid
       DEF InstallHeaderDone, InData, StoreInv, SpareTarget, SafeNow, Safe,
           Intact
  <2> QED BY <1>15, <1>a, <2>3, WriteStep DEF InstallHeaderDone, Sectors6,
      mediumVars, viewVars, bootVars, ramVars
<1>16. CASE InstallFirstDone
  <2>1. SafeNow(wr.mgr)
    BY <1>16 DEF InstallFirstDone, Verified, StoreInv, SafeManagers, InControl
  <2> QED BY <1>16, <1>a, <2>1, WriteStep DEF InstallFirstDone, Sectors6,
      mediumVars, viewVars, bootVars, ramVars
<1>17. CASE InstallDone
  <2>1. ~bsp.ready
    BY <1>17 DEF InstallDone, StoreInv, SafeManagers, InControl
  <2> QED BY <1>17, <1>a, <1>b, <2>1, QuietStep
          DEF InstallDone, InControl, InData, Sectors6, mediumVars, viewVars,
              bootVars, ramVars
<1>18. CASE LoaderBind
  <2>1. Newest(vctl) \in Copies /\ Usable(vctl[Newest(vctl)])
    BY <1>18 DEF LoaderBind, BindOK, Newest, Copies
  <2>2. Safe(hdr, pay, vhdr, vpay, bsm')
    BY <1>18, <2>1 DEF LoaderBind, Bound, StoreInv, SafeRecords, SafeNow
  <2> QED BY <1>18, <1>a, <1>b, <2>2, QuietStep
          DEF LoaderBind, InControl, InData, Sectors6, mediumVars, viewVars,
              bootVars, ramVars
<1>19. CASE KernelBind
  <2>1. Newest(vctl) \in Copies /\ Usable(vctl[Newest(vctl)])
    BY <1>19 DEF KernelBind, BindOK, Newest, Copies
  <2>2. Safe(hdr, pay, vhdr, vpay, bsm')
    BY <1>19, <2>1 DEF KernelBind, Bound, StoreInv, SafeRecords, SafeNow
  <2> QED BY <1>19, <1>a, <1>b, <2>2, QuietStep
          DEF KernelBind, InControl, InData, Sectors6, mediumVars, viewVars,
              bootVars, ramVars
<1>20. CASE LoaderBindRefused
  BY <1>20, <1>a, <1>b, <1>c, QuietStep
     DEF LoaderBindRefused, SafeNow, InControl, InData, Sectors6, mediumVars,
         viewVars, bootVars, ramVars, Halt
<1>21. CASE LoaderReadError
  BY <1>21, <1>a, <1>b, <1>c, QuietStep
     DEF LoaderReadError, SafeNow, InControl, InData, Sectors6, mediumVars,
         viewVars, bootVars, ramVars, Halt
<1>22. CASE SelectConfirmed
  BY <1>22, <1>a, <1>b, <1>c, QuietStep
     DEF SelectConfirmed, SafeNow, InControl, InData, Sectors6, mediumVars,
         viewVars, bootVars, ramVars, StoreInv, SafeManagers
<1>23. CASE SelectRefused
  BY <1>23, <1>a, <1>b, <1>c, QuietStep
     DEF SelectRefused, SafeNow, InControl, InData, Sectors6, mediumVars,
         viewVars, bootVars, ramVars, Halt
<1>24. CASE LoadFailed
  BY <1>24, <1>a, <1>b, <1>c, QuietStep
     DEF LoadFailed, SafeNow, InControl, InData, Sectors6, mediumVars,
         viewVars, bootVars, ramVars, Halt, StoreInv, SafeManagers
<1>25. CASE KernelBindError
  BY <1>25, <1>a, <1>b, <1>c, QuietStep
     DEF KernelBindError, SafeNow, InControl, InData, Sectors6, mediumVars,
         viewVars, bootVars, ramVars
<1>26. CASE EnterKernel
  BY <1>26, <1>a, <1>b, QuietStep
     DEF EnterKernel, Unbound, InControl, InData, Sectors6, mediumVars,
         viewVars, bootVars, ramVars
<1>27. CASE SelectAttempt
  <2>1. SafeNow(bsm) /\ Validate(bsm) /\ bsm.pending # NoSlot
    BY <1>27, <1>c DEF SelectAttempt, CommitAllowed, SafeNow, Safe
  <2>2. SafeNow(Spend(bsm))
    BY <1>d, <2>1, SpendValid, SpendNeeds, SafeFrom DEF SafeNow
  <2> QED BY <1>27, <1>a, <2>2, WriteStep DEF SelectAttempt, Commit, Sectors6,
      mediumVars, viewVars, bootVars, ramVars
<1>28. CASE SelectRollback
  <2>1. SafeNow(bsm) /\ Validate(bsm) /\ bsm.pending # NoSlot
    BY <1>28, <1>c DEF SelectRollback, CommitAllowed, SafeNow, Safe
  <2>2. SafeNow(Rollback(bsm))
    BY <1>d, <2>1, RollbackValid, RollbackNeeds, SafeFrom DEF SafeNow
  <2> QED BY <1>28, <1>a, <2>2, WriteStep DEF SelectRollback, Commit, Sectors6,
      mediumVars, viewVars, bootVars, ramVars
<1>29. CASE AttemptSpent
  <2>1. SafeNow(wr.mgr)
    BY <1>29 DEF AttemptSpent, Verified, StoreInv, SafeManagers, InControl
  <2> QED BY <1>29, <1>a, <1>b, <2>1, QuietStep
          DEF AttemptSpent, Publish, SafeNow, StoreInv, SafeManagers, InControl,
              InData,
              Sectors6, mediumVars, viewVars, bootVars, ramVars
<1>30. CASE RolledBack
  <2>1. SafeNow(wr.mgr)
    BY <1>30 DEF RolledBack, Verified, StoreInv, SafeManagers, InControl
  <2> QED BY <1>30, <1>a, <1>b, <2>1, QuietStep
          DEF RolledBack, Publish, SafeNow, StoreInv, SafeManagers, InControl,
              InData,
              Sectors6, mediumVars, viewVars, bootVars, ramVars
<1>31. CASE StageFirstDone
  <2>1. SafeNow(wr.mgr) /\ op.slot \notin Needed(wr.mgr) /\ op.img \in Images
    BY <1>31 DEF StageFirstDone, Verified, StoreInv, SafeManagers, Claiming,
        InControl
  <2>2. /\ pc' = "ctlWrite" /\ wr'.mgr = wr.mgr /\ wr'.for = "stage2"
        /\ wr'.copy = bsp.copy
    BY <1>31 DEF StageFirstDone, StartWrite
  <2>3. SafeRecords'
    BY <1>31, RecordsKept DEF StageFirstDone, Sectors6, mediumVars, viewVars,
        bootVars, ramVars
  <2>4. SafeManagers' /\ SpareTarget'
    BY <1>31, <2>1, <2>2 DEF StageFirstDone, StoreInv, SafeManagers, SafeNow,
       SpareTarget, InControl, InData, Sectors6, mediumVars, viewVars, bootVars,
           ramVars
  <2>5. ASSUME NEW c \in Copies, c # bsp.copy PROVE op.slot \notin
      Needed(vctl[c].mgr)
    <3>1. c = wr.copy
      BY <1>31, <1>a, <2>5 DEF StageFirstDone, Verified, StoreInv, Claiming,
         InControl, Other, Copies, TypeInv, TypeOK
    <3> QED BY <1>31, <2>1, <3>1 DEF StageFirstDone, Verified, Record
  <2>6. Claiming'
    BY <1>31, <1>b, <2>1, <2>2, <2>5 DEF StageFirstDone, Claiming, InControl,
        Sectors6, mediumVars, viewVars, bootVars, ramVars
  <2> QED BY <1>a, <2>3, <2>4, <2>6 DEF StoreInv
<1>32. CASE StageSecondDone
  <2>1. /\ mode = "kernel"
        /\ SafeNow(wr.mgr) /\ op.slot \notin Needed(wr.mgr) /\ op.img \in Images
        /\ ctl = vctl
        /\ \A c \in Copies : c # wr.copy /\ Usable(vctl[c]) =>
              op.slot \notin Needed(vctl[c].mgr)
    BY <1>32 DEF StageSecondDone, Verified, StoreInv, SafeManagers, SpareTarget,
       Claiming, InControl
  <2>2. vctl[wr.copy].mgr = wr.mgr
    BY <1>32 DEF StageSecondDone, Verified, Record
  <2>3. SafeRecords'
    BY <1>32, RecordsKept DEF StageSecondDone, Sectors6, mediumVars, viewVars,
        bootVars, ramVars
  <2>4. SafeManagers'
    BY <1>32, <1>a, <2>1 DEF StageSecondDone, StoreInv, SafeManagers, SafeNow,
        InControl,
       TypeInv, TypeOK, Sectors6, mediumVars, viewVars, bootVars, ramVars
  <2>5. Spare(op.slot)'
    BY <1>32, <2>1, <2>2 DEF StageSecondDone, Spare, Sectors6, mediumVars,
        viewVars, bootVars, ramVars
  <2>6. SpareTarget'
    BY <1>32, <1>a, <2>1, <2>5 DEF StageSecondDone, SpareTarget, InData,
        bootVars
  <2>7. Claiming'
    BY <1>32, <1>b DEF StageSecondDone, Claiming, InControl
  <2> QED BY <1>a, <2>3, <2>4, <2>6, <2>7 DEF StoreInv
<1>33. CASE StageHeaderDone
  <2>1. /\ op.img \in Images /\ op.slot \in Slots /\ hdr = vhdr /\ pay = vpay
        /\ \A k \in Sectors : vpay[op.slot][k] = op.img
    BY <1>33, <1>a DEF StageHeaderDone, StoreInv, SpareTarget, InData, TypeInv,
        TypeOK
  <2>2. SafeNow(bsm) /\ Validate(bsm) /\ bsm.st[op.slot] = "FAILED"
    BY <1>33, <1>c DEF StageHeaderDone, SafeNow, Safe
  <2>3. bsm.pending = NoSlot /\ op.slot # bsm.confirmed
    BY <1>d, <2>1, <2>2 DEF Validate, ValidPending, ValidSettled, Managers,
        Slots,
        NoSlot
  <2>4. Intact(hdr, pay, op.slot, op.img) /\ Intact(vhdr, vpay, op.slot, op.img)
    BY <1>33, <2>1 DEF StageHeaderDone, Intact
  <2>5. SafeNow(StagePublish(bsm, op.slot, op.img))
    BY <1>d, <2>1, <2>2, <2>3, <2>4, StagePublishValid, StagePublishNeeds
       DEF SafeNow, Safe
  <2> QED BY <1>33, <1>a, <2>5, WriteStep DEF StageHeaderDone, Commit, Sectors6,
      mediumVars, viewVars, bootVars, ramVars
<1>34. CASE StagePublished
  <2>1. SafeNow(wr.mgr)
    BY <1>34 DEF StagePublished, Verified, StoreInv, SafeManagers, InControl
  <2>2. \A c \in Clients : client'[c].step = "planned" => client'[c].img \in Images
    BY <1>34, <1>a, <1>b DEF StagePublished, TypeInv, TypeOK
  <2> QED BY <1>34, <1>a, <2>1, <2>2, QuietStep
          DEF StagePublished, Publish, SafeNow, StoreInv, SafeManagers,
              InControl,
              InData, Sectors6, mediumVars, viewVars, bootVars, ramVars
<1>35. CASE ConfirmBegin
  <2>1. /\ SafeNow(bsm) /\ Validate(bsm) /\ bsm.pending # NoSlot
        /\ attempt.slot = bsm.pending
    BY <1>35, <1>a, <1>c DEF ConfirmBegin, SafeNow, Safe, TypeInv, TypeOK,
        Slots,
        NoSlot
  <2>2. SafeNow(Confirm(bsm, attempt.slot))
    BY <1>d, <2>1, ConfirmValid, ConfirmNeeds, SafeFrom DEF SafeNow
  <2> QED BY <1>35, <1>a, <2>2, WriteStep DEF ConfirmBegin, Commit, Sectors6,
      mediumVars, viewVars, bootVars, ramVars
<1>36. CASE CommandDone
  <2>1. SafeNow(wr.mgr)
    BY <1>36 DEF CommandDone, Verified, StoreInv, SafeManagers, InControl
  <2>2. \A c \in Clients : client'[c].step = "planned" => client'[c].img \in Images
    BY <1>36, <1>a, <1>b DEF CommandDone, ReleaseClient, NoToken, TypeInv,
        TypeOK
  <2> QED BY <1>36, <1>a, <2>1, <2>2, QuietStep
          DEF CommandDone, Publish, SafeNow, StoreInv, SafeManagers, InControl,
              InData, Sectors6, mediumVars, viewVars, bootVars, ramVars
<1>37. ASSUME NEW i \in Images, StartInstall(i) PROVE StoreInv'
  <2>1. \A c \in Copies : ~Usable(ctl'[c]) /\ ~Usable(vctl'[c])
    BY <1>37 DEF StartInstall, Usable, Erased
  <2>2. ~bsp'.ready /\ pc' = "payWrite" /\ op'.img = i /\ op'.slot = 0
    BY <1>37 DEF StartInstall, StoreInv, SafeManagers, ramVars, Operation
  <2> QED BY <1>37, <1>a, <1>b, <2>1, <2>2
          DEF StartInstall, StoreInv, SafeRecords, SafeManagers, SpareTarget,
              Spare,
              Claiming, InControl, InData
<1>38. ASSUME NEW c \in Clients, NEW i \in Images, PlanStage(c, i) PROVE StoreInv'
  <2>1. \A x \in Clients : client'[x].step = "planned" => client'[x].img \in Images
    BY <1>38, <1>a, <1>b DEF PlanStage, TypeInv, TypeOK
  <2> QED BY <1>38, <1>a, <1>c, <2>1, QuietStep
          DEF PlanStage, KernelIdle, SafeNow, StoreInv, SafeManagers, InControl,
              InData, Sectors6, mediumVars, viewVars, bootVars, ramVars
<1>39. ASSUME NEW c \in Clients, StageBegin(c) PROVE StoreInv'
  <2> DEFINE s == client[c].slot
             i == client[c].img
             m == StageClaim(bsm, s, i)
  <2>1. /\ bsp.ready /\ SafeNow(bsm) /\ Validate(bsm)
        /\ bsm.pending = NoSlot /\ s # bsm.confirmed
    BY <1>39, <1>c DEF StageBegin, StageAuthorized, SafeNow, Safe
  <2>2. s \in Slots /\ i \in Images
    BY <1>39, <1>a, <1>b DEF StageBegin, TypeInv, TypeOK
  <2>3. SafeNow(m) /\ s \notin Needed(m)
    BY <1>d, <2>1, <2>2, StageClaimValid, StageClaimNeeds, SafeFrom DEF SafeNow
  <2>4. /\ pc' = "ctlWrite" /\ wr'.mgr = m /\ wr'.for = "stage1"
        /\ wr'.copy = Other(bsp.copy) /\ op'.slot = s /\ op'.img = i
    BY <1>39 DEF StageBegin, StartWrite, Operation
  <2>5. bsp'.copy = bsp.copy /\ bsp'.ready = bsp.ready
    BY <1>39, <1>a DEF StageBegin, TypeInv, TypeOK
  <2> HIDE DEF s, i, m
  <2>6. SafeRecords'
    BY <1>39, RecordsKept DEF StageBegin, Sectors6, mediumVars, viewVars,
        bootVars, ramVars
  <2>7. SafeManagers'
    BY <1>39, <2>1, <2>3, <2>4, <2>5 DEF StageBegin, StoreInv, SafeManagers,
        SafeNow,
       KernelIdle, Sectors6, mediumVars, viewVars, bootVars, ramVars
  <2>8. SpareTarget' /\ Claiming'
    BY <1>39, <1>b, <2>2, <2>3, <2>4, <2>5 DEF StageBegin, SpareTarget,
        Claiming,
       InControl, InData
  <2> QED BY <1>a, <2>6, <2>7, <2>8 DEF StoreInv
<1>40. ASSUME NEW c \in Clients, ArmBegin(c) PROVE StoreInv'
  <2>1. /\ SafeNow(bsm) /\ Validate(bsm) /\ bsm.pending = NoSlot
        /\ client[c].slot \in Slots /\ client[c].slot # bsm.confirmed
        /\ bsm.st[client[c].slot] = "VALID"
    BY <1>40, <1>a, <1>c DEF ArmBegin, ArmAuthorized, SafeNow, Safe, TypeInv,
        TypeOK
  <2>2. SafeNow(Arm(bsm, client[c].slot))
    BY <1>d, <2>1, ArmValid, ArmNeeds, SafeFrom DEF SafeNow
  <2> QED BY <1>40, <1>a, <2>2, WriteStep DEF ArmBegin, Commit, Sectors6,
      mediumVars, viewVars, bootVars, ramVars
<1>41. ASSUME NEW c \in Clients, TokenRefused(c) PROVE StoreInv'
  <2>1. \A x \in Clients : client'[x].step = "planned" => client'[x].img \in Images
    BY <1>41, <1>a, <1>b DEF TokenRefused, NoToken, TypeInv, TypeOK
  <2> QED BY <1>41, <1>a, <1>c, <2>1, QuietStep
          DEF TokenRefused, SafeNow, StoreInv, SafeManagers, InControl, InData,
              Sectors6, mediumVars, viewVars, bootVars, ramVars
<1>42. CASE UNCHANGED vars
  BY <1>42, <1>a DEF vars, StoreInv, SafeRecords, SafeManagers, SafeNow,
      SpareTarget,
     Spare, Claiming, InControl, InData, Sectors6, mediumVars, viewVars, bootVars,
         ramVars
<1> QED
  BY <1>1, <1>2, <1>3, <1>4, <1>5, <1>6, <1>7, <1>8, <1>9, <1>10, <1>11, <1>12,
      <1>13, <1>14, <1>15, <1>16, <1>17, <1>18, <1>19, <1>20, <1>21, <1>22, <1>23,
      <1>24, <1>25, <1>26, <1>27, <1>28, <1>29, <1>30, <1>31, <1>32, <1>33, <1>34,
      <1>35, <1>36, <1>37, <1>38, <1>39, <1>40, <1>41, <1>42
     DEF Next, ControlWrite, DataWrite, Installer, Loader, Kernel, Client

\* StoreInv holds in every reachable state.
LEMMA StoreInvariant == Spec => []StoreInv
BY InitSafe, NextSafe, PTL DEF Spec

\* For every payload size, any number of crashes, device errors and updates,
\* with and without torn sectors: every slot that a record on the medium may
\* boot, fall back to or arm is complete on the medium.
THEOREM SlotsAlwaysIntact == Spec => []SlotsIntact
<1>1. StoreInv => SlotsIntact
  BY DEF StoreInv, SafeRecords, SafeNow, Safe, SlotsIntact
<1> QED BY <1>1, StoreInvariant, PTL

\* Under the same generality: every record on the medium, and every record
\* about to be written, passes boot_slot_manager_validate.
THEOREM RecordsAlwaysValid == Spec => []RecordsValid
<1>1. StoreInv => RecordsValid
  BY DEF StoreInv, SafeRecords, SafeManagers, SafeNow, Safe, RecordsValid,
      InControl
<1> QED BY <1>1, StoreInvariant, PTL

=============================================================================

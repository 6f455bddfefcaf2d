---------------------------- MODULE BootSlotStore ----------------------------
(***************************************************************************)
(* The A/B boot store at the granularity of sector writes and flushes:     *)
(* the installer that creates it, the UEFI loader that selects and loads a *)
(* slot, and the running kernel whose update clients stage, arm and        *)
(* confirm an image.  Power may fail between any two device operations and *)
(* any device operation may report an error.                               *)
(*                                                                         *)
(* The device.  ctl, hdr and pay are what is on the medium; vctl, vhdr and *)
(* vpay are what a read returns, i.e. the medium overlaid with writes the  *)
(* device still caches.  A flush makes them equal.  When power is lost (or *)
(* the machine is reset) each cached sector either reached the medium or   *)
(* did not; with TornWrites a sector may also be left half written, which  *)
(* its CRC or digest exposes.                                              *)
(*                                                                         *)
(* The manager lock (boot_slot_operation_busy) is a try-lock held for a    *)
(* whole operation, so an operation starts only when pc = "idle"; a caller *)
(* that meets it held gets BUSY and no state changes.                      *)
(***************************************************************************)
EXTENDS BootSlots

CONSTANTS
    Clients,        \* kernel tasks that run update commands
    NoClient,       \* the installer's and the loader's operations
    PaySectors,     \* number of sectors of a payload
    GenMax,         \* UINT64_MAX: the last generation
    TornWrites,     \* may a cached sector be left half written?
    MaxFaults,      \* bound: power losses and device errors
    LastStageGen    \* bound: no update starts above this generation

ASSUME StoreAssumption ==
    /\ NoClient \notin Clients
    /\ PaySectors \in Nat \ {0}
    /\ GenMax \in Nat /\ GenMax >= 2
    /\ TornWrites \in BOOLEAN
    /\ MaxFaults \in Nat
    /\ LastStageGen \in Nat

VARIABLES
    ctl, hdr, pay,      \* sectors on the medium
    vctl, vhdr, vpay,   \* sectors as reads see them
    mode,               \* what the machine is executing
    pc,                 \* next step of the operation in progress
    wr,                 \* bs_write_verified's arguments, and its caller
    op,                 \* the other locals of the operation in progress
    bsm, bsp,           \* the manager and persistence state in RAM
    provider,           \* g_boot_provider_status.provider_ready
    attempt,            \* struct boot_slot_attempt_handoff
    client,             \* per update client: its snapshot or staged token
    running,            \* the image the CPU runs as kernel
    faults              \* faults so far

mediumVars == <<ctl, hdr, pay>>
viewVars   == <<vctl, vhdr, vpay>>
ramVars    == <<bsm, bsp, provider>>
bootVars   == <<mode, attempt, running>>
vars == <<mediumVars, viewVars, bootVars, ramVars, pc, wr, op, client, faults>>

Copies  == 0..1
Sectors == 1..PaySectors
Content == Images \union {NoImage}

\* A control sector: erased, a decodable record, or bytes that fail the CRC.
Erased == [kind |-> "erased", gen |-> 0, mgr |-> Defaults]
Torn   == [kind |-> "torn",   gen |-> 0, mgr |-> Defaults]
Record(g, m) == [kind |-> "record", gen |-> g, mgr |-> m]

Usable(rec) == rec.kind = "record"

\* uint64_t arithmetic on a generation.
AddGen(g, n) == (g + n) % (GenMax + 1)

NoWrite == [copy |-> 0, gen |-> 0, mgr |-> Defaults, for |-> "none"]
\* k: the payload sector to write next; sel: boot_slot_select_for_boot's answer.
Operation(c, s, i) == [client |-> c, slot |-> s, img |-> i, k |-> 1, sel |-> 0]
Selected(s, n)     == [Operation(NoClient, s, NoImage) EXCEPT !.sel = n]
NoOp    == Operation(NoClient, 0, NoImage)
NoToken == [step |-> "none", slot |-> 0, img |-> NoImage, gen |-> 0,
            mgr |-> Defaults]
NoAttempt == [flag |-> "none", slot |-> 0, gen |-> 0]
Unbound == [generation |-> 0, copy |-> 0, ready |-> FALSE, degraded |-> FALSE,
            claimed |-> FALSE]

Intact(h, p, s, i) == h[s] = i /\ \A k \in Sectors : p[s][k] = i

-----------------------------------------------------------------------------
Init ==
    /\ ctl = [c \in Copies |-> Erased] /\ vctl = ctl
    /\ hdr = [s \in Slots |-> NoImage] /\ vhdr = hdr
    /\ pay = [s \in Slots |-> [k \in Sectors |-> NoImage]] /\ vpay = pay
    /\ mode = "off"
    /\ pc = "idle"
    /\ wr = NoWrite
    /\ op = NoOp
    /\ bsm = Defaults
    /\ bsp = Unbound
    /\ provider = FALSE
    /\ attempt = NoAttempt
    /\ client = [c \in Clients |-> NoToken]
    /\ running = NoImage
    /\ faults = 0

(***************************************************************************)
(* Power.                                                                  *)
(***************************************************************************)
\* What one cached sector may be worth after the device loses power.
Settle(old, cached, garbage) ==
    {old, cached} \union
        IF TornWrites /\ old # cached THEN {garbage} ELSE {}

\* The machine stops: RAM is gone and every cached sector settles on its own.
PowerOff ==
    /\ \E c \in [Copies -> UNION {Settle(ctl[x], vctl[x], Torn) : x \in Copies}] :
          /\ \A x \in Copies : c[x] \in Settle(ctl[x], vctl[x], Torn)
          /\ ctl' = c /\ vctl' = c
    /\ \E h \in [Slots -> UNION {Settle(hdr[s], vhdr[s], NoImage) : s \in Slots}] :
          /\ \A s \in Slots : h[s] \in Settle(hdr[s], vhdr[s], NoImage)
          /\ hdr' = h /\ vhdr' = h
    /\ \E p \in [Slots -> [Sectors ->
                  UNION {Settle(pay[s][k], vpay[s][k], NoImage) :
                            s \in Slots, k \in Sectors}]] :
          /\ \A s \in Slots, k \in Sectors :
                p[s][k] \in Settle(pay[s][k], vpay[s][k], NoImage)
          /\ pay' = p /\ vpay' = p
    /\ mode' = "off"
    /\ pc' = "idle"
    /\ wr' = NoWrite
    /\ op' = NoOp
    /\ bsm' = Defaults
    /\ bsp' = Unbound
    /\ provider' = FALSE
    /\ attempt' = NoAttempt
    /\ client' = [c \in Clients |-> NoToken]
    /\ running' = NoImage

PowerLoss ==
    /\ mode # "off"
    /\ faults < MaxFaults
    /\ faults' = faults + 1
    /\ PowerOff

\* An orderly reboot, or the operator resetting a machine that refused to boot.
Restart ==
    /\ mode \in {"kernel", "halted"}
    /\ pc = "idle"
    /\ PowerOff
    /\ UNCHANGED faults

PowerOn ==
    /\ mode = "off"
    /\ mode' = "loader"
    /\ pc' = "bind"
    /\ UNCHANGED <<mediumVars, viewVars, attempt, running, ramVars, wr, op,
                   client, faults>>

\* The installation medium is booted: the disk is wiped, then slot A written.
StartInstall(i) ==
    /\ mode = "off"
    /\ \A c \in Copies : ~Usable(ctl[c])
    /\ ctl' = [c \in Copies |-> Erased] /\ vctl' = ctl'
    /\ hdr' = [s \in Slots |-> NoImage] /\ vhdr' = hdr'
    /\ pay' = [s \in Slots |-> [k \in Sectors |-> NoImage]] /\ vpay' = pay'
    /\ mode' = "install"
    /\ pc' = "payWrite"
    /\ op' = Operation(NoClient, 0, i)
    /\ UNCHANGED <<attempt, running, ramVars, wr, client, faults>>

(***************************************************************************)
(* Ends of an operation.                                                   *)
(***************************************************************************)
ReleaseClient ==
    client' = IF op.client = NoClient THEN client
              ELSE [client EXCEPT ![op.client] = NoToken]

\* Mutant of Abort: the claim outlives the operation.
AbortKeepsClaim(unknown, control) ==
    /\ bsp' = [bsp EXCEPT !.ready = @ /\ ~control]
    /\ provider' = (provider /\ ~unknown)
    /\ mode' = IF mode = "kernel" THEN "kernel" ELSE "halted"
    /\ pc' = "idle"
    /\ wr' = NoWrite
    /\ op' = NoOp
    /\ ReleaseClient
    /\ UNCHANGED <<bsm, attempt, running>>

\* Mutant of Abort: the provider is not withdrawn on COMMIT_UNKNOWN.
AbortKeepsProvider(unknown, control) ==
    /\ bsp' = [bsp EXCEPT !.ready = @ /\ ~control, !.claimed = FALSE]
    /\ mode' = IF mode = "kernel" THEN "kernel" ELSE "halted"
    /\ pc' = "idle"
    /\ wr' = NoWrite
    /\ op' = NoOp
    /\ ReleaseClient
    /\ UNCHANGED <<bsm, provider, attempt, running>>

\* The error path of the operation in progress.  unknown: the device left it
\* open whether the sector was written (COMMIT_UNKNOWN); control: the sector
\* was a control record, so the durable manager itself is unknown.
Abort(unknown, control) ==
    /\ bsp' = [bsp EXCEPT !.ready = @ /\ ~control, !.claimed = FALSE]
    /\ provider' = (provider /\ ~unknown)
    /\ mode' = IF mode = "kernel" THEN "kernel" ELSE "halted"
    /\ pc' = "idle"
    /\ wr' = NoWrite
    /\ op' = NoOp
    /\ ReleaseClient
    /\ UNCHANGED <<bsm, attempt, running>>

Fault ==
    /\ faults < MaxFaults
    /\ faults' = faults + 1

(***************************************************************************)
(* bs_write_verified: write one mirror, flush, read it back.               *)
(***************************************************************************)
StartWrite(c, g, m, for) ==
    /\ pc' = "ctlWrite"
    /\ wr' = [copy |-> c, gen |-> g, mgr |-> m, for |-> for]

CtlWrite ==
    /\ pc = "ctlWrite"
    /\ Validate(wr.mgr)
    /\ vctl' = [vctl EXCEPT ![wr.copy] = Record(wr.gen, wr.mgr)]
    /\ pc' = "ctlFlush"
    /\ UNCHANGED <<mediumVars, vhdr, vpay, bootVars, ramVars, wr, op, client,
                   faults>>

CtlWriteError ==
    /\ pc = "ctlWrite"
    /\ Validate(wr.mgr)
    /\ vctl' \in {vctl, [vctl EXCEPT ![wr.copy] = Record(wr.gen, wr.mgr)]}
    /\ Fault
    /\ Abort(TRUE, TRUE)
    /\ UNCHANGED <<mediumVars, vhdr, vpay>>

CtlFlush ==
    /\ pc = "ctlFlush"
    /\ ctl' = vctl /\ hdr' = vhdr /\ pay' = vpay
    /\ pc' = "ctlVerify"
    /\ UNCHANGED <<viewVars, bootVars, ramVars, wr, op, client, faults>>

\* The flush or the readback fails.
CtlVerifyError ==
    /\ pc \in {"ctlFlush", "ctlVerify"}
    /\ Fault
    /\ Abort(TRUE, TRUE)
    /\ UNCHANGED <<mediumVars, viewVars>>

\* bs_write_verified returned 0 to the caller named by wr.for.
Verified(for) ==
    /\ pc = "ctlVerify"
    /\ wr.for = for
    /\ vctl[wr.copy] = Record(wr.gen, wr.mgr)

\* Mutant of Publish: the generation in RAM is not advanced.
PublishStaleGeneration ==
    /\ bsm' = wr.mgr
    /\ bsp' = [generation |-> bsp.generation, copy |-> wr.copy,
               ready |-> bsp.ready, degraded |-> FALSE, claimed |-> FALSE]

\* bs_commit_locked and store_stage_publish publish the record in RAM.
Publish ==
    /\ bsm' = wr.mgr
    /\ bsp' = [generation |-> wr.gen, copy |-> wr.copy, ready |-> bsp.ready,
               degraded |-> FALSE, claimed |-> FALSE]

\* The guard of bs_commit_locked, and the write it starts.
CommitAllowed == bsp.ready /\ bsp.generation # GenMax /\ ~bsp.claimed
\* Mutant of Commit: the active copy is overwritten in place.
CommitInPlace(m, for) ==
    StartWrite(bsp.copy, AddGen(bsp.generation, 1), m, for)
Commit(m, for) ==
    StartWrite(Other(bsp.copy), AddGen(bsp.generation, 1), m, for)

(***************************************************************************)
(* boot_slot_internal_set_persistence_locked: choose the record to trust.  *)
(***************************************************************************)
\* The copy a bind selects among the given sectors.
Newest(v) ==
    IF Usable(v[1]) /\ (~Usable(v[0]) \/ v[1].gen > v[0].gen) THEN 1 ELSE 0

\* Mutant of BindOK: a missing mirror is fatal even with no update pending.
BindBothMirrors(v) ==
    /\ \A c \in Copies : Usable(v[c])
    /\ \A c, d \in Copies : v[c].gen = v[d].gen => v[c] = v[d]

BindOK(v) ==
    LET m == v[Newest(v)].mgr
    IN  /\ \E c \in Copies : Usable(v[c])
        /\ \A c, d \in Copies :
              Usable(v[c]) /\ Usable(v[d]) /\ v[c].gen = v[d].gen => v[c] = v[d]
        /\ m.pending # NoSlot => \A c \in Copies : Usable(v[c])

Bound(v) ==
    /\ bsm' = v[Newest(v)].mgr
    /\ bsp' = [generation |-> v[Newest(v)].gen, copy |-> Newest(v),
               ready |-> TRUE, degraded |-> \E c \in Copies : ~Usable(v[c]),
               claimed |-> FALSE]

(***************************************************************************)
(* Payload and header: store_stage_payload, and write_boot_partition_raw   *)
(* of the installer.                                                       *)
(***************************************************************************)
PayWrite ==
    /\ pc = "payWrite"
    /\ vpay' = [vpay EXCEPT ![op.slot][op.k] = op.img]
    /\ IF op.k < PaySectors
       THEN op' = [op EXCEPT !.k = @ + 1] /\ pc' = "payWrite"
       ELSE op' = op /\ pc' = "payFlush"
    /\ UNCHANGED <<mediumVars, vctl, vhdr, bootVars, ramVars, wr, client, faults>>

PayFlush ==
    /\ pc = "payFlush"
    /\ ctl' = vctl /\ hdr' = vhdr /\ pay' = vpay
    /\ pc' = "payVerify"
    /\ UNCHANGED <<viewVars, bootVars, ramVars, wr, op, client, faults>>

PayVerify ==
    /\ pc = "payVerify"
    /\ \A k \in Sectors : vpay[op.slot][k] = op.img
    /\ pc' = "hdrWrite"
    /\ UNCHANGED <<mediumVars, viewVars, bootVars, ramVars, wr, op, client, faults>>

HdrWrite ==
    /\ pc = "hdrWrite"
    /\ vhdr' = [vhdr EXCEPT ![op.slot] = op.img]
    /\ pc' = "hdrFlush"
    /\ UNCHANGED <<mediumVars, vctl, vpay, bootVars, ramVars, wr, op, client, faults>>

HdrFlush ==
    /\ pc = "hdrFlush"
    /\ ctl' = vctl /\ hdr' = vhdr /\ pay' = vpay
    /\ pc' = "hdrVerify"
    /\ UNCHANGED <<viewVars, bootVars, ramVars, wr, op, client, faults>>

\* A payload or header write, flush or header readback fails: COMMIT_UNKNOWN,
\* but of data no record relies on, so bsp.ready stays set.
DataError ==
    /\ pc \in {"payWrite", "payFlush", "hdrWrite", "hdrFlush", "hdrVerify"}
    /\ \/ UNCHANGED viewVars
       \/ /\ pc = "payWrite"
          /\ vpay' = [vpay EXCEPT ![op.slot][op.k] = op.img]
          /\ UNCHANGED <<vctl, vhdr>>
       \/ /\ pc = "hdrWrite"
          /\ vhdr' = [vhdr EXCEPT ![op.slot] = op.img]
          /\ UNCHANGED <<vctl, vpay>>
    /\ Fault
    /\ Abort(TRUE, FALSE)
    /\ UNCHANGED mediumVars

\* The payload readback fails: STORE_ERR_VERIFY, nothing is in doubt.
PayVerifyError ==
    /\ pc = "payVerify"
    /\ Fault
    /\ Abort(FALSE, FALSE)
    /\ UNCHANGED <<mediumVars, viewVars>>

(***************************************************************************)
(* Installer.                                                              *)
(***************************************************************************)
\* The header is verified; the control area binds EMPTY and the first mirror
\* of boot_slot_internal_initialize_persistent_locked is written.
InstallHeaderDone ==
    /\ mode = "install"
    /\ pc = "hdrVerify"
    /\ vhdr[op.slot] = op.img
    /\ \A c \in Copies : vctl[c] = Erased
    /\ StartWrite(0, 1, Installed(op.img), "init1")
    /\ UNCHANGED <<mediumVars, viewVars, bootVars, ramVars, op, client, faults>>

InstallFirstDone ==
    /\ mode = "install"
    /\ Verified("init1")
    /\ StartWrite(1, 2, wr.mgr, "init2")
    /\ UNCHANGED <<mediumVars, viewVars, bootVars, ramVars, op, client, faults>>

\* Installed: the installer asks for a reboot, nothing is left unflushed.
InstallDone ==
    /\ mode = "install"
    /\ Verified("init2")
    /\ mode' = "off"
    /\ pc' = "idle"
    /\ wr' = NoWrite
    /\ op' = NoOp
    /\ UNCHANGED <<mediumVars, viewVars, attempt, running, ramVars, client, faults>>

(***************************************************************************)
(* UEFI loader: load_kernel_from_ab_store.                                 *)
(***************************************************************************)
Halt ==
    /\ mode' = "halted"
    /\ pc' = "idle"
    /\ op' = NoOp
    /\ wr' = NoWrite

LoaderBind ==
    /\ mode = "loader"
    /\ pc = "bind"
    /\ BindOK(vctl)
    /\ Bound(vctl)
    /\ pc' = "select"
    /\ UNCHANGED <<mediumVars, viewVars, bootVars, provider, wr, op, client, faults>>

\* The control area is blank, contradictory, or fails closed.
LoaderBindRefused ==
    /\ mode = "loader"
    /\ pc = "bind"
    /\ ~BindOK(vctl)
    /\ Halt
    /\ UNCHANGED <<mediumVars, viewVars, attempt, running, ramVars, client, faults>>

LoaderReadError ==
    /\ mode = "loader"
    /\ pc = "bind"
    /\ Fault
    /\ Halt
    /\ UNCHANGED <<mediumVars, viewVars, attempt, running, ramVars, client>>

\* boot_slot_select_for_boot returns 0: no update pending.
SelectConfirmed ==
    /\ pc = "select"
    /\ bsm.pending = NoSlot
    /\ op' = Selected(bsm.confirmed, 0)
    /\ pc' = "load"
    /\ UNCHANGED <<mediumVars, viewVars, bootVars, ramVars, wr, client, faults>>

\* Mutant of SelectAttempt: tries_remaining is not checked.
SelectUnchecked ==
    /\ pc = "select"
    /\ bsm.pending # NoSlot
    /\ CommitAllowed
    /\ Commit(Spend(bsm), "spend")
    /\ UNCHANGED <<mediumVars, viewVars, bootVars, ramVars, op, client, faults>>

\* Mutant of SelectAttempt: the image is loaded before the attempt is spent.
SelectUnspent ==
    /\ pc = "select"
    /\ bsm.pending # NoSlot
    /\ bsm.tries > 0
    /\ op' = Selected(bsm.pending, 1)
    /\ pc' = "load"
    /\ UNCHANGED <<mediumVars, viewVars, bootVars, ramVars, wr, client, faults>>

\* An attempt is left: spend it durably before the image is loaded.
SelectAttempt ==
    /\ pc = "select"
    /\ bsm.pending # NoSlot
    /\ bsm.tries > 0
    /\ CommitAllowed
    /\ Commit(Spend(bsm), "spend")
    /\ UNCHANGED <<mediumVars, viewVars, bootVars, ramVars, op, client, faults>>

AttemptSpent ==
    /\ Verified("spend")
    /\ Publish
    /\ op' = Selected(wr.mgr.pending, 1)
    /\ pc' = "load"
    /\ wr' = NoWrite
    /\ UNCHANGED <<mediumVars, viewVars, bootVars, provider, client, faults>>

\* Mutant of SelectRollback: the loader refuses to boot instead.
SelectGivesUp ==
    /\ pc = "select"
    /\ bsm.pending # NoSlot
    /\ bsm.tries = 0
    /\ Halt
    /\ UNCHANGED <<mediumVars, viewVars, attempt, running, ramVars, client, faults>>

\* The attempt is spent and was never confirmed: roll back.
SelectRollback ==
    /\ pc = "select"
    /\ bsm.pending # NoSlot
    /\ bsm.tries = 0
    /\ CommitAllowed
    /\ Commit(Rollback(bsm), "rollback")
    /\ UNCHANGED <<mediumVars, viewVars, bootVars, ramVars, op, client, faults>>

RolledBack ==
    /\ Verified("rollback")
    /\ Publish
    /\ op' = Selected(wr.mgr.confirmed, 2)
    /\ pc' = "load"
    /\ wr' = NoWrite
    /\ UNCHANGED <<mediumVars, viewVars, bootVars, provider, client, faults>>

\* bs_commit_locked refuses (the generation is exhausted): the loader gives up.
SelectRefused ==
    /\ pc = "select"
    /\ bsm.pending # NoSlot
    /\ ~CommitAllowed
    /\ Halt
    /\ UNCHANGED <<mediumVars, viewVars, attempt, running, ramVars, client, faults>>

\* uefi_load_selected_slot: manager, header and payload digest must agree.
Loadable ==
    /\ bsm.active = op.slot
    /\ bsm.st[op.slot] = "ACTIVE"
    /\ Intact(vhdr, vpay, op.slot, bsm.img[op.slot])

\* Mutant of EnterKernel: the other slot's image is entered.
EnterKernelWrongSlot ==
    /\ pc = "load"
    /\ Loadable
    /\ mode' = "kernel"
    /\ running' = bsm.img[Other(op.slot)]
    /\ attempt' = [flag |-> CASE op.sel = 0 -> "confirmed"
                             [] op.sel = 1 -> "pending"
                             [] op.sel = 2 -> "rollback",
                   slot |-> op.slot, gen |-> bsp.generation]
    /\ bsm' = Defaults
    /\ bsp' = Unbound
    /\ op' = NoOp
    /\ pc' = "bind"
    /\ UNCHANGED <<mediumVars, viewVars, provider, wr, client, faults>>

\* The kernel is entered with the attempt token; its RAM starts afresh.
EnterKernel ==
    /\ pc = "load"
    /\ Loadable
    /\ mode' = "kernel"
    /\ running' = bsm.img[op.slot]
    /\ attempt' = [flag |-> CASE op.sel = 0 -> "confirmed"
                             [] op.sel = 1 -> "pending"
                             [] op.sel = 2 -> "rollback",
                   slot |-> op.slot, gen |-> bsp.generation]
    /\ bsm' = Defaults
    /\ bsp' = Unbound
    /\ op' = NoOp
    /\ pc' = "bind"
    /\ UNCHANGED <<mediumVars, viewVars, provider, wr, client, faults>>

\* The slot cannot be loaded (an I/O error, a digest mismatch or an image the
\* ELF loader refuses).  A pending attempt falls back within the same boot.
LoadFailed ==
    /\ pc = "load"
    /\ IF Loadable THEN Fault ELSE UNCHANGED faults
    /\ IF op.sel = 1
       THEN pc' = "select" /\ UNCHANGED <<mode, op, wr>>
       ELSE Halt
    /\ UNCHANGED <<mediumVars, viewVars, attempt, running, ramVars, client>>

(***************************************************************************)
(* Kernel: x64_storage_runtime_register_boot_provider and the update       *)
(* clients behind x64_storage_runtime_*.                                   *)
(***************************************************************************)
KernelBind ==
    /\ mode = "kernel"
    /\ pc = "bind"
    /\ BindOK(vctl)
    /\ Bound(vctl)
    /\ provider' = TRUE
    /\ pc' = "idle"
    /\ UNCHANGED <<mediumVars, viewVars, bootVars, wr, op, client, faults>>

\* No native backend, no persistent mount, a read error: no provider this boot.
KernelBindError ==
    /\ mode = "kernel"
    /\ pc = "bind"
    /\ Fault
    /\ pc' = "idle"
    /\ UNCHANGED <<mediumVars, viewVars, bootVars, ramVars, wr, op, client>>

KernelIdle == mode = "kernel" /\ pc = "idle" /\ provider

\* boot_slot_snapshot_get, then x64_storage_boot_provider_plan_stage.
PlanStage(c, i) ==
    /\ KernelIdle
    /\ client[c].step = "none"
    /\ bsp.ready /\ ~bsp.degraded /\ ~bsp.claimed
    /\ bsp.generation <= LastStageGen
    /\ bsm.pending = NoSlot /\ ~bsm.rollback /\ bsm.tries = 0
    /\ bsm.active = bsm.confirmed
    /\ bsm.st[bsm.confirmed] = "ACTIVE" /\ bsm.health[bsm.confirmed]
    /\ bsm.st[Other(bsm.confirmed)] \in {"EMPTY", "VALID", "FAILED"}
    /\ client' = [client EXCEPT ![c] =
                    [step |-> "planned", slot |-> Other(bsm.confirmed),
                     img |-> i, gen |-> bsp.generation, mgr |-> bsm]]
    /\ UNCHANGED <<mediumVars, viewVars, bootVars, ramVars, pc, wr, op, faults>>

\* The checks of store_stage_authorize against the client's snapshot.
StageAuthorized(c) ==
    LET t == client[c]
    IN  /\ bsp.ready /\ ~bsp.degraded
        /\ t.gen = bsp.generation
        /\ t.mgr = bsm
        /\ t.slot \notin {bsm.active, bsm.confirmed}
        /\ bsm.pending = NoSlot /\ ~bsm.rollback
        /\ bsm.st[t.slot] \notin {"ACTIVE", "ROLLBACK"}
        /\ bsp.generation + 3 <= GenMax

\* boot_slot_store_stage_inactive_authorized: the payload digest matches, the
\* target slot is declared FAILED in both mirrors before its bytes change.
StageBegin(c) ==
    /\ KernelIdle
    /\ client[c].step = "planned"
    /\ StageAuthorized(c)
    /\ bsp' = [bsp EXCEPT !.claimed = TRUE]
    /\ op' = Operation(c, client[c].slot, client[c].img)
    /\ StartWrite(Other(bsp.copy), AddGen(bsp.generation, 1),
                  StageClaim(bsm, client[c].slot, client[c].img), "stage1")
    /\ UNCHANGED <<mediumVars, viewVars, bootVars, bsm, provider, client, faults>>

\* Mutant of StageFirstDone: only one mirror declares the slot FAILED.
StageOneMirror ==
    /\ mode = "kernel"
    /\ Verified("stage1")
    /\ bsm' = wr.mgr
    /\ bsp' = [bsp EXCEPT !.generation = wr.gen, !.copy = wr.copy]
    /\ pc' = "payWrite"
    /\ wr' = NoWrite
    /\ UNCHANGED <<mediumVars, viewVars, bootVars, provider, op, client, faults>>

StageFirstDone ==
    /\ mode = "kernel"
    /\ Verified("stage1")
    /\ StartWrite(bsp.copy, AddGen(bsp.generation, 2), wr.mgr, "stage2")
    /\ UNCHANGED <<mediumVars, viewVars, bootVars, ramVars, op, client, faults>>

StageSecondDone ==
    /\ mode = "kernel"
    /\ Verified("stage2")
    /\ bsm' = wr.mgr
    /\ bsp' = [bsp EXCEPT !.generation = wr.gen, !.copy = wr.copy]
    /\ pc' = "payWrite"
    /\ wr' = NoWrite
    /\ UNCHANGED <<mediumVars, viewVars, bootVars, provider, op, client, faults>>

\* The header is verified: store_stage_publish.
StageHeaderDone ==
    /\ mode = "kernel"
    /\ pc = "hdrVerify"
    /\ vhdr[op.slot] = op.img
    /\ bsp.ready /\ bsp.claimed
    /\ bsm.st[op.slot] = "FAILED" /\ bsm.img[op.slot] = op.img
    /\ bsp.generation # GenMax
    /\ Commit(StagePublish(bsm, op.slot, op.img), "publish")
    /\ UNCHANGED <<mediumVars, viewVars, bootVars, ramVars, op, client, faults>>

StagePublished ==
    /\ Verified("publish")
    /\ Publish
    /\ client' = [client EXCEPT ![op.client] =
                    [step |-> "staged", slot |-> op.slot, img |-> op.img,
                     gen |-> wr.gen, mgr |-> Defaults]]
    /\ pc' = "idle"
    /\ wr' = NoWrite
    /\ op' = NoOp
    /\ UNCHANGED <<mediumVars, viewVars, bootVars, provider, faults>>

\* Mutant of ArmAuthorized: the token's generation is not compared.
ArmStaleToken(c) ==
    LET t == client[c]
    IN  /\ bsp.ready /\ ~bsp.claimed /\ ~bsp.degraded
        /\ bsm.pending = NoSlot
        /\ t.slot # bsm.confirmed
        /\ bsm.st[t.slot] = "VALID"
        /\ bsm.st[bsm.confirmed] = "ACTIVE" /\ bsm.health[bsm.confirmed]
        /\ CommitAllowed

\* The checks of boot_slot_store_arm and boot_slot_internal_arm_provider_locked.
ArmAuthorized(c) ==
    LET t == client[c]
    IN  /\ bsp.ready /\ ~bsp.claimed /\ ~bsp.degraded
        /\ t.gen = bsp.generation
        /\ bsm.pending = NoSlot
        /\ t.slot # bsm.confirmed
        /\ bsm.st[t.slot] = "VALID"
        /\ bsm.st[bsm.confirmed] = "ACTIVE" /\ bsm.health[bsm.confirmed]
        /\ CommitAllowed

ArmBegin(c) ==
    /\ KernelIdle
    /\ client[c].step = "staged"
    /\ ArmAuthorized(c)
    /\ op' = Operation(c, client[c].slot, client[c].img)
    /\ Commit(Arm(bsm, client[c].slot), "arm")
    /\ UNCHANGED <<mediumVars, viewVars, bootVars, ramVars, client, faults>>

\* A stale token (or a provider lost to COMMIT_UNKNOWN): the command fails.
TokenRefused(c) ==
    /\ mode = "kernel"
    /\ pc = "idle"
    /\ \/ client[c].step = "planned" /\ ~(provider /\ StageAuthorized(c))
       \/ client[c].step = "staged" /\ ~(provider /\ ArmAuthorized(c))
    /\ client' = [client EXCEPT ![c] = NoToken]
    /\ UNCHANGED <<mediumVars, viewVars, bootVars, ramVars, pc, wr, op, faults>>

\* x64_storage_runtime_confirm_boot_health and
\* boot_slot_internal_confirm_verified_locked.
ConfirmBegin ==
    /\ KernelIdle
    /\ attempt.flag = "pending"
    /\ bsp.ready
    /\ bsm.pending = attempt.slot
    /\ bsm.active = attempt.slot
    /\ attempt.gen = bsp.generation
    /\ bsm.tries = 0
    /\ CommitAllowed
    /\ op' = Operation(NoClient, attempt.slot, NoImage)
    /\ Commit(Confirm(bsm, attempt.slot), "confirm")
    /\ UNCHANGED <<mediumVars, viewVars, bootVars, ramVars, client, faults>>

\* boot_slot_store_arm / boot_slot_store_confirm_health return 0.
CommandDone ==
    /\ Verified("arm") \/ Verified("confirm")
    /\ Publish
    /\ ReleaseClient
    /\ pc' = "idle"
    /\ wr' = NoWrite
    /\ op' = NoOp
    /\ UNCHANGED <<mediumVars, viewVars, bootVars, provider, faults>>

-----------------------------------------------------------------------------
ControlWrite == CtlWrite \/ CtlWriteError \/ CtlFlush \/ CtlVerifyError

DataWrite ==
    \/ PayWrite \/ PayFlush \/ PayVerify \/ PayVerifyError
    \/ HdrWrite \/ HdrFlush \/ DataError

Installer ==
    \/ InstallHeaderDone \/ InstallFirstDone \/ InstallDone

Loader ==
    \/ LoaderBind \/ LoaderBindRefused \/ LoaderReadError
    \/ SelectConfirmed \/ SelectAttempt \/ SelectRollback \/ SelectRefused
    \/ AttemptSpent \/ RolledBack
    \/ EnterKernel \/ LoadFailed

Kernel ==
    \/ KernelBind \/ KernelBindError
    \/ StageFirstDone \/ StageSecondDone \/ StageHeaderDone \/ StagePublished
    \/ ConfirmBegin \/ CommandDone

Client(c) ==
    \/ \E i \in Images : PlanStage(c, i)
    \/ StageBegin(c) \/ ArmBegin(c) \/ TokenRefused(c)

Next ==
    \/ PowerLoss \/ Restart \/ PowerOn
    \/ \E i \in Images : StartInstall(i)
    \/ ControlWrite \/ DataWrite \/ Installer \/ Loader \/ Kernel
    \/ \E c \in Clients : Client(c)

Spec == Init /\ [][Next]_vars

(***************************************************************************)
(* Fairness.  A processor that is executing an operation goes on (every    *)
(* step of the loader, the installer or a kernel operation that is not an  *)
(* error), a machine that is off is switched on, and one that runs or has  *)
(* refused to boot is eventually restarted.  Nothing is assumed of clients *)
(* (a kernel may never confirm), of the operator choosing to install, or   *)
(* of faults, which MaxFaults makes finite.                                *)
(***************************************************************************)
Progress ==
    \/ CtlWrite \/ CtlFlush \/ PayWrite \/ PayFlush \/ PayVerify
    \/ HdrWrite \/ HdrFlush \/ Installer
    \/ LoaderBind \/ LoaderBindRefused
    \/ SelectConfirmed \/ SelectAttempt \/ SelectRollback \/ SelectRefused
    \/ AttemptSpent \/ RolledBack \/ EnterKernel
    \/ KernelBind
    \/ StageFirstDone \/ StageSecondDone \/ StageHeaderDone \/ StagePublished
    \/ CommandDone

FairSpec == Spec /\ WF_vars(Progress) /\ WF_vars(PowerOn) /\ WF_vars(Restart)

-----------------------------------------------------------------------------
(***************************************************************************)
(* Properties.                                                             *)
(***************************************************************************)
SectorValues ==
    [kind : {"erased", "record", "torn"}, gen : 0..GenMax, mgr : Managers]

Modes == {"off", "install", "loader", "kernel", "halted"}
Steps == {"idle", "bind", "select", "load", "ctlWrite", "ctlFlush", "ctlVerify",
          "payWrite", "payFlush", "payVerify", "hdrWrite", "hdrFlush",
          "hdrVerify"}
Callers == {"none", "init1", "init2", "stage1", "stage2", "publish", "arm",
            "spend", "rollback", "confirm"}

\* Every variable has the shape of the C object it stands for: no count of
\* tries falls below zero, no slot, sector or generation leaves its range.
TypeOK ==
    /\ ctl \in [Copies -> SectorValues] /\ vctl \in [Copies -> SectorValues]
    /\ hdr \in [Slots -> Content] /\ vhdr \in [Slots -> Content]
    /\ pay \in [Slots -> [Sectors -> Content]]
    /\ vpay \in [Slots -> [Sectors -> Content]]
    /\ mode \in Modes
    /\ pc \in Steps
    /\ wr \in [copy : Copies, gen : 0..GenMax, mgr : Managers, for : Callers]
    /\ op \in [client : Clients \union {NoClient}, slot : Slots,
               img : Content, k : Sectors, sel : 0..2]
    /\ bsm \in Managers
    /\ bsp \in [generation : 0..GenMax, copy : Copies, ready : BOOLEAN,
                degraded : BOOLEAN, claimed : BOOLEAN]
    /\ provider \in BOOLEAN
    /\ attempt \in [flag : {"none", "confirmed", "pending", "rollback"},
                    slot : Slots, gen : 0..GenMax]
    /\ client \in [Clients -> [step : {"none", "planned", "staged"},
                               slot : Slots, img : Content, gen : 0..GenMax,
                               mgr : Managers]]
    /\ running \in Content
    /\ faults \in 0..MaxFaults

\* The record the next boot selects if every cached write is lost.
Durable == ctl[Newest(ctl)]

HasRecord == \E c \in Copies : Usable(ctl[c])

\* Whatever record is on the medium, in either mirror, every slot it may boot,
\* fall back to or arm has its header and its whole payload on the medium: no
\* crash point between store_stage_authorize and store_stage_publish, and no
\* stale mirror, leaves a record pointing at half-written bytes.
SlotsIntact ==
    \A c \in Copies : Usable(ctl[c]) =>
        \A s \in Needed(ctl[c].mgr) : Intact(hdr, pay, s, ctl[c].mgr.img[s])

\* Every manager handed to bs_write_verified passes boot_slot_manager_validate,
\* and so does every record on the medium: no sequence of stage, arm, select,
\* confirm and rollback builds a record that the next boot would reject.
RecordsValid ==
    /\ pc \in {"ctlWrite", "ctlFlush", "ctlVerify"} => Validate(wr.mgr)
    /\ \A c \in Copies : Usable(ctl[c]) => Validate(ctl[c].mgr)

\* A kernel started as an unconfirmed attempt runs only after the attempt was
\* spent on the medium: whenever it stops, the next boot finds no attempt left
\* and cannot start that image again.
AttemptSpentFirst ==
    mode = "kernel" /\ attempt.flag = "pending"
        /\ Durable.mgr.pending = attempt.slot
    => Durable.mgr.tries = 0 /\ Durable.mgr.boots[attempt.slot] = 1

\* An armed slot has been booted or may still be booted, once in total.
OneAttempt ==
    \A c \in Copies : Usable(ctl[c]) /\ ctl[c].mgr.pending # NoSlot =>
        ctl[c].mgr.boots[ctl[c].mgr.pending] + ctl[c].mgr.tries = MaxTries

\* An armed image gets one boot: the attempt is spent before its kernel runs, and
\* spent and remaining attempts add up in every record a boot could read.
AttemptSound == AttemptSpentFirst /\ OneAttempt

\* What a bound kernel or loader believes between operations is exactly what
\* the next boot will read: an acknowledged commit is never lost, and nothing
\* it did not acknowledge is selected later in its place.
RamMatchesMedium ==
    bsp.ready /\ pc \in {"idle", "select", "load"} =>
        Durable = Record(bsp.generation, bsm)

\* While the provider offers its capability, nothing is left in the device
\* cache: after an indeterminate write it stays withdrawn for the whole boot.
ProviderClean ==
    KernelIdle => /\ ctl = vctl /\ hdr = vhdr /\ pay = vpay
                  /\ bsp.ready

\* store_stage_authorize's claim never outlives the operation, whatever the
\* error path: a leaked claim would answer BUSY to every later commit.
ClaimReleased == pc = "idle" => ~bsp.claimed

\* Between operations, whatever failed in the last one: RAM agrees with the
\* medium, an offered provider has nothing in flight, and no claim is left.
BetweenOperations == RamMatchesMedium /\ ProviderClean /\ ClaimReleased

\* The client that arms a slot arms the image it staged itself: a slot
\* restaged by another client in between is caught by the generation.
ArmsOwnImage ==
    wr.for = "arm" => wr.mgr.img[op.slot] = op.img

\* The kernel that runs is one the medium still vouches for: the confirmed
\* image or the attempt in progress, complete on the medium.
RunningIntact ==
    mode = "kernel" =>
        /\ attempt.slot \in {Durable.mgr.confirmed, Durable.mgr.pending}
        /\ Intact(hdr, pay, attempt.slot, running)

\* The generation the next boot selects never goes back, so a token taken
\* before a crash can never become valid again.
GenerationMonotonic ==
    [][HasRecord => Durable'.gen >= Durable.gen]_vars

\* An installed machine always gets back to a running kernel.
AlwaysBoots == []<>(HasRecord => mode = "kernel")

\* A pending attempt is always settled: confirmed or rolled back.
AttemptSettles ==
    (HasRecord /\ Durable.mgr.pending # NoSlot)
        ~> (HasRecord /\ Durable.mgr.pending = NoSlot)

(***************************************************************************)
(* What comments and messages of the repository say and the code does not  *)
(* do (see the findings in the README).                                    *)
(***************************************************************************)
\* update_agent_transact.c, line 117: a stage command that fails left the
\* "inactive slot not written": the image the slot held as VALID is still there.
RefusalWritesNothing ==
    [][\A c \in Clients :
          /\ op.client = c /\ client[c].step = "planned"
          /\ client'[c].step = "none" /\ mode' = "kernel"
          /\ client[c].mgr.st[op.slot] = "VALID"
          => Intact(vhdr', vpay', op.slot, client[c].mgr.img[op.slot])]_vars

(***************************************************************************)
(* Refinement.  The abstract state is read off the record that survives    *)
(* the loss of every cached write.                                         *)
(***************************************************************************)
GoodImage  == IF HasRecord THEN Durable.mgr.img[Durable.mgr.confirmed]
              ELSE NoImage
HasTrial   == HasRecord /\ Durable.mgr.pending # NoSlot
TrialImage == IF HasTrial THEN Durable.mgr.img[Durable.mgr.pending]
              ELSE NoImage
FreshTrial == HasTrial /\ Durable.mgr.tries > 0
\* The loader is between the flush that spent the attempt and the jump.
Granted ==
    /\ HasTrial
    /\ \/ pc = "ctlVerify" /\ wr.for = "spend"
       \/ pc = "load" /\ op.sel = 1

Promise == INSTANCE ABUpdate WITH
    good <- GoodImage, trial <- TrialImage, fresh <- FreshTrial,
    granted <- Granted, running <- running

\* Sector by sector, with crashes and device errors anywhere, the store is the
\* A/B update that ABUpdate promises.
ImplementsPromise == Promise!AbsSpec

=============================================================================

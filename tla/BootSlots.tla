------------------------------ MODULE BootSlots ------------------------------
(***************************************************************************)
(* The boot-slot manager of CapyOS (struct boot_slot_manager) as a value:  *)
(* its fields, the consistency check every record passes before it is      *)
(* written and after it is read (boot_slot_manager_validate), and the      *)
(* transitions that build the next manager from the current one.           *)
(*                                                                         *)
(* Abstractions.  An image stands for (version, payload size, SHA-256).    *)
(* The layout fields (LBAs, capacities) are constants of a disk and never  *)
(* change, so they are left out.  success_count and fail_count are only    *)
(* reported; boot_count is kept because a property speaks about it.        *)
(***************************************************************************)
EXTENDS Naturals

CONSTANTS
    Images,     \* kernel images that may be installed or staged
    NoImage     \* "no image": an EMPTY slot, an unwritten sector

ASSUME NoImageAssumption == NoImage \notin Images

Slots  == 0..1                  \* slots A and B
NoSlot == 2                     \* BOOT_SLOT_NONE
Other(s) == 1 - s               \* slot ^ 1u, copy ^ 1u

MaxTries == 1                   \* BOOT_SLOT_MAX_TRIES = BOOT_SLOT_DEFAULT_TRIES

States == {"EMPTY", "VALID", "ACTIVE", "ROLLBACK", "FAILED"}

Managers ==
    [st        : [Slots -> States],
     img       : [Slots -> Images \union {NoImage}],
     boots     : [Slots -> Nat],
     health    : [Slots -> BOOLEAN],
     active    : Slots,
     next      : Slots,
     confirmed : Slots,
     pending   : Slots \union {NoSlot},
     rollback  : BOOLEAN,
     tries     : 0..MaxTries]

\* bs_manager_defaults: what RAM holds before a bind.
Defaults ==
    [st        |-> [s \in Slots |-> "EMPTY"],
     img       |-> [s \in Slots |-> NoImage],
     boots     |-> [s \in Slots |-> 0],
     health    |-> [s \in Slots |-> FALSE],
     active    |-> 0,
     next      |-> 0,
     confirmed |-> 0,
     pending   |-> NoSlot,
     rollback  |-> FALSE,
     tries     |-> 0]

-----------------------------------------------------------------------------
(* boot_slot_manager_validate and bs_slot_identity_valid *)

SlotIdentityValid(m, s) ==
    IF m.st[s] = "EMPTY"
    THEN m.img[s] = NoImage /\ m.boots[s] = 0 /\ ~m.health[s]
    ELSE m.img[s] # NoImage

ValidSettled(m) ==
    LET c == m.confirmed
        o == Other(c)
    IN  /\ ~m.rollback
        /\ m.tries = 0
        /\ m.active = c
        /\ m.st[c] = "ACTIVE"
        /\ m.health[c]
        /\ m.st[o] \notin {"ACTIVE", "ROLLBACK"}
        /\ m.next = c \/ m.st[o] = "VALID"

ValidPending(m) ==
    LET p == m.pending
        c == m.confirmed
    IN  /\ p # c
        /\ m.rollback
        /\ m.active = p
        /\ m.next = p
        /\ m.st[p] = "ACTIVE"
        /\ ~m.health[p]
        /\ m.st[c] = "ROLLBACK"
        /\ m.health[c]

Validate(m) ==
    /\ \A s \in Slots : /\ SlotIdentityValid(m, s)
                        /\ m.st[s] = "FAILED" => ~m.health[s]
    /\ IF m.pending = NoSlot THEN ValidSettled(m) ELSE ValidPending(m)

\* The slots whose bytes on disk a record relies on: what it may boot now,
\* fall back to, or be asked to boot next.
Needed(m) == {s \in Slots : m.st[s] \in {"VALID", "ACTIVE", "ROLLBACK"}}

-----------------------------------------------------------------------------
(* Transitions.  Each lists every field, the ones it keeps included. *)

\* bs_slot_apply_image: the slot is zeroed, then takes the image and state;
\* next_slot is set by the caller.
ApplyImage(m, s, i, state, next) ==
    [st     |-> [m.st EXCEPT ![s] = state],
     img    |-> [m.img EXCEPT ![s] = i],
     boots  |-> [m.boots EXCEPT ![s] = 0],
     health |-> [m.health EXCEPT ![s] = FALSE],
     active |-> m.active, next |-> next, confirmed |-> m.confirmed,
     pending |-> m.pending, rollback |-> m.rollback, tries |-> m.tries]

\* boot_slot_internal_initialize_persistent_locked: the installed manager.
Installed(i) ==
    [st     |-> [Defaults.st EXCEPT ![0] = "ACTIVE"],
     img    |-> [Defaults.img EXCEPT ![0] = i],
     boots  |-> [Defaults.boots EXCEPT ![0] = 1],
     health |-> [Defaults.health EXCEPT ![0] = TRUE],
     active |-> 0, next |-> 0, confirmed |-> 0,
     pending |-> NoSlot, rollback |-> FALSE, tries |-> 0]

\* store_stage_authorize: the target is unusable until the payload is on disk.
StageClaim(m, s, i) == ApplyImage(m, s, i, "FAILED", m.confirmed)

\* store_stage_publish
StagePublish(m, s, i) == ApplyImage(m, s, i, "VALID", s)

\* Mutant of Arm: the confirmed slot is not marked as the fallback.
ArmKeepsActive(m, s) ==
    [st     |-> [m.st EXCEPT ![s] = "ACTIVE"],
     img    |-> m.img,
     boots  |-> m.boots,
     health |-> [m.health EXCEPT ![s] = FALSE],
     active |-> s, next |-> s, confirmed |-> m.confirmed,
     pending |-> s, rollback |-> TRUE, tries |-> MaxTries]

\* boot_slot_internal_arm_provider_locked (and the persistent branch of
\* boot_slot_internal_activate_locked, which builds the same manager).
Arm(m, s) ==
    [st     |-> [m.st EXCEPT ![m.confirmed] = "ROLLBACK", ![s] = "ACTIVE"],
     img    |-> m.img,
     boots  |-> m.boots,
     health |-> [m.health EXCEPT ![s] = FALSE],
     active |-> s, next |-> s, confirmed |-> m.confirmed,
     pending |-> s, rollback |-> TRUE, tries |-> MaxTries]

\* Mutant of Spend: the boot is counted, the attempt is not taken.
SpendKeepsTries(m) ==
    [st     |-> m.st,
     img    |-> m.img,
     boots  |-> [m.boots EXCEPT ![m.pending] = @ + 1],
     health |-> m.health,
     active |-> m.active, next |-> m.next, confirmed |-> m.confirmed,
     pending |-> m.pending, rollback |-> m.rollback, tries |-> m.tries]

\* boot_slot_internal_select_locked, an attempt is left.
Spend(m) ==
    [st     |-> m.st,
     img    |-> m.img,
     boots  |-> [m.boots EXCEPT ![m.pending] = @ + 1],
     health |-> m.health,
     active |-> m.active, next |-> m.next, confirmed |-> m.confirmed,
     pending |-> m.pending, rollback |-> m.rollback, tries |-> m.tries - 1]

\* bs_apply_rollback: the attempt is spent, restore the confirmed slot.
Rollback(m) ==
    [st     |-> [m.st EXCEPT ![m.pending] = "FAILED", ![m.confirmed] = "ACTIVE"],
     img    |-> m.img,
     boots  |-> m.boots,
     health |-> [m.health EXCEPT ![m.pending] = FALSE, ![m.confirmed] = TRUE],
     active |-> m.confirmed, next |-> m.confirmed, confirmed |-> m.confirmed,
     pending |-> NoSlot, rollback |-> FALSE, tries |-> 0]

\* boot_slot_internal_confirm_verified_locked
Confirm(m, s) ==
    [st     |-> [m.st EXCEPT ![m.confirmed] = IF @ = "ROLLBACK" THEN "VALID"
                                              ELSE @],
     img    |-> m.img,
     boots  |-> m.boots,
     health |-> [m.health EXCEPT ![s] = TRUE],
     active |-> s, next |-> s, confirmed |-> s,
     pending |-> NoSlot, rollback |-> FALSE, tries |-> 0]

=============================================================================

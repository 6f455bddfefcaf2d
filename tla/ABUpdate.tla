------------------------------- MODULE ABUpdate -------------------------------
(***************************************************************************)
(* What the A/B update promises, with no sectors, mirrors or generations:  *)
(* a confirmed image that is replaced only by an image that ran and was    *)
(* confirmed, and an armed image that gets one boot.  A crash may lose     *)
(* what was being decided, never anything decided before.                  *)
(***************************************************************************)
CONSTANTS Images, NoImage

VARIABLES
    good,       \* the confirmed image (NoImage: nothing installed)
    trial,      \* the armed image, NoImage if none
    fresh,      \* the armed image has not been given its boot yet
    granted,    \* the loader may start the armed image in this boot
    running     \* the image that runs, NoImage if none

absVars == <<good, trial, fresh, granted, running>>

AbsInit ==
    /\ good = NoImage /\ trial = NoImage /\ running = NoImage
    /\ fresh = FALSE /\ granted = FALSE

-----------------------------------------------------------------------------
(* What a decision changes on the medium *)

DecideInstall ==
    /\ good = NoImage
    /\ good' \in Images
    /\ UNCHANGED <<trial, fresh>>

DecideArm ==
    /\ running = good /\ good # NoImage /\ trial = NoImage
    /\ trial' \in Images
    /\ fresh' = TRUE
    /\ UNCHANGED good

DecideAttempt ==
    /\ running = NoImage /\ trial # NoImage /\ fresh
    /\ fresh' = FALSE
    /\ UNCHANGED <<good, trial>>

DecideRollback ==
    /\ running = NoImage /\ trial # NoImage /\ ~fresh
    /\ trial' = NoImage
    /\ UNCHANGED <<good, fresh>>

DecideConfirm ==
    /\ running = trial /\ trial # NoImage /\ ~fresh
    /\ good' = trial
    /\ trial' = NoImage
    /\ UNCHANGED fresh

-----------------------------------------------------------------------------
Install   == DecideInstall  /\ UNCHANGED <<granted, running>>
ArmTrial  == DecideArm      /\ UNCHANGED <<granted, running>>
Attempt   == DecideAttempt  /\ granted' = TRUE /\ UNCHANGED running
Restore   == DecideRollback /\ granted' = FALSE /\ UNCHANGED running
Accept    == DecideConfirm  /\ UNCHANGED <<granted, running>>

RunGood ==
    /\ running = NoImage /\ trial = NoImage /\ good # NoImage
    /\ running' = good
    /\ UNCHANGED <<good, trial, fresh, granted>>

RunTrial ==
    /\ running = NoImage /\ granted
    /\ running' = trial
    /\ granted' = FALSE
    /\ UNCHANGED <<good, trial, fresh>>

\* The boot is abandoned without a crash: the attempt's image did not load.
GiveUp ==
    /\ granted
    /\ granted' = FALSE
    /\ UNCHANGED <<good, trial, fresh, running>>

\* Everything volatile goes; the one decision in flight may have been made.
Crash ==
    /\ running' = NoImage
    /\ granted' = FALSE
    /\ \/ UNCHANGED <<good, trial, fresh>>
       \/ DecideInstall \/ DecideArm \/ DecideAttempt
       \/ DecideRollback \/ DecideConfirm

AbsNext ==
    \/ Install \/ ArmTrial \/ Attempt \/ Restore \/ Accept
    \/ RunGood \/ RunTrial \/ GiveUp \/ Crash

AbsSpec == AbsInit /\ [][AbsNext]_absVars

=============================================================================

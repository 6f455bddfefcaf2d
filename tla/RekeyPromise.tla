----------------------------- MODULE RekeyPromise -----------------------------
(***************************************************************************)
(* What an in-place rekey promises of the volume: every block is held, at   *)
(* every moment, by at least one of the two encryption domains; the volume  *)
(* passes to the header's domain only when that one holds them all; and     *)
(* from then on nothing moves.  A caller that reverses its direction where  *)
(* a call was cut short between its writes gives up all but the last.       *)
(***************************************************************************)
CONSTANT Blocks

VARIABLES
    holders,     \* the domains in which a block can be read
    committed,   \* the header is in force
    reversed     \* a call went the other way after one was cut short

Domains == {"legacy", "target"}
Held == (SUBSET Domains) \ {{}}

Init == /\ holders = [b \in Blocks |-> {"legacy"}]
        /\ committed = FALSE
        /\ reversed = FALSE

\* One write: a copy of one block comes, the copy that was there goes.
Move ==
    /\ ~committed
    /\ \E b, c \in Blocks : \E S, T \in Held :
            holders' = [holders EXCEPT ![b] = S, ![c] = T]
    /\ UNCHANGED <<committed, reversed>>

\* The copies of the new domain are given up.
Forget ==
    /\ ~committed
    /\ \A b \in Blocks : "legacy" \in holders[b]
    /\ holders' = [b \in Blocks |-> {"legacy"}]
    /\ UNCHANGED <<committed, reversed>>

\* The header is put in force.
Commit ==
    /\ ~committed
    /\ \A b \in Blocks : "target" \in holders[b]
    /\ holders' = [b \in Blocks |-> {"target"}]
    /\ committed' = TRUE
    /\ UNCHANGED reversed

\* The caller changes its mind at the wrong moment.
Reverse ==
    /\ reversed' = TRUE
    /\ UNCHANGED <<holders, committed>>

\* After a reversal a block may be lost, and the header put in force without it.
Lose ==
    /\ reversed /\ ~committed
    /\ holders' \in [Blocks -> SUBSET Domains]
    /\ committed' \in BOOLEAN
    /\ UNCHANGED reversed

Next == Move \/ Forget \/ Commit \/ Reverse \/ Lose

Spec == Init /\ [][Next]_<<holders, committed, reversed>>
=============================================================================

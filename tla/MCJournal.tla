------------------------------ MODULE MCJournal ------------------------------
(* Journal for TLC: targets and values are model values. *)
EXTENDS Journal, TLC

Symmetry == Permutations(Targets) \union Permutations(Values \ {InitialValue})
=============================================================================

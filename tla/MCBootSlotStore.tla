--------------------------- MODULE MCBootSlotStore ---------------------------
(* BootSlotStore for TLC: images and clients are model values. *)
EXTENDS BootSlotStore, TLC

Symmetry == Permutations(Images) \union Permutations(Clients)
=============================================================================

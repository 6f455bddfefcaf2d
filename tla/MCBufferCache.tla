--------------------------- MODULE MCBufferCache ---------------------------
(* BufferCache for TLC: two blocks on one device and one on another, more      *)
(* blocks than buffers.                                                        *)
EXTENDS BufferCache, TLC

CONSTANTS b1, b2, b3, d1, d2

MCDevOf == (b1 :> d1) @@ (b2 :> d1) @@ (b3 :> d2)
Symmetry == Permutations(Values) \union Permutations(Holders)
=============================================================================

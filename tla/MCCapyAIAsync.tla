--------------------------- MODULE MCCapyAIAsync ---------------------------
(* CapyAIAsync for TLC: callers and threads are model values. *)
EXTENDS CapyAIAsync
=============================================================================

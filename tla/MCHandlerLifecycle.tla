------------------------- MODULE MCHandlerLifecycle -------------------------
(***************************************************************************)
(* Small instances of HandlerLifecycle for TLC.                            *)
(***************************************************************************)
EXTENDS HandlerLifecycle, TLC

Symmetry == Permutations(Conn) \cup Permutations(Handler) \cup Permutations(Writable)
=============================================================================

----------------------------- MODULE MCTableTx -----------------------------
(***************************************************************************)
(* Small instances of TableTx for TLC.                                     *)
(***************************************************************************)
EXTENDS TableTx

Symmetry == Permutations(Key) \cup Permutations(Handler)
============================================================================

--------------------------- MODULE MCEthConnector ---------------------------
(***************************************************************************)
(* Small instances of EthConnector for TLC.                                *)
(***************************************************************************)
EXTENDS EthConnector, TLC

Symmetry == Permutations(Thread)
=============================================================================

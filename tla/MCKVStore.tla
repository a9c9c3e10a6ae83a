----------------------------- MODULE MCKVStore -----------------------------
(***************************************************************************)
(* A small instance of KVStore for TLC.                                    *)
(***************************************************************************)
EXTENDS KVStore, SequencesExt

CONSTANT MaxBatch    \* bound: the longest argument list of a batch call

MCBatches == {ops \in BoundedSeq(Ops, MaxBatch) : Len(ops) > 1}

Symmetry == Permutations(Key)
============================================================================

------------------------------- MODULE KVOps -------------------------------
(***************************************************************************)
(* Key-value operations and what a list of them does to a key-value map.   *)
(*                                                                         *)
(* An operation is the TxOperation struct of TableStorage.sol: a key, a    *)
(* value and the deleteEntry flag.  Keys and values are opaque: the        *)
(* contract compares keys for equality and copies values.                  *)
(***************************************************************************)
EXTENDS Integers, Sequences

CONSTANTS
  Key,      \* the bytes32 keys
  Value,    \* the bytes32 values
  Zero,     \* the all-zero bytes32, also what an unset storage slot reads as
  Absent    \* what the abstract map holds for a key that is not stored

ASSUME ZeroAssumption   == Zero \in Value
ASSUME AbsentAssumption == Absent \notin Value

Op == [key : Key, value : Value, deleteEntry : BOOLEAN]

PutOp(k, v) == [key |-> k, value |-> v,    deleteEntry |-> FALSE]
RemoveOp(k) == [key |-> k, value |-> Zero, deleteEntry |-> TRUE]

(***************************************************************************)
(* The reference meaning of a list of operations: for each key the last    *)
(* operation on it wins, and a key no operation names is left alone.       *)
(***************************************************************************)
Outcome(op) == IF op.deleteEntry THEN Absent ELSE op.value

Touched(ops, n, k) == \E i \in 1..n : ops[i].key = k

LastTouch(ops, n, k) ==
  CHOOSE i \in 1..n : /\ ops[i].key = k
                      /\ \A j \in (i + 1)..n : ops[j].key # k

\* The map m after the first n operations of ops.
EffectUpTo(m, ops, n) ==
  [k \in Key |-> IF Touched(ops, n, k)
                 THEN Outcome(ops[LastTouch(ops, n, k)])
                 ELSE m[k]]

Effect(m, ops) == EffectUpTo(m, ops, Len(ops))

Map == [Key -> Value \cup {Absent}]
EmptyMap == [k \in Key |-> Absent]
============================================================================

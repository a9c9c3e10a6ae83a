------------------------------- MODULE KVMap -------------------------------
(***************************************************************************)
(* What a key-value contract promises to the storage engine: one map, one  *)
(* buffer of operations per transaction identifier, and calls that take    *)
(* effect all at once.  A buffered operation is invisible until its        *)
(* transaction is committed.  A commit or a batch call is asked for, and   *)
(* then either has its whole effect - the operations in order, and the     *)
(* buffer empty - or none.                                                 *)
(***************************************************************************)
EXTENDS KVOps

CONSTANTS
  TxId,      \* transaction identifiers (bytes16)
  NoTx,      \* the identifier of a batch call without a transaction
  Batches    \* the operation lists that callers pass to the batch calls

VARIABLES
  map,       \* the stored value of each key
  buffer,    \* the operations buffered for each transaction
  call,      \* the commit or batch call that was asked for
  live       \* FALSE once the contract was destroyed

vars == <<map, buffer, call, live>>

NoCall == [running |-> FALSE, ops |-> << >>, txId |-> NoTx]

Init ==
  /\ map = EmptyMap
  /\ buffer = [t \in TxId |-> << >>]
  /\ call = NoCall
  /\ live = TRUE

Ready == live /\ ~call.running

Apply(op) ==
  /\ Ready
  /\ map' = [map EXCEPT ![op.key] = Outcome(op)]
  /\ UNCHANGED <<buffer, call, live>>

BufferOps(t, ops) ==
  /\ Ready
  /\ buffer' = [buffer EXCEPT ![t] = @ \o ops]
  /\ UNCHANGED <<map, call, live>>

Clean(t) ==
  /\ Ready
  /\ buffer' = [buffer EXCEPT ![t] = << >>]
  /\ UNCHANGED <<map, call, live>>

Ask(ops, t) ==
  /\ Ready
  /\ call' = [running |-> TRUE, ops |-> ops, txId |-> t]
  /\ UNCHANGED <<map, buffer, live>>

Succeed ==
  /\ call.running
  /\ map' = Effect(map, call.ops)
  /\ buffer' = [t \in TxId |-> IF t = call.txId THEN << >> ELSE buffer[t]]
  /\ call' = NoCall
  /\ UNCHANGED live

Fail ==
  /\ call.running
  /\ call' = NoCall
  /\ UNCHANGED <<map, buffer, live>>

Drop ==
  /\ Ready
  /\ live' = FALSE
  /\ map' = EmptyMap
  /\ buffer' = [t \in TxId |-> << >>]
  /\ UNCHANGED call

Next ==
  \/ \E op \in Op : Apply(op)
  \/ \E t \in TxId :
       \/ \E op \in Op : BufferOps(t, <<op>>)
       \/ \E ops \in Batches : BufferOps(t, ops)
       \/ Clean(t)
       \/ Ask(buffer[t], t)
  \/ \E ops \in Batches : Ask(ops, NoTx)
  \/ Succeed
  \/ Fail
  \/ Drop

Spec == Init /\ [][Next]_vars
============================================================================

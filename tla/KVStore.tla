------------------------------ MODULE KVStore ------------------------------
(***************************************************************************)
(* The contract KVStore of eth_contracts/TableStorage.sol: one SQL table.  *)
(*                                                                         *)
(* A row lives in two places that must agree: the mapping data and the     *)
(* array keyList, which makes the mapping enumerable.  Calls that loop     *)
(* (commit, putBatch, removeBatch) are modelled one iteration at a time on *)
(* a working copy of the storage, as the EVM journals a call's writes: the *)
(* copy becomes the storage when the call returns, and is dropped when the *)
(* call runs out of gas.  No other call starts before that.                *)
(***************************************************************************)
EXTENDS KVOps, Functions

CONSTANTS
  TxId,        \* transaction identifiers (bytes16)
  NoTx,        \* the frame of a call that has no transaction to clean
  Batches,     \* the operation lists that callers pass to the batch calls
  MaxBlock,    \* bound: the last block number
  MaxBuffer    \* bound: the most operations buffered for one transaction

ASSUME BatchesAssumption  == Batches \subseteq Seq(Op)
ASSUME NoTxAssumption     == NoTx \notin TxId
ASSUME MaxBlockAssumption == MaxBlock \in Nat \ {0}

VARIABLES
  data,          \* mapping(bytes32 => Value)
  keyList,       \* bytes32[]: the keys of data, in no useful order
  txBuffer,      \* mapping(bytes16 => TxOperation[])
  blockNumber,   \* block.number of the block being built
  frame,         \* the looping call in progress, with its working copy
  alive          \* FALSE once the contract executed selfdestruct

vars == <<data, keyList, txBuffer, blockNumber, frame, alive>>

Slot      == [blocknumber : 0..MaxBlock, value : Value]
EmptySlot == [blocknumber |-> 0, value |-> Zero]
EmptyData == [k \in Key |-> EmptySlot]

Frame == [running : BOOLEAN, ops : Seq(Op), i : Nat, txId : TxId \cup {NoTx},
          data : [Key -> Slot], keyList : Seq(Key)]

IdleFrame == [running |-> FALSE, ops |-> << >>, i |-> 0, txId |-> NoTx,
              data |-> EmptyData, keyList |-> << >>]

Stored(d, k) == d[k].blocknumber # 0

(***************************************************************************)
(* put(key, value) and remove(key), as functions of the two structures.    *)
(***************************************************************************)
PutData(d, k, v) == [d EXCEPT ![k] = [blocknumber |-> blockNumber, value |-> v]]

\* Mutant of PutKeys: a key is listed again when its row is overwritten.
PutKeysAgain(d, kl, k) == Append(kl, k)

PutKeys(d, kl, k) == IF Stored(d, k) THEN kl ELSE Append(kl, k)

\* The first position of k, found by scanning from the front.
IndexOf(kl, k) ==
  CHOOSE i \in 1..Len(kl) : kl[i] = k /\ \A j \in 1..(i - 1) : kl[j] # k

\* The last element takes the place of the removed one, then the array pops.
RemoveKeys(kl, k) ==
  IF k \notin Range(kl) THEN kl
  ELSE [j \in 1..(Len(kl) - 1) |-> IF j = IndexOf(kl, k) THEN kl[Len(kl)] ELSE kl[j]]

RemoveData(d, kl, k) ==
  IF k \notin Range(kl) THEN d ELSE [d EXCEPT ![k] = EmptySlot]

ApplyData(d, kl, op) ==
  IF op.deleteEntry THEN RemoveData(d, kl, op.key) ELSE PutData(d, op.key, op.value)

ApplyKeys(d, kl, op) ==
  IF op.deleteEntry THEN RemoveKeys(kl, op.key) ELSE PutKeys(d, kl, op.key)

(***************************************************************************)
(* get, which reverts for a key that is not stored.                        *)
(***************************************************************************)
Get(k) == IF Stored(data, k) THEN data[k].value ELSE Absent

-----------------------------------------------------------------------------
Init ==
  /\ data = EmptyData
  /\ keyList = << >>
  /\ txBuffer = [t \in TxId |-> << >>]
  /\ blockNumber = 1
  /\ frame = IdleFrame
  /\ alive = TRUE

CanCall == alive /\ ~frame.running

\* put(key, value) or remove(key): applied to the store at once.
Call(op) ==
  /\ CanCall
  /\ data' = ApplyData(data, keyList, op)
  /\ keyList' = ApplyKeys(data, keyList, op)
  /\ UNCHANGED <<txBuffer, blockNumber, frame, alive>>

\* put(key, value, txId), remove(key, txId) and their batches.
CallTx(t, ops) ==
  /\ CanCall
  /\ Len(txBuffer[t]) + Len(ops) <= MaxBuffer
  /\ txBuffer' = [txBuffer EXCEPT ![t] = @ \o ops]
  /\ UNCHANGED <<data, keyList, blockNumber, frame, alive>>

Clean(t) ==
  /\ CanCall
  /\ txBuffer' = [txBuffer EXCEPT ![t] = << >>]
  /\ UNCHANGED <<data, keyList, blockNumber, frame, alive>>

(***************************************************************************)
(* The looping calls: commit(txId) over a memory copy of the buffer,       *)
(* putBatch and removeBatch over their arguments.                          *)
(***************************************************************************)
\* Mutant of Start: the loop starts at its second operation.
StartAtOne(ops, t) ==
  /\ CanCall
  /\ frame' = [running |-> TRUE, ops |-> ops, i |-> 1, txId |-> t,
               data |-> data, keyList |-> keyList]
  /\ UNCHANGED <<data, keyList, txBuffer, blockNumber, alive>>

Start(ops, t) ==
  /\ CanCall
  /\ frame' = [running |-> TRUE, ops |-> ops, i |-> 0, txId |-> t,
               data |-> data, keyList |-> keyList]
  /\ UNCHANGED <<data, keyList, txBuffer, blockNumber, alive>>

Commit(t)  == Start(txBuffer[t], t)
Batch(ops) == Start(ops, NoTx)

Iterate ==
  /\ frame.running
  /\ frame.i < Len(frame.ops)
  /\ LET op == frame.ops[frame.i + 1]
     IN  frame' = [frame EXCEPT !.i = @ + 1,
                                !.data = ApplyData(frame.data, frame.keyList, op),
                                !.keyList = ApplyKeys(frame.data, frame.keyList, op)]
  /\ UNCHANGED <<data, keyList, txBuffer, blockNumber, alive>>

\* Mutant of Finish: commit leaves its buffer.
FinishUnclean ==
  /\ frame.running
  /\ frame.i = Len(frame.ops)
  /\ data' = frame.data
  /\ keyList' = frame.keyList
  /\ frame' = IdleFrame
  /\ UNCHANGED <<txBuffer, blockNumber, alive>>

\* The loop is done; commit also cleans the buffer.
Finish ==
  /\ frame.running
  /\ frame.i = Len(frame.ops)
  /\ data' = frame.data
  /\ keyList' = frame.keyList
  /\ txBuffer' = [t \in TxId |-> IF t = frame.txId THEN << >> ELSE txBuffer[t]]
  /\ frame' = IdleFrame
  /\ UNCHANGED <<blockNumber, alive>>

\* The gas limit of the transaction is reached: every write is undone.
OutOfGas ==
  /\ frame.running
  /\ frame' = IdleFrame
  /\ UNCHANGED <<data, keyList, txBuffer, blockNumber, alive>>

\* drop(): selfdestruct erases the code and the storage.
Drop ==
  /\ CanCall
  /\ alive' = FALSE
  /\ data' = EmptyData
  /\ keyList' = << >>
  /\ txBuffer' = [t \in TxId |-> << >>]
  /\ UNCHANGED <<blockNumber, frame>>

NextBlock ==
  /\ ~frame.running
  /\ blockNumber < MaxBlock
  /\ blockNumber' = blockNumber + 1
  /\ UNCHANGED <<data, keyList, txBuffer, frame, alive>>

SameKind(ops) == \A i, j \in DOMAIN ops : ops[i].deleteEntry = ops[j].deleteEntry

Ops == {PutOp(k, v) : k \in Key, v \in Value} \cup {RemoveOp(k) : k \in Key}

Next ==
  \/ \E op \in Ops : Call(op)
  \/ \E t \in TxId, op \in Ops : CallTx(t, <<op>>)
  \/ \E t \in TxId, ops \in Batches : SameKind(ops) /\ CallTx(t, ops)
  \/ \E t \in TxId : Clean(t)
  \/ \E t \in TxId : Commit(t)
  \/ \E ops \in Batches : SameKind(ops) /\ Batch(ops)
  \/ Iterate
  \/ Finish
  \/ OutOfGas
  \/ Drop
  \/ NextBlock

Spec == Init /\ [][Next]_vars

-----------------------------------------------------------------------------
\* Types: every variable holds a value of the Solidity declaration it stands
\* for, a stored row carries a block that exists, and the loop counter of the
\* call in progress stays within the list it walks.
TypeOK ==
  /\ data \in [Key -> Slot]
  /\ keyList \in Seq(Key)
  /\ txBuffer \in [TxId -> Seq(Op)]
  /\ blockNumber \in 1..MaxBlock
  /\ alive \in BOOLEAN
  /\ frame \in Frame
  /\ frame.i <= Len(frame.ops)

\* kl lists exactly the keys stored in d, each of them once.
Indexes(kl, d) ==
  /\ \A i, j \in 1..Len(kl) : kl[i] = kl[j] => i = j
  /\ \A k \in Key : k \in Range(kl) <=> Stored(d, k)

\* The array and the mapping agree: tableScan, which walks keyList, returns
\* every stored row once, and no row twice or after it was removed.  put and
\* remove keep this up by two separate tests (a block number, an array scan).
KeyListIndexesData == Indexes(keyList, data)

\* The rows of the table as the engine sees them through get.
StoredMap == [k \in Key |-> Get(k)]

\* What the looping call in progress was asked to do.
AskedFor == [running |-> frame.running, ops |-> frame.ops, txId |-> frame.txId]

Abstract == INSTANCE KVMap WITH map <- StoredMap, buffer <- txBuffer, call <- AskedFor,
                                live <- alive

\* The contract implements the map with transaction buffers: the loops over
\* data and keyList, the block number used as a presence flag and the rollback
\* of a call that runs out of gas amount to calls that take effect at once,
\* apply the buffer in order, last operation on a key first, and apply it once.
ImplementsKVMap == Abstract!Spec
============================================================================

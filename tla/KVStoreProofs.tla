--------------------------- MODULE KVStoreProofs ---------------------------
(***************************************************************************)
(* Proofs about KVStore: the index over the rows is right in every state,  *)
(* and the contract implements the abstract map of KVMap.                  *)
(***************************************************************************)
EXTENDS KVStore, SequenceTheorems, TLAPS

-----------------------------------------------------------------------------
(***************************************************************************)
(* What remove does to the array.                                          *)
(***************************************************************************)
LEMMA KeySeqRange ==
  ASSUME NEW kl \in Seq(Key)
  PROVE  /\ Len(kl) \in Nat
         /\ DOMAIN kl = 1..Len(kl)
         /\ \A i \in 1..Len(kl) : kl[i] \in Key
         /\ \A k : k \in Range(kl) <=> \E i \in 1..Len(kl) : kl[i] = k
<1>1. Len(kl) \in Nat /\ DOMAIN kl = 1..Len(kl) /\ \A i \in 1..Len(kl) : kl[i] \in Key
  BY LenProperties, ElementOfSeq
<1>2. Range(kl) = {kl[i] : i \in 1..Len(kl)}
  BY <1>1, Zenon DEF Range
<1> QED
  BY <1>1, <1>2

\* IndexOf finds a position of k when there is one.
LEMMA IndexOfFound ==
  ASSUME NEW kl \in Seq(Key), NEW k \in Range(kl), NEW d, Indexes(kl, d)
  PROVE  /\ IndexOf(kl, k) \in 1..Len(kl)
         /\ kl[IndexOf(kl, k)] = k
         /\ \A j \in 1..Len(kl) : kl[j] = k => j = IndexOf(kl, k)
<1> DEFINE IsFirst(i) == kl[i] = k /\ \A j \in 1..(i - 1) : kl[j] # k
<1>1. PICK i \in 1..Len(kl) : kl[i] = k
  BY KeySeqRange, Zenon
<1>2. \A j \in 1..Len(kl) : kl[j] = k => j = i
  BY <1>1 DEF Indexes
<1>3. \A j \in 1..(i - 1) : j \in 1..Len(kl) /\ j # i
  BY KeySeqRange
<1>4. IsFirst(i)
  BY <1>1, <1>2, <1>3
<1>5. \E j \in 1..Len(kl) : IsFirst(j)
  BY <1>4
<1>6. IndexOf(kl, k) \in 1..Len(kl) /\ IsFirst(IndexOf(kl, k))
  BY <1>5 DEF IndexOf
<1> QED
  BY <1>2, <1>6

LEMMA RemoveKeysType ==
  ASSUME NEW kl \in Seq(Key), NEW k
  PROVE  RemoveKeys(kl, k) \in Seq(Key)
<1>1. CASE k \notin Range(kl)
  BY <1>1 DEF RemoveKeys
<1>2. CASE k \in Range(kl)
  <2>1. PICK i \in 1..Len(kl) : kl[i] = k
    BY <1>2, KeySeqRange
  <2>2. Len(kl) - 1 \in Nat
    BY <2>1, KeySeqRange
  <2>3. \A j \in 1..(Len(kl) - 1) :
          (IF j = IndexOf(kl, k) THEN kl[Len(kl)] ELSE kl[j]) \in Key
    BY <2>1, KeySeqRange
  <2> QED
    BY <1>2, <2>2, <2>3 DEF RemoveKeys
<1> QED
  BY <1>1, <1>2

\* remove leaves out k, keeps the other keys and repeats none.
LEMMA RemoveIndexes ==
  ASSUME NEW kl \in Seq(Key), NEW d \in [Key -> Slot], NEW k \in Key, Indexes(kl, d)
  PROVE  Indexes(RemoveKeys(kl, k), RemoveData(d, kl, k))
<1> DEFINE rk == RemoveKeys(kl, k)
           rd == RemoveData(d, kl, k)
<1>1. CASE k \notin Range(kl)
  BY <1>1 DEF RemoveKeys, RemoveData
<1>2. CASE k \in Range(kl)
  <2> DEFINE n == Len(kl)
             p == IndexOf(kl, k)
  <2>1. /\ p \in 1..n /\ kl[p] = k
        /\ \A j \in 1..n : kl[j] = k => j = p
    BY <1>2, IndexOfFound
  <2>2. n \in Nat \ {0}
    BY <2>1, KeySeqRange
  <2>3. rk = [j \in 1..(n - 1) |-> IF j = p THEN kl[n] ELSE kl[j]]
    BY <1>2 DEF RemoveKeys
  <2>4. rd = [d EXCEPT ![k] = EmptySlot]
    BY <1>2 DEF RemoveData
  <2>5. Len(rk) = n - 1 /\ rk \in Seq(Key)
    <3>1. rk \in Seq(Key)
      BY RemoveKeysType
    <3>2. DOMAIN rk = 1..(n - 1)
      BY <2>3
    <3> HIDE DEF rk
    <3>3. Len(rk) \in Nat /\ DOMAIN rk = 1..Len(rk)
      BY <3>1, LenProperties
    <3> QED
      BY <3>1, <3>2, <3>3, <2>2
  <2>6. \A i, j \in 1..n : kl[i] = kl[j] => i = j
    BY DEF Indexes
  <2>7. \A i \in 1..(n - 1) : rk[i] = IF i = p THEN kl[n] ELSE kl[i]
    BY <2>3
  <2>8. \A i \in 1..(n - 1) : i \in 1..n
    BY <2>2
  <2>9. n \in 1..n /\ \A i \in 1..n : i # n => i \in 1..(n - 1)
    BY <2>2
  <2> HIDE DEF rk, n, p
  <2>10. \A i, j \in 1..(n - 1) : rk[i] = rk[j] => i = j
    <3> SUFFICES ASSUME NEW i \in 1..(n - 1), NEW j \in 1..(n - 1), rk[i] = rk[j]
                 PROVE  i = j
      OBVIOUS
    <3>1. i # n /\ j # n
      BY <2>2
    <3> QED
      BY <3>1, <2>6, <2>7, <2>8, <2>9
  <2>11. \A x \in Key : x \in Range(rk) <=> (x \in Range(kl) /\ x # k)
    <3> SUFFICES ASSUME NEW x \in Key
                 PROVE  x \in Range(rk) <=> (x \in Range(kl) /\ x # k)
      OBVIOUS
    <3>1. x \in Range(kl) <=> \E i \in 1..n : kl[i] = x
      BY KeySeqRange DEF n
    <3>2. x \in Range(rk) <=> \E i \in 1..(n - 1) : rk[i] = x
      BY <2>5, KeySeqRange
    <3>3. ASSUME NEW i \in 1..(n - 1), rk[i] = x
          PROVE  x # k /\ \E j \in 1..n : kl[j] = x
      <4>1. i # n
        BY <2>2
      <4> QED
        BY <3>3, <4>1, <2>1, <2>6, <2>7, <2>8, <2>9
    <3>4. ASSUME NEW i \in 1..n, kl[i] = x, x # k
          PROVE  \E j \in 1..(n - 1) : rk[j] = x
      <4>1. i # p
        BY <3>4, <2>1
      <4>2. CASE i = n
        <5>1. p \in 1..(n - 1)
          BY <4>1, <4>2, <2>1, <2>9
        <5> QED
          BY <5>1, <4>2, <3>4, <2>7
      <4>3. CASE i # n
        <5>1. i \in 1..(n - 1)
          BY <4>3, <2>9
        <5> QED
          BY <5>1, <4>1, <3>4, <2>7
      <4> QED
        BY <4>2, <4>3
    <3> QED
      BY <3>1, <3>2, <3>3, <3>4
  <2>12. \A x \in Key : Stored(rd, x) <=> (Stored(d, x) /\ x # k)
    BY <2>4 DEF Stored, EmptySlot
  <2>13. \A x \in Key : x \in Range(kl) <=> Stored(d, x)
    BY DEF Indexes
  <2> QED
    BY <2>5, <2>10, <2>11, <2>12, <2>13 DEF Indexes, rk
<1> QED
  BY <1>1, <1>2

\* put adds k when it is new, and only then.
LEMMA PutIndexes ==
  ASSUME NEW kl \in Seq(Key), NEW d \in [Key -> Slot], NEW k \in Key, NEW v \in Value,
         Indexes(kl, d), blockNumber \in 1..MaxBlock
  PROVE  /\ PutKeys(d, kl, k) \in Seq(Key)
         /\ Indexes(PutKeys(d, kl, k), PutData(d, k, v))
<1> DEFINE pk == PutKeys(d, kl, k)
           pd == PutData(d, k, v)
<1>1. \A x \in Key : Stored(pd, x) <=> (Stored(d, x) \/ x = k)
  BY MaxBlockAssumption DEF Stored, PutData
<1>2. CASE Stored(d, k)
  BY <1>1, <1>2 DEF PutKeys, Indexes
<1>3. CASE ~Stored(d, k)
  <2>1. pk = Append(kl, k)
    BY <1>3 DEF PutKeys
  <2>2. /\ Len(kl) \in Nat /\ pk \in Seq(Key)
        /\ Len(pk) = Len(kl) + 1
        /\ \A i \in 1..Len(kl) : pk[i] = kl[i]
        /\ pk[Len(kl) + 1] = k
    BY <2>1
  <2> HIDE DEF pk
  <2>3. \A i \in 1..Len(kl) : kl[i] # k
    BY <1>3, KeySeqRange DEF Indexes
  <2>4. \A i \in 1..Len(pk) : i \in 1..Len(kl) \/ i = Len(kl) + 1
    BY <2>2
  <2>5. \A i, j \in 1..Len(pk) : pk[i] = pk[j] => i = j
    BY <2>2, <2>3, <2>4 DEF Indexes
  <2>6. \A x \in Key : x \in Range(pk) <=> (x \in Range(kl) \/ x = k)
    <3> TAKE x \in Key
    <3>1. x \in Range(kl) <=> \E i \in 1..Len(kl) : kl[i] = x
      BY KeySeqRange
    <3>2. x \in Range(pk) <=> \E i \in 1..Len(pk) : pk[i] = x
      BY <2>2, KeySeqRange
    <3>3. Len(kl) + 1 \in 1..Len(pk) /\ \A i \in 1..Len(kl) : i \in 1..Len(pk)
      BY <2>2
    <3> QED
      BY <3>1, <3>2, <3>3, <2>2, <2>4
  <2> QED
    BY <1>1, <2>2, <2>5, <2>6 DEF Indexes, pk
<1> QED
  BY <1>2, <1>3

\* One operation of either kind keeps the index right and the types.
LEMMA ApplyIndexes ==
  ASSUME NEW kl \in Seq(Key), NEW d \in [Key -> Slot], NEW op \in Op,
         Indexes(kl, d), blockNumber \in 1..MaxBlock
  PROVE  /\ ApplyKeys(d, kl, op) \in Seq(Key)
         /\ ApplyData(d, kl, op) \in [Key -> Slot]
         /\ Indexes(ApplyKeys(d, kl, op), ApplyData(d, kl, op))
<1>1. op.key \in Key /\ op.value \in Value /\ op.deleteEntry \in BOOLEAN
  BY DEF Op
<1>2. EmptySlot \in Slot
  BY MaxBlockAssumption, ZeroAssumption DEF EmptySlot, Slot
<1>3. RemoveData(d, kl, op.key) \in [Key -> Slot]
  BY <1>2 DEF RemoveData
<1>4. PutData(d, op.key, op.value) \in [Key -> Slot]
  BY <1>1, MaxBlockAssumption DEF PutData, Slot
<1>5. CASE op.deleteEntry
  BY <1>1, <1>3, <1>5, RemoveKeysType, RemoveIndexes DEF ApplyKeys, ApplyData
<1>6. CASE ~op.deleteEntry
  BY <1>1, <1>4, <1>6, PutIndexes DEF ApplyKeys, ApplyData
<1> QED
  BY <1>5, <1>6

-----------------------------------------------------------------------------
(***************************************************************************)
(* Type correctness.                                                       *)
(***************************************************************************)
LEMMA OpsAreOps == Ops \subseteq Op
<1>1. \A k \in Key, v \in Value : PutOp(k, v) \in Op
  BY DEF PutOp, Op
<1>2. \A k \in Key : RemoveOp(k) \in Op
  BY ZeroAssumption DEF RemoveOp, Op
<1> QED
  BY <1>1, <1>2 DEF Ops

LEMMA EmptyDataType == EmptyData \in [Key -> Slot] /\ EmptySlot \in Slot
BY ZeroAssumption, MaxBlockAssumption DEF EmptyData, EmptySlot, Slot

LEMMA IdleFrameType ==
  IdleFrame \in Frame /\ ~IdleFrame.running /\ IdleFrame.i <= Len(IdleFrame.ops)
BY EmptyDataType DEF IdleFrame, Frame

(***************************************************************************)
(* The inductive invariant.  Beside the types and the index of the storage *)
(* it says of the call in progress: its working copy is indexed too, the   *)
(* copy is the storage after the first i operations of its list, and the   *)
(* list is the transaction's buffer or an argument of a batch call.        *)
(***************************************************************************)
MapOf(d) == [k \in Key |-> IF Stored(d, k) THEN d[k].value ELSE Absent]

WorkingCopy ==
  frame.running =>
    /\ alive
    /\ Indexes(frame.keyList, frame.data)
    /\ MapOf(frame.data) = EffectUpTo(StoredMap, frame.ops, frame.i)
    /\ IF frame.txId = NoTx THEN frame.ops \in Batches
                            ELSE frame.ops = txBuffer[frame.txId]

IInv == TypeOK /\ KeyListIndexesData /\ WorkingCopy

LEMMA StoredMapIsMapOf == StoredMap = MapOf(data)
BY DEF StoredMap, MapOf, Get

LEMMA EmptyIndexes == Indexes(<< >>, EmptyData)
BY DEF Indexes, EmptyData, EmptySlot, Stored, Range

\* Before the first iteration the working copy is the storage.
LEMMA EffectZero ==
  ASSUME NEW ops, NEW d
  PROVE  EffectUpTo(MapOf(d), ops, 0) = MapOf(d)
BY DEF EffectUpTo, Touched, MapOf

\* One more operation overrides what the earlier ones did to its key.
LEMMA EffectStep ==
  ASSUME NEW m, NEW ops \in Seq(Op), NEW n \in Nat, n + 1 <= Len(ops),
         NEW op, op = ops[n + 1],
         NEW e, e = EffectUpTo(m, ops, n)
  PROVE  EffectUpTo(m, ops, n + 1) = [e EXCEPT ![op.key] = Outcome(op)]
<1>1. op \in Op
  BY ElementOfSeq
<1>2. op.key \in Key
  BY <1>1 DEF Op
<1>3. ASSUME NEW k \in Key
      PROVE  EffectUpTo(m, ops, n + 1)[k]
               = IF k = op.key THEN Outcome(op) ELSE EffectUpTo(m, ops, n)[k]
  <2>1. CASE k = op.key
    <3>1. Touched(ops, n + 1, k)
      BY <2>1 DEF Touched
    <3>2. \A i \in 1..(n + 1) :
            (ops[i].key = k /\ \A j \in (i + 1)..(n + 1) : ops[j].key # k) <=> i = n + 1
      <4> SUFFICES ASSUME NEW i \in 1..(n + 1)
                   PROVE  (ops[i].key = k /\ \A j \in (i + 1)..(n + 1) : ops[j].key # k)
                            <=> i = n + 1
        OBVIOUS
      <4>1. CASE i = n + 1
        <5>1. \A j \in (i + 1)..(n + 1) : FALSE
          BY <4>1
        <5> QED
          BY <4>1, <5>1, <2>1
      <4>2. CASE i # n + 1
        <5>1. n + 1 \in (i + 1)..(n + 1)
          BY <4>2
        <5> QED
          BY <4>2, <5>1, <2>1
      <4> QED
        BY <4>1, <4>2
    <3>3. LastTouch(ops, n + 1, k) = n + 1
      BY <3>2 DEF LastTouch
    <3> QED
      BY <2>1, <3>1, <3>3 DEF EffectUpTo
  <2>2. CASE k # op.key
    <3>1. Touched(ops, n + 1, k) <=> Touched(ops, n, k)
      BY <2>2 DEF Touched
    <3>2. LastTouch(ops, n + 1, k) = LastTouch(ops, n, k)
      <4> DEFINE Old(i) == i \in 1..n /\ (ops[i].key = k
                             /\ \A j \in (i + 1)..n : ops[j].key # k)
                 New(i) == i \in 1..(n + 1) /\ (ops[i].key = k
                             /\ \A j \in (i + 1)..(n + 1) : ops[j].key # k)
      <4>1. \A i : Old(i) <=> New(i)
        BY <2>2
      <4>2. LastTouch(ops, n, k) = CHOOSE i : Old(i)
        BY DEF LastTouch
      <4>3. LastTouch(ops, n + 1, k) = CHOOSE i : New(i)
        BY DEF LastTouch
      <4> HIDE DEF Old, New
      <4>4. (CHOOSE i : Old(i)) = (CHOOSE i : New(i))
        BY <4>1
      <4> QED
        BY <4>2, <4>3, <4>4
    <3> QED
      BY <2>2, <3>1, <3>2 DEF EffectUpTo
  <2> QED
    BY <2>1, <2>2
<1>4. /\ DOMAIN EffectUpTo(m, ops, n + 1) = Key
      /\ DOMAIN EffectUpTo(m, ops, n) = Key
  BY DEF EffectUpTo
<1>5. EffectUpTo(m, ops, n + 1) = [k \in Key |-> EffectUpTo(m, ops, n + 1)[k]]
  BY DEF EffectUpTo
<1> QED
  BY <1>2, <1>3, <1>4, <1>5

\* Writing one slot changes the stored map at that key and nowhere else.
LEMMA MapOfExcept ==
  ASSUME NEW d \in [Key -> Slot], NEW k \in Key, NEW s
  PROVE  MapOf([d EXCEPT ![k] = s])
           = [MapOf(d) EXCEPT ![k] = IF s.blocknumber # 0 THEN s.value ELSE Absent]
<1> DEFINE e == [d EXCEPT ![k] = s]
           v == IF s.blocknumber # 0 THEN s.value ELSE Absent
<1>1. \A x \in Key : e[x] = IF x = k THEN s ELSE d[x]
  OBVIOUS
<1> HIDE DEF e
<1>2. \A x \in Key : (IF Stored(e, x) THEN e[x].value ELSE Absent)
                       = IF x = k THEN v ELSE IF Stored(d, x) THEN d[x].value ELSE Absent
  BY <1>1 DEF Stored
<1> HIDE DEF v
<1>3. MapOf(e) = [x \in Key |-> IF x = k THEN v ELSE MapOf(d)[x]]
  BY <1>2 DEF MapOf
<1>4. MapOf(e) = [MapOf(d) EXCEPT ![k] = v]
  BY <1>3 DEF MapOf
<1> QED
  BY <1>4 DEF e, v

\* put and remove change the stored map at their key and nowhere else.
LEMMA ApplyMap ==
  ASSUME NEW kl \in Seq(Key), NEW d \in [Key -> Slot], NEW op \in Op,
         Indexes(kl, d), blockNumber \in 1..MaxBlock
  PROVE  MapOf(ApplyData(d, kl, op)) = [MapOf(d) EXCEPT ![op.key] = Outcome(op)]
<1>1. op.key \in Key /\ op.value \in Value /\ op.deleteEntry \in BOOLEAN
  BY DEF Op
<1>2. CASE ~op.deleteEntry
  <2>1. ApplyData(d, kl, op)
          = [d EXCEPT ![op.key] = [blocknumber |-> blockNumber, value |-> op.value]]
    BY <1>2 DEF ApplyData, PutData
  <2>2. Outcome(op) = op.value
    BY <1>2 DEF Outcome
  <2>3. blockNumber # 0
    BY MaxBlockAssumption
  <2> DEFINE s == [blocknumber |-> blockNumber, value |-> op.value]
  <2>4. (IF s.blocknumber # 0 THEN s.value ELSE Absent) = Outcome(op)
    BY <2>2, <2>3
  <2> HIDE DEF s
  <2>5. MapOf([d EXCEPT ![op.key] = s])
          = [MapOf(d) EXCEPT ![op.key] = IF s.blocknumber # 0 THEN s.value ELSE Absent]
    BY <1>1, MapOfExcept, Zenon
  <2> QED
    BY <2>1, <2>4, <2>5, Zenon DEF s
<1>3. CASE op.deleteEntry /\ op.key \in Range(kl)
  <2>1. ApplyData(d, kl, op) = [d EXCEPT ![op.key] = EmptySlot]
    BY <1>3 DEF ApplyData, RemoveData
  <2>2. Outcome(op) = Absent
    BY <1>3 DEF Outcome
  <2>3. (IF EmptySlot.blocknumber # 0 THEN EmptySlot.value ELSE Absent) = Outcome(op)
    BY <2>2 DEF EmptySlot
  <2>4. MapOf([d EXCEPT ![op.key] = EmptySlot])
          = [MapOf(d) EXCEPT ![op.key] = IF EmptySlot.blocknumber # 0
                                         THEN EmptySlot.value ELSE Absent]
    BY <1>1, MapOfExcept, Zenon
  <2> QED
    BY <2>1, <2>3, <2>4, Zenon
<1>4. CASE op.deleteEntry /\ op.key \notin Range(kl)
  <2>1. ApplyData(d, kl, op) = d
    BY <1>4 DEF ApplyData, RemoveData
  <2>2. ~Stored(d, op.key)
    BY <1>1, <1>4 DEF Indexes
  <2> QED
    BY <1>1, <1>4, <2>1, <2>2 DEF MapOf, Outcome
<1> QED
  BY <1>1, <1>2, <1>3, <1>4

-----------------------------------------------------------------------------
(***************************************************************************)
(* The invariant holds in every state.                                     *)
(***************************************************************************)
LEMMA InitInv == Init => IInv
<1> SUFFICES ASSUME Init PROVE IInv
  OBVIOUS
<1>1. TypeOK
  BY IdleFrameType, EmptyDataType, MaxBlockAssumption DEF Init, TypeOK
<1>2. KeyListIndexesData
  BY EmptyIndexes DEF Init, KeyListIndexesData
<1>3. WorkingCopy
  BY IdleFrameType DEF Init, WorkingCopy
<1> QED
  BY <1>1, <1>2, <1>3 DEF IInv

\* A list that a transaction appends, or that a batch call takes.
LEMMA ListType ==
  /\ \A op \in Ops : <<op>> \in Seq(Op)
  /\ \A ops \in Batches : ops \in Seq(Op)
BY OpsAreOps, BatchesAssumption

LEMMA NextInv == IInv /\ [Next]_vars => IInv'
<1> SUFFICES ASSUME IInv, [Next]_vars PROVE IInv'
  OBVIOUS
<1> USE DEF IInv
<1>1. ASSUME NEW op \in Ops, Call(op) PROVE IInv'
  <2>1. op \in Op /\ data \in [Key -> Slot] /\ keyList \in Seq(Key)
        /\ Indexes(keyList, data) /\ blockNumber \in 1..MaxBlock
    BY OpsAreOps DEF TypeOK, KeyListIndexesData
  <2>2. /\ data' = ApplyData(data, keyList, op) /\ keyList' = ApplyKeys(data, keyList, op)
        /\ UNCHANGED <<txBuffer, blockNumber, frame, alive>> /\ ~frame.running
    BY <1>1 DEF Call, CanCall
  <2>3. TypeOK'
    BY <2>1, <2>2, ApplyIndexes DEF TypeOK
  <2>4. KeyListIndexesData'
    <3>1. Indexes(keyList', data')
      BY <2>1, <2>2, ApplyIndexes
    <3> QED
      BY <3>1 DEF KeyListIndexesData, Indexes, Stored
  <2>5. WorkingCopy'
    BY <2>2 DEF WorkingCopy
  <2> QED
    BY <2>3, <2>4, <2>5
<1>2. ASSUME NEW t \in TxId, NEW ops \in Seq(Op), CallTx(t, ops) PROVE IInv'
  <2>1. txBuffer[t] \o ops \in Seq(Op)
    BY ConcatProperties DEF TypeOK
  <2>2. TypeOK'
    BY <1>2, <2>1 DEF CallTx, TypeOK
  <2>3. KeyListIndexesData' /\ WorkingCopy'
    BY <1>2 DEF CallTx, CanCall, KeyListIndexesData, WorkingCopy, Indexes, Stored
  <2> QED
    BY <2>2, <2>3
<1>3. ASSUME NEW t \in TxId, Clean(t) PROVE IInv'
  <2>1. TypeOK'
    BY <1>3 DEF Clean, TypeOK
  <2>2. KeyListIndexesData' /\ WorkingCopy'
    BY <1>3 DEF Clean, CanCall, KeyListIndexesData, WorkingCopy, Indexes, Stored
  <2> QED
    BY <2>1, <2>2
<1>4. ASSUME NEW ops \in Seq(Op), NEW t \in TxId \cup {NoTx}, Start(ops, t),
             IF t = NoTx THEN ops \in Batches ELSE ops = txBuffer[t]
      PROVE  IInv'
  <2>1. /\ frame' = [running |-> TRUE, ops |-> ops, i |-> 0, txId |-> t,
                     data |-> data, keyList |-> keyList]
        /\ UNCHANGED <<data, keyList, txBuffer, blockNumber, alive>> /\ alive
    BY <1>4 DEF Start, CanCall
  <2>2. TypeOK'
    BY <2>1, LenProperties DEF TypeOK, Frame
  <2>3. KeyListIndexesData'
    BY <2>1 DEF KeyListIndexesData, Indexes, Stored
  <2>4. WorkingCopy'
    <3>1. Indexes(frame.keyList, frame.data)'
      BY <2>1 DEF KeyListIndexesData, Indexes, Stored
    <3>2. MapOf(frame'.data) = EffectUpTo(StoredMap, frame'.ops, frame'.i)
      BY <2>1, StoredMapIsMapOf, EffectZero
    <3>3. StoredMap' = StoredMap
      BY <2>1 DEF StoredMap, Get, Stored
    <3>4. (MapOf(frame.data) = EffectUpTo(StoredMap, frame.ops, frame.i))'
      BY <3>2, <3>3 DEF MapOf, Stored, EffectUpTo, Touched, LastTouch, Outcome
    <3>5. (IF frame.txId = NoTx THEN frame.ops \in Batches
                                ELSE frame.ops = txBuffer[frame.txId])'
      BY <1>4, <2>1
    <3> QED
      BY <2>1, <3>1, <3>4, <3>5 DEF WorkingCopy
  <2> QED
    BY <2>2, <2>3, <2>4
<1>5. CASE Iterate
  <2> DEFINE op == frame.ops[frame.i + 1]
             d  == ApplyData(frame.data, frame.keyList, op)
             kl == ApplyKeys(frame.data, frame.keyList, op)
  <2>1. /\ frame.running /\ frame.i \in Nat /\ frame.i + 1 \in 1..Len(frame.ops)
        /\ frame.i + 1 <= Len(frame.ops)
        /\ frame.ops \in Seq(Op) /\ frame.data \in [Key -> Slot]
        /\ frame.keyList \in Seq(Key) /\ blockNumber \in 1..MaxBlock
    BY <1>5, LenProperties DEF Iterate, TypeOK, Frame
  <2>2. op \in Op
    BY <2>1, ElementOfSeq
  <2>3. /\ frame' = [frame EXCEPT !.i = @ + 1, !.data = d, !.keyList = kl]
        /\ UNCHANGED <<data, keyList, txBuffer, blockNumber, alive>>
    BY <1>5 DEF Iterate
  <2>4. Indexes(frame.keyList, frame.data) /\ alive
        /\ MapOf(frame.data) = EffectUpTo(StoredMap, frame.ops, frame.i)
        /\ IF frame.txId = NoTx THEN frame.ops \in Batches
                                ELSE frame.ops = txBuffer[frame.txId]
    BY <2>1 DEF WorkingCopy
  <2>5. kl \in Seq(Key) /\ d \in [Key -> Slot] /\ Indexes(kl, d)
    BY <2>1, <2>2, <2>4, ApplyIndexes
  <2>6. MapOf(d) = [MapOf(frame.data) EXCEPT ![op.key] = Outcome(op)]
    BY <2>1, <2>2, <2>4, ApplyMap
  <2>7. MapOf(d) = EffectUpTo(StoredMap, frame.ops, frame.i + 1)
    <3>1. frame.ops \in Seq(Op) /\ frame.i \in Nat /\ frame.i + 1 <= Len(frame.ops)
          /\ op = frame.ops[frame.i + 1]
      BY <2>1
    <3>2. MapOf(frame.data) = EffectUpTo(StoredMap, frame.ops, frame.i)
      BY <2>4
    <3> HIDE DEF op, d
    <3> QED
      BY <2>6, <3>1, <3>2, EffectStep
  <2> HIDE DEF op, d, kl
  <2>8. frame' = [running |-> frame.running, ops |-> frame.ops, i |-> frame.i + 1,
                  txId |-> frame.txId, data |-> d, keyList |-> kl]
    BY <2>3, Zenon DEF TypeOK, Frame
  <2>9. TypeOK'
    <3>1. frame.running \in BOOLEAN /\ frame.txId \in TxId \cup {NoTx} /\ frame.i + 1 \in Nat
      BY <2>1 DEF TypeOK, Frame
    <3>2. frame' \in Frame
      BY <2>1, <2>5, <2>8, <3>1, Zenon DEF Frame
    <3> QED
      BY <2>1, <2>3, <2>8, <3>2 DEF TypeOK
  <2>10. KeyListIndexesData'
    BY <2>3 DEF KeyListIndexesData, Indexes, Stored
  <2>11. WorkingCopy'
    <3>1. Indexes(frame.keyList, frame.data)'
      BY <2>5, <2>8 DEF Indexes, Stored
    <3>2. StoredMap' = StoredMap
      BY <2>3 DEF StoredMap, Get, Stored
    <3>3. MapOf(frame'.data) = EffectUpTo(StoredMap', frame'.ops, frame'.i)
      BY <2>7, <2>8, <3>2
    <3>4. (MapOf(frame.data) = EffectUpTo(StoredMap, frame.ops, frame.i))'
      BY <3>3, Zenon DEF MapOf, Stored, EffectUpTo, Touched, LastTouch, Outcome
    <3> QED
      BY <2>3, <2>4, <2>8, <3>1, <3>4 DEF WorkingCopy
  <2> QED
    BY <2>9, <2>10, <2>11
<1>6. CASE Finish
  <2>1. /\ data' = frame.data /\ keyList' = frame.keyList /\ frame' = IdleFrame
        /\ txBuffer' = [t \in TxId |-> IF t = frame.txId THEN << >> ELSE txBuffer[t]]
        /\ UNCHANGED <<blockNumber, alive>> /\ frame.running
    BY <1>6 DEF Finish
  <2>2. TypeOK'
    BY <2>1, IdleFrameType DEF TypeOK, Frame
  <2>3. KeyListIndexesData'
    BY <2>1 DEF WorkingCopy, KeyListIndexesData, Indexes, Stored
  <2>4. WorkingCopy'
    BY <2>1, IdleFrameType DEF WorkingCopy
  <2> QED
    BY <2>2, <2>3, <2>4
<1>7. CASE OutOfGas
  <2>1. TypeOK'
    BY <1>7, IdleFrameType DEF OutOfGas, TypeOK
  <2>2. KeyListIndexesData'
    BY <1>7 DEF OutOfGas, KeyListIndexesData, Indexes, Stored
  <2>3. WorkingCopy'
    BY <1>7, IdleFrameType DEF OutOfGas, WorkingCopy
  <2> QED
    BY <2>1, <2>2, <2>3
<1>8. CASE Drop
  <2>1. TypeOK'
    <3>1. [t \in TxId |-> << >>] \in [TxId -> Seq(Op)] /\ << >> \in Seq(Key)
      BY EmptySeq
    <3> QED
      BY <1>8, <3>1, EmptyDataType DEF Drop, TypeOK
  <2>2. KeyListIndexesData'
    BY <1>8, EmptyIndexes DEF Drop, KeyListIndexesData, Indexes, Stored
  <2>3. WorkingCopy'
    BY <1>8 DEF Drop, CanCall, WorkingCopy
  <2> QED
    BY <2>1, <2>2, <2>3
<1>9. CASE NextBlock
  <2>1. TypeOK'
    BY <1>9, MaxBlockAssumption DEF NextBlock, TypeOK
  <2>2. KeyListIndexesData' /\ WorkingCopy'
    BY <1>9 DEF NextBlock, KeyListIndexesData, WorkingCopy, Indexes, Stored
  <2> QED
    BY <2>1, <2>2
<1>10. CASE UNCHANGED vars
  <2>1. TypeOK'
    BY <1>10 DEF vars, TypeOK
  <2>2. KeyListIndexesData'
    BY <1>10 DEF vars, KeyListIndexesData, Indexes, Stored
  <2>3. WorkingCopy'
    <3>1. StoredMap' = StoredMap
      BY <1>10 DEF vars, StoredMap, Get, Stored
    <3> QED
      BY <1>10, <3>1 DEF vars, WorkingCopy, Indexes
  <2> QED
    BY <2>1, <2>2, <2>3
<1>11. ASSUME NEW t \in TxId, Commit(t) PROVE IInv'
  <2>1. txBuffer[t] \in Seq(Op) /\ t # NoTx
    BY NoTxAssumption DEF TypeOK
  <2> QED
    BY <1>4, <1>11, <2>1 DEF Commit
<1>12. ASSUME NEW ops \in Batches, Batch(ops) PROVE IInv'
  BY <1>4, <1>12, ListType DEF Batch
<1> QED
  BY <1>1, <1>2, <1>3, <1>5, <1>6, <1>7, <1>8, <1>9, <1>10, <1>11, <1>12, ListType
     DEF Next

\* Spec keeps the inductive invariant.
THEOREM InductiveInvariant == Spec => []IInv
BY InitInv, NextInv, PTL DEF Spec

\* Every variable of the contract stays of its declared type.
THEOREM TypeCorrect == Spec => []TypeOK
BY InductiveInvariant, PTL DEF IInv

\* The array and the mapping of the contract never disagree.
THEOREM IndexCorrect == Spec => []KeyListIndexesData
BY InductiveInvariant, PTL DEF IInv

-----------------------------------------------------------------------------
(***************************************************************************)
(* The refinement of KVMap.                                                *)
(***************************************************************************)
LEMMA SameEffect ==
  /\ Abstract!EmptyMap = EmptyMap
  /\ Abstract!Op = Op
  /\ \A op : Abstract!Outcome(op) = Outcome(op)
  /\ \A m, ops : Abstract!Effect(m, ops) = Effect(m, ops)
BY DEF Abstract!EmptyMap, EmptyMap, Abstract!Op, Op, Abstract!Outcome, Outcome,
       Abstract!Effect, Effect, Abstract!EffectUpTo, EffectUpTo, Abstract!Touched,
       Touched, Abstract!LastTouch, LastTouch

LEMMA EmptyStore == data = EmptyData => StoredMap = EmptyMap
BY DEF StoredMap, Get, Stored, EmptyData, EmptySlot, EmptyMap

LEMMA InitRefines == Init => Abstract!Init
BY EmptyStore, SameEffect DEF Init, Abstract!Init, IdleFrame, AskedFor, Abstract!NoCall

LEMMA NextRefines ==
  IInv /\ IInv' /\ [Next]_vars => [Abstract!Next]_(Abstract!vars)
<1> SUFFICES ASSUME IInv, [Next]_vars
             PROVE  Abstract!Next \/ UNCHANGED Abstract!vars
  BY DEF Abstract!vars
<1>0. \* An action that leaves data alone leaves the abstract map alone.
      /\ UNCHANGED data => UNCHANGED StoredMap
      /\ UNCHANGED frame => UNCHANGED AskedFor
      /\ CanCall <=> Abstract!Ready
  BY DEF StoredMap, Get, Stored, AskedFor, CanCall, Abstract!Ready
<1>1. ASSUME NEW op \in Ops, Call(op) PROVE Abstract!Next
  <2>1. op \in Op /\ data \in [Key -> Slot] /\ keyList \in Seq(Key)
        /\ Indexes(keyList, data) /\ blockNumber \in 1..MaxBlock
    BY OpsAreOps DEF IInv, TypeOK, KeyListIndexesData
  <2>2. MapOf(ApplyData(data, keyList, op)) = [MapOf(data) EXCEPT ![op.key] = Outcome(op)]
    BY <2>1, ApplyMap
  <2>3. /\ data' = ApplyData(data, keyList, op)
        /\ UNCHANGED <<txBuffer, frame, alive>> /\ CanCall
    BY <1>1 DEF Call
  <2>4. StoredMap' = MapOf(data')
    BY DEF StoredMap, MapOf, Get, Stored
  <2>5. StoredMap' = [StoredMap EXCEPT ![op.key] = Abstract!Outcome(op)]
    BY <2>2, <2>3, <2>4, StoredMapIsMapOf, SameEffect
  <2>6. Abstract!Apply(op)
    BY <1>0, <2>3, <2>5 DEF Abstract!Apply
  <2> QED
    BY <2>1, <2>6, SameEffect DEF Abstract!Next
<1>2. ASSUME NEW t \in TxId, NEW ops, CallTx(t, ops) PROVE Abstract!BufferOps(t, ops)
  BY <1>0, <1>2 DEF CallTx, Abstract!BufferOps
<1>3. ASSUME NEW t \in TxId, Clean(t) PROVE Abstract!Next
  <2>1. Abstract!Clean(t)
    BY <1>0, <1>3 DEF Clean, Abstract!Clean
  <2> QED
    BY <2>1 DEF Abstract!Next
<1>4. ASSUME NEW ops, NEW t, Start(ops, t) PROVE Abstract!Ask(ops, t)
  <2>1. AskedFor' = [running |-> TRUE, ops |-> ops, txId |-> t]
    BY <1>4 DEF Start, AskedFor
  <2> QED
    BY <1>0, <1>4, <2>1 DEF Start, Abstract!Ask
<1>5. ASSUME NEW t \in TxId, Commit(t) PROVE Abstract!Next
  BY <1>4, <1>5 DEF Commit, Abstract!Next
<1>11. ASSUME NEW ops \in Batches, Batch(ops) PROVE Abstract!Next
  BY <1>4, <1>11 DEF Batch, Abstract!Next
<1>12. CASE Iterate
  <2>1. UNCHANGED AskedFor
    <3>1. frame \in Frame
      BY DEF IInv, TypeOK
    <3> QED
      BY <1>12, <3>1 DEF Iterate, AskedFor, Frame
  <2> QED
    BY <1>0, <1>12, <2>1 DEF Iterate, Abstract!vars
<1>13. CASE NextBlock
  BY <1>0, <1>13 DEF NextBlock, Abstract!vars
<1>14. CASE OutOfGas
  <2>1. AskedFor.running /\ AskedFor' = Abstract!NoCall
    BY <1>14 DEF OutOfGas, AskedFor, IdleFrame, Abstract!NoCall
  <2>2. Abstract!Fail
    BY <1>0, <1>14, <2>1 DEF OutOfGas, Abstract!Fail
  <2> QED
    BY <2>2 DEF Abstract!Next
<1>6. CASE Finish
  <2>1. /\ frame.running /\ frame.i = Len(frame.ops)
        /\ MapOf(frame.data) = EffectUpTo(StoredMap, frame.ops, frame.i)
    BY <1>6 DEF Finish, IInv, WorkingCopy
  <2>2. /\ data' = frame.data /\ UNCHANGED alive
        /\ txBuffer' = [t \in TxId |-> IF t = frame.txId THEN << >> ELSE txBuffer[t]]
    BY <1>6 DEF Finish
  <2>3. StoredMap' = MapOf(data')
    BY DEF StoredMap, MapOf, Get, Stored
  <2>4. StoredMap' = Abstract!Effect(StoredMap, frame.ops)
    BY <2>1, <2>2, <2>3, SameEffect DEF Effect
  <2>5. /\ AskedFor.running /\ AskedFor.ops = frame.ops /\ AskedFor.txId = frame.txId
        /\ AskedFor' = Abstract!NoCall
    BY <1>6, <2>1 DEF Finish, AskedFor, IdleFrame, Abstract!NoCall
  <2>6. Abstract!Succeed
    BY <2>2, <2>4, <2>5 DEF Abstract!Succeed
  <2> QED
    BY <2>6 DEF Abstract!Next
<1>7. CASE Drop
  <2>1. StoredMap' = EmptyMap
    <3>1. data' = EmptyData
      BY <1>7 DEF Drop
    <3> QED
      BY <3>1 DEF StoredMap, Get, Stored, EmptyData, EmptySlot, EmptyMap
  <2>2. Abstract!Drop
    BY <1>0, <1>7, <2>1, SameEffect DEF Drop, Abstract!Drop
  <2> QED
    BY <2>2 DEF Abstract!Next
<1>8. CASE UNCHANGED vars
  BY <1>0, <1>8 DEF vars, Abstract!vars
<1>9. ASSUME NEW t \in TxId, NEW op \in Ops, CallTx(t, <<op>>) PROVE Abstract!Next
  BY <1>2, <1>9, OpsAreOps, SameEffect DEF Abstract!Next
<1>10. ASSUME NEW t \in TxId, NEW ops \in Batches, CallTx(t, ops) PROVE Abstract!Next
  BY <1>2, <1>10 DEF Abstract!Next
<1> QED
  BY <1>1, <1>3, <1>5, <1>6, <1>7, <1>8, <1>9, <1>10, <1>11, <1>12, <1>13, <1>14 DEF Next

\* The contract implements the map with transaction buffers: for any keys,
\* values, buffers and batch lists, a commit applies its buffer atomically, in
\* order and once, whatever calls ran out of gas in between.
THEOREM Refinement == Spec => ImplementsKVMap
<1>1. Init => Abstract!Init
  BY InitRefines
<1>2. IInv /\ IInv' /\ [Next]_vars => [Abstract!Next]_(Abstract!vars)
  BY NextRefines
<1> QED
  BY <1>1, <1>2, InductiveInvariant, PTL DEF Spec, ImplementsKVMap, Abstract!Spec
=============================================================================

---- MODULE TableTxProofs ----
(***************************************************************************)
(* Proofs about TableTx, for any keys, values, flags and modes.  What the  *)
(* transaction knows of its table is spread over the lists that COMMIT     *)
(* sends, the removes that wait for the end of a scan, the cache and the   *)
(* cursors; the invariants say how these relate to the statements so far:  *)
(*   DeferInv   when removes wait, and that they were issued               *)
(*   OpsInv     the lists of operations against the statements             *)
(*   TxScans    a cursor against the order of the cache                    *)
(*   AutoScans  a cursor outside a transaction against its own rows        *)
(*   Positions  stored positions against the cache                         *)
(*   Cells      the cache against the statements and what was read         *)
(* TxScans, Positions and Cells are about a session with one handler: a    *)
(* second one may refill the cache and apply the removes under the cursor  *)
(* of the first.                                                           *)
(***************************************************************************)
EXTENDS TableTx, TLAPS, FiniteSetTheorems, WellFoundedInduction

(***************************************************************************)
(* Lists of operations.                                                    *)
(***************************************************************************)
In(s, k) == Touched(s, Len(s), k)

\* What s leaves of key k.
Own(s, k) == Outcome(s[LastTouch(s, Len(s), k)])

\* A set of numbers has a least one.
LEMMA Least ==
  ASSUME NEW S \in SUBSET Nat, S # {}
  PROVE  \E n \in S : \A m \in S : n <= m
<1>1. PICK n \in S : \A m \in S : ~(<<m, n>> \in OpToRel(<, Nat))
  BY NatLessThanWellFounded, WFMin, Zenon
<1>2. \A m \in S : ~(m < n)
  BY <1>1 DEF OpToRel
<1> QED
  BY <1>2

\* If an operation of s is on key k, one is the last.
LEMMA LastIs ==
  ASSUME NEW s \in Seq(Op), NEW k, In(s, k)
  PROVE  /\ LastTouch(s, Len(s), k) \in 1..Len(s)
         /\ s[LastTouch(s, Len(s), k)].key = k
         /\ \A j \in 1..Len(s) : s[j].key = k => j <= LastTouch(s, Len(s), k)
<1>1. Len(s) \in Nat
  OBVIOUS
<1> DEFINE n == Len(s)
           Latest(i) == s[i].key = k /\ \A j \in (i + 1)..n : s[j].key # k
           S == {m \in Nat : \E i \in 1..n : s[i].key = k /\ m = n - i}
<1> HIDE DEF n
<1>2. S # {}
  <2>1. PICK i \in 1..n : s[i].key = k
    BY DEF In, Touched, n
  <2>2. n - i \in S
    BY <1>1, <2>1 DEF n
  <2> QED
    BY <2>2
<1>3. PICK m \in S : \A l \in S : m <= l
  <2> S \in SUBSET Nat
    OBVIOUS
  <2> HIDE DEF S
  <2> QED
    BY <1>2, Least
<1>4. PICK i \in 1..n : s[i].key = k /\ m = n - i
  BY <1>3
<1>5. \A j \in (i + 1)..n : s[j].key # k
  <2>1. SUFFICES ASSUME NEW j \in (i + 1)..n, s[j].key = k PROVE FALSE
    OBVIOUS
  <2>2. n - j \in S /\ n - j < m
    BY <1>1, <1>4, <2>1 DEF n
  <2>3. m <= n - j /\ m \in Nat
    BY <1>3, <2>2
  <2> QED
    BY <1>1, <2>1, <2>2, <2>3 DEF n
<1>6. Latest(LastTouch(s, n, k)) /\ LastTouch(s, n, k) \in 1..n
  BY <1>4, <1>5, Zenon DEF LastTouch
<1> QED
  BY <1>1, <1>6 DEF n

LEMMA LastUnique ==
  ASSUME NEW s \in Seq(Op), NEW k, NEW i \in 1..Len(s), s[i].key = k,
         \A j \in 1..Len(s) : s[j].key = k => j <= i
  PROVE  In(s, k) /\ Own(s, k) = Outcome(s[i])
<1>1. In(s, k)
  BY DEF In, Touched
<1>2. LastTouch(s, Len(s), k) = i
  BY <1>1, LastIs
<1> QED
  BY <1>1, <1>2 DEF Own

LEMMA EffectOwn ==
  ASSUME NEW m, NEW s, NEW k \in Key
  PROVE  Effect(m, s)[k] = IF In(s, k) THEN Own(s, k) ELSE m[k]
BY DEF Effect, EffectUpTo, In, Own

LEMMA OwnType ==
  ASSUME NEW s \in Seq(Op), NEW k, In(s, k)
  PROVE  /\ Own(s, k) \in Value \cup {Absent}
         /\ Own(s, k) = Absent => \E i \in DOMAIN s : s[i].key = k /\ s[i].deleteEntry
<1>1. PICK i \in 1..Len(s) : i = LastTouch(s, Len(s), k) /\ s[i].key = k
  BY LastIs
<1>2. s[i] \in Op /\ i \in DOMAIN s
  OBVIOUS
<1> QED
  BY <1>1, <1>2, AbsentAssumption DEF Own, Outcome, Op

LEMMA EffectType ==
  ASSUME NEW m \in Map, NEW s \in Seq(Op)
  PROVE  Effect(m, s) \in Map
<1>1. ASSUME NEW k \in Key PROVE Effect(m, s)[k] \in Value \cup {Absent}
  BY EffectOwn, OwnType DEF Map
<1>2. Effect(m, s) = [k \in Key |-> Effect(m, s)[k]]
  BY DEF Effect, EffectUpTo
<1> QED
  BY <1>1, <1>2 DEF Map

LEMMA OwnAppend ==
  ASSUME NEW s \in Seq(Op), NEW op \in Op, NEW k
  PROVE  /\ In(Append(s, op), k) <=> In(s, k) \/ op.key = k
         /\ op.key = k => Own(Append(s, op), k) = Outcome(op)
         /\ op.key # k /\ In(s, k) => Own(Append(s, op), k) = Own(s, k)
<1> DEFINE a == Append(s, op)
           n == Len(s)
<1>1. /\ a \in Seq(Op) /\ n \in Nat /\ Len(a) = n + 1 /\ a[n + 1] = op
      /\ \A i \in 1..n : a[i] = s[i]
  OBVIOUS
<1> HIDE DEF a, n
<1>2. In(a, k) <=> In(s, k) \/ op.key = k
  BY <1>1 DEF In, Touched, n
<1>3. ASSUME op.key = k PROVE Own(a, k) = Outcome(op)
  <2>1. n + 1 \in 1..Len(a) /\ a[n + 1].key = k /\ \A j \in 1..Len(a) : j <= n + 1
    BY <1>1, <1>3
  <2> QED
    BY <1>1, <2>1, LastUnique
<1>4. ASSUME op.key # k, In(s, k) PROVE Own(a, k) = Own(s, k)
  <2>1. PICK i : i = LastTouch(s, n, k)
    OBVIOUS
  <2>2. /\ i \in 1..n /\ s[i].key = k /\ \A j \in 1..n : s[j].key = k => j <= i
        /\ Own(s, k) = Outcome(s[i])
    BY <1>4, <2>1, LastIs DEF Own, n
  <2>3. i \in 1..Len(a) /\ a[i].key = k /\ \A j \in 1..Len(a) : a[j].key = k => j <= i
    BY <1>1, <1>4, <2>2
  <2>4. Own(a, k) = Outcome(a[i])
    BY <1>1, <2>3, LastUnique
  <2> QED
    BY <1>1, <2>2, <2>4
<1> QED
  BY <1>2, <1>3, <1>4 DEF a

LEMMA OwnConcat ==
  ASSUME NEW s \in Seq(Op), NEW t \in Seq(Op), NEW k
  PROVE  /\ In(s \o t, k) <=> In(s, k) \/ In(t, k)
         /\ In(t, k) => Own(s \o t, k) = Own(t, k)
         /\ ~In(t, k) /\ In(s, k) => Own(s \o t, k) = Own(s, k)
<1> DEFINE c == s \o t
           n == Len(s)
           l == Len(t)
<1>1. /\ c \in Seq(Op) /\ n \in Nat /\ l \in Nat /\ Len(c) = n + l
      /\ \A i \in 1..n : c[i] = s[i]
      /\ \A i \in 1..l : c[n + i] = t[i]
  OBVIOUS
<1> HIDE DEF c, n, l
<1>2. \A i \in 1..Len(c) : i \in 1..n \/ (i - n \in 1..l /\ c[i] = t[i - n])
  <2>1. ASSUME NEW i \in 1..Len(c), i \notin 1..n PROVE i - n \in 1..l /\ c[i] = t[i - n]
    <3>1. PICK j \in 1..l : i = n + j
      BY <1>1, <2>1
    <3> QED
      BY <1>1, <3>1
  <2> QED
    BY <2>1
<1>3. In(c, k) <=> In(s, k) \/ In(t, k)
  <2>1. In(s, k) => In(c, k)
    BY <1>1 DEF In, Touched, n
  <2>2. ASSUME In(t, k) PROVE In(c, k)
    <3>1. PICK i \in 1..l : t[i].key = k
      BY <2>2 DEF In, Touched, l
    <3>2. n + i \in 1..Len(c) /\ c[n + i].key = k
      BY <1>1, <3>1
    <3> QED
      BY <3>2 DEF In, Touched
  <2>3. ASSUME In(c, k) PROVE In(s, k) \/ In(t, k)
    <3>1. PICK i \in 1..Len(c) : c[i].key = k
      BY <2>3 DEF In, Touched
    <3> QED
      BY <1>1, <1>2, <3>1 DEF In, Touched, n, l
  <2> QED
    BY <2>1, <2>2, <2>3
<1>4. ASSUME In(t, k) PROVE Own(c, k) = Own(t, k)
  <2>1. PICK i : i = LastTouch(t, l, k)
    OBVIOUS
  <2>2. /\ i \in 1..l /\ t[i].key = k /\ \A j \in 1..l : t[j].key = k => j <= i
        /\ Own(t, k) = Outcome(t[i])
    BY <1>4, <2>1, LastIs DEF Own, l
  <2>3. PICK p \in 1..Len(c) : p = n + i /\ c[p] = t[i]
    <3>1. n + i \in 1..Len(c) /\ c[n + i] = t[i]
      BY <1>1, <2>2
    <3> QED
      BY <3>1
  <2>4. ASSUME NEW j \in 1..Len(c), c[j].key = k PROVE j <= p
    <3>1. CASE j \in 1..n
      BY <1>1, <2>2, <2>3, <3>1
    <3>2. CASE j - n \in 1..l /\ c[j] = t[j - n]
      <4>1. j - n <= i
        BY <2>2, <2>4, <3>2
      <4> QED
        BY <1>1, <2>2, <2>3, <4>1
    <3> QED
      BY <1>2, <3>1, <3>2
  <2>5. c[p].key = k /\ \A j \in 1..Len(c) : c[j].key = k => j <= p
    BY <2>2, <2>3, <2>4
  <2>6. Own(c, k) = Outcome(c[p])
    BY <1>1, <2>5, LastUnique
  <2> QED
    BY <2>2, <2>3, <2>6
<1>5. ASSUME ~In(t, k), In(s, k) PROVE Own(c, k) = Own(s, k)
  <2>1. PICK i : i = LastTouch(s, n, k)
    OBVIOUS
  <2>2. /\ i \in 1..n /\ s[i].key = k /\ \A j \in 1..n : s[j].key = k => j <= i
        /\ Own(s, k) = Outcome(s[i])
    BY <1>5, <2>1, LastIs DEF Own, n
  <2>3. i \in 1..Len(c) /\ c[i] = s[i] /\ c[i].key = k
    BY <1>1, <2>2
  <2>4. ASSUME NEW j \in 1..Len(c), c[j].key = k PROVE j <= i
    <3>1. CASE j \in 1..n
      BY <1>1, <2>2, <2>4, <3>1
    <3>2. CASE j - n \in 1..l /\ c[j] = t[j - n]
      BY <1>5, <2>4, <3>2 DEF In, Touched, l
    <3> QED
      BY <1>2, <3>1, <3>2
  <2>5. Own(c, k) = Outcome(c[i])
    BY <1>1, <2>3, <2>4, LastUnique
  <2> QED
    BY <2>2, <2>3, <2>5
<1> QED
  BY <1>3, <1>4, <1>5 DEF c

\* One more operation overrides what the earlier ones did to its key.
LEMMA EffectStep ==
  ASSUME NEW m, NEW ops \in Seq(Op), NEW n \in Nat, n + 1 <= Len(ops),
         NEW op, op = ops[n + 1],
         NEW e, e = EffectUpTo(m, ops, n)
  PROVE  EffectUpTo(m, ops, n + 1) = [e EXCEPT ![op.key] = Outcome(op)]
<1>1. op \in Op
  OBVIOUS
<1>2. op.key \in Key
  BY <1>1 DEF Op
<1>3. ASSUME NEW k \in Key
      PROVE  EffectUpTo(m, ops, n + 1)[k]
               = IF k = op.key THEN Outcome(op) ELSE EffectUpTo(m, ops, n)[k]
  <2>1. CASE k = op.key
    <3>1. Touched(ops, n + 1, k)
      BY <2>1 DEF Touched
    <3>2. \A i \in 1..(n + 1) :
            (ops[i].key = k /\ \A j \in (i + 1)..(n + 1) : ops[j].key # k) <=> i = n + 1
      <4> SUFFICES ASSUME NEW i \in 1..(n + 1)
                   PROVE  (ops[i].key = k /\ \A j \in (i + 1)..(n + 1) : ops[j].key # k)
                            <=> i = n + 1
        OBVIOUS
      <4>1. CASE i = n + 1
        <5>1. \A j \in (i + 1)..(n + 1) : FALSE
          BY <4>1
        <5> QED
          BY <4>1, <5>1, <2>1
      <4>2. CASE i # n + 1
        <5>1. n + 1 \in (i + 1)..(n + 1)
          BY <4>2
        <5> QED
          BY <4>2, <5>1, <2>1
      <4> QED
        BY <4>1, <4>2
    <3>3. LastTouch(ops, n + 1, k) = n + 1
      BY <3>2 DEF LastTouch
    <3> QED
      BY <2>1, <3>1, <3>3 DEF EffectUpTo
  <2>2. CASE k # op.key
    <3>1. Touched(ops, n + 1, k) <=> Touched(ops, n, k)
      BY <2>2 DEF Touched
    <3>2. LastTouch(ops, n + 1, k) = LastTouch(ops, n, k)
      <4> DEFINE Old(i) == i \in 1..n /\ (ops[i].key = k
                             /\ \A j \in (i + 1)..n : ops[j].key # k)
                 New(i) == i \in 1..(n + 1) /\ (ops[i].key = k
                             /\ \A j \in (i + 1)..(n + 1) : ops[j].key # k)
      <4>1. \A i : Old(i) <=> New(i)
        BY <2>2
      <4>2. LastTouch(ops, n, k) = CHOOSE i : Old(i)
        BY DEF LastTouch
      <4>3. LastTouch(ops, n + 1, k) = CHOOSE i : New(i)
        BY DEF LastTouch
      <4> HIDE DEF Old, New
      <4>4. (CHOOSE i : Old(i)) = (CHOOSE i : New(i))
        BY <4>1
      <4> QED
        BY <4>2, <4>3, <4>4
    <3> QED
      BY <2>2, <3>1, <3>2 DEF EffectUpTo
  <2> QED
    BY <2>1, <2>2
<1>4. /\ DOMAIN EffectUpTo(m, ops, n + 1) = Key
      /\ DOMAIN EffectUpTo(m, ops, n) = Key
  BY DEF EffectUpTo
<1>5. EffectUpTo(m, ops, n + 1) = [k \in Key |-> EffectUpTo(m, ops, n + 1)[k]]
  BY DEF EffectUpTo
<1> QED
  BY <1>2, <1>3, <1>4, <1>5

-----------------------------------------------------------------------------
(***************************************************************************)
(* The order of the cache.                                                 *)
(***************************************************************************)
Distinct(s) == \A i, j \in DOMAIN s : s[i] = s[j] => i = j

LEMMA OrdersEnumerate ==
  ASSUME NEW m \in Map, NEW order, NEW s \in Orders(order, m)
  PROVE  /\ s \in Seq(Key) /\ Enumerates(s, m)
         /\ Len(s) = Cardinality(Keys(m)) /\ Len(s) \in Nat
<1>1. Keys(m) \subseteq Key /\ IsFiniteSet(Keys(m))
  BY FS_Subset, KeyAssumption DEF Keys
<1>2. PICK n : n = Cardinality(Keys(m)) /\ n \in Nat
  BY <1>1, FS_CardinalityType
<1>3. s \in [1..n -> Keys(m)] /\ \A i, j \in 1..n : i # j => s[i] # s[j]
  BY <1>2 DEF Orders, SetToSeqs
<1>4. s \in Injection(1..n, Keys(m))
  BY <1>3 DEF Injection, IsInjective
<1>5. IsFiniteSet(1..n) /\ Cardinality(1..n) = n
  BY <1>2, FS_Interval
<1>6. s \in Surjection(1..n, Keys(m))
  BY <1>1, <1>2, <1>4, <1>5, FS_Injection
<1>7. Range(s) = Keys(m)
  BY <1>3, <1>6 DEF Surjection, Range
<1>8. s \in Seq(Key) /\ Len(s) = n /\ DOMAIN s = 1..n
  BY <1>1, <1>2, <1>3
<1> QED
  BY <1>2, <1>3, <1>7, <1>8 DEF Enumerates

\* A sequence of distinct keys that keeps the order of another one of the same keys
\* is that one.
LEMMA OrderStays ==
  ASSUME NEW m \in Map, NEW order \in Seq(Key), Range(order) = Keys(m), Distinct(order),
         NEW s \in Orders(order, m)
  PROVE  s = order
<1>1. /\ s \in Seq(Key) /\ Range(s) = Keys(m) /\ Distinct(s)
      /\ Len(s) = Cardinality(Keys(m))
  BY OrdersEnumerate DEF Enumerates, Distinct
<1>2. Len(order) = Cardinality(Keys(m))
  <2>1. PICK l \in Nat : l = Len(order) /\ DOMAIN order = 1..l
    OBVIOUS
  <2>2. IsFiniteSet(Keys(m))
    BY FS_Subset, KeyAssumption DEF Keys
  <2>3. IsFiniteSet(1..l) /\ Cardinality(1..l) = l
    <3>1. 1 \in Int /\ l \in Int /\ l - 1 + 1 = l /\ (1 > l <=> l = 0)
      BY <2>1
    <3> QED
      BY <3>1, FS_Interval
  <2>4. order \in [1..l -> Keys(m)]
    BY <2>1 DEF Range
  <2>5. order \in Injection(1..l, Keys(m))
    BY <2>1, <2>4 DEF Injection, IsInjective, Distinct
  <2>6. order \in Surjection(1..l, Keys(m))
    BY <2>1, <2>4 DEF Surjection, Range
  <2> QED
    BY <2>1, <2>2, <2>3, <2>5, <2>6, FS_Injection
<1>3. PICK n \in Nat : n = Len(s) /\ n = Len(order) /\ DOMAIN s = 1..n /\ DOMAIN order = 1..n
  BY <1>1, <1>2
<1>4. KeepsOrder(s, order)
  BY DEF Orders
<1>5. SUFFICES ASSUME s # order PROVE FALSE
  OBVIOUS
<1> DEFINE Differ == {i \in 1..n : s[i] # order[i]}
<1>6. Differ # {}
  <2>1. s = [i \in 1..n |-> s[i]] /\ order = [i \in 1..n |-> order[i]]
    BY <1>1, <1>3
  <2> QED
    BY <1>5, <2>1
<1>7. PICK i \in 1..n : s[i] # order[i] /\ \A j \in 1..n : s[j] # order[j] => i <= j
  <2>1. Differ \in SUBSET Nat
    BY <1>3
  <2>2. PICK i \in Differ : \A j \in Differ : i <= j
    <3> HIDE DEF Differ
    <3> QED
      BY <1>6, <2>1, Least
  <2> QED
    BY <2>2
<1>8. PICK j \in 1..n : s[j] = order[i]
  BY <1>1, <1>3, <1>7 DEF Range
<1>9. PICK l \in 1..n : order[l] = s[i]
  BY <1>1, <1>3, <1>7 DEF Range
<1>10. i < j
  <2>1. \A k \in 1..n : k < i => s[k] = order[k]
    BY <1>7
  <2>2. j # i
    BY <1>7, <1>8
  <2>3. ASSUME j < i PROVE FALSE
    BY <1>3, <1>7, <1>8, <2>1, <2>3 DEF Distinct
  <2> QED
    BY <1>3, <1>7, <1>8, <2>2, <2>3
<1>11. l > i
  <2>1. \A k \in 1..n : k < i => s[k] = order[k]
    BY <1>7
  <2>2. l # i
    BY <1>7, <1>9
  <2>3. ASSUME l < i PROVE FALSE
    BY <1>1, <1>3, <1>7, <1>9, <2>1, <2>3 DEF Distinct
  <2> QED
    BY <1>3, <1>7, <1>9, <2>2, <2>3
<1>12. PICK a, b \in 1..n : a < b /\ order[a] = s[i] /\ order[b] = s[j]
  BY <1>3, <1>4, <1>7, <1>8, <1>10 DEF KeepsOrder
<1>13. a = l /\ b = i
  BY <1>3, <1>7, <1>8, <1>9, <1>12 DEF Distinct
<1> QED
  BY <1>3, <1>7, <1>9, <1>11, <1>12, <1>13

LEMMA CachingType ==
  ASSUME NEW x \in Transaction, NEW m \in Map, NEW y \in Caching(x, m)
  PROVE  /\ y \in Transaction /\ Enumerates(y.order, y.cache)
         /\ y.cache = m /\ y.order \in Orders(x.order, m)
         /\ y.puts = x.puts /\ y.removes = x.removes /\ y.pending = x.pending
         /\ y.filled = x.filled /\ y.deferring = x.deferring
<1>1. PICK o \in Orders(x.order, m) : y = [x EXCEPT !.cache = m, !.order = o]
  BY DEF Caching
<1>2. o \in Seq(Key) /\ Enumerates(o, m)
  BY OrdersEnumerate
<1> QED
  BY <1>1, <1>2 DEF Transaction

\* A cache that gains and loses no key keeps its order.
LEMMA CachingStays ==
  ASSUME NEW x \in Transaction, Enumerates(x.order, x.cache), NEW m \in Map, Keys(m) = Keys(x.cache),
         NEW y \in Caching(x, m)
  PROVE  y.order = x.order
<1>1. y.order \in Orders(x.order, m)
  BY CachingType
<1>2. x.order \in Seq(Key) /\ Range(x.order) = Keys(m) /\ Distinct(x.order)
  BY DEF Transaction, Enumerates, Distinct
<1> QED
  BY <1>1, <1>2, OrderStays

-----------------------------------------------------------------------------
(***************************************************************************)
(* The order of the contract's list of keys.                               *)
(***************************************************************************)
LEMMA ListAfterEnumerates ==
  ASSUME NEW list \in Seq(Key), NEW m \in Map, NEW op \in Op, Enumerates(list, m)
  PROVE  /\ ListAfter(list, op) \in Seq(Key)
         /\ Enumerates(ListAfter(list, op), [m EXCEPT ![op.key] = Outcome(op)])
<1>4. PICK k : k = op.key
  OBVIOUS
<1>5. PICK e : e = [m EXCEPT ![k] = Outcome(op)]
  OBVIOUS
<1>6. PICK n \in Nat : n = Len(list)
  OBVIOUS
<1> SUFFICES ListAfter(list, op) \in Seq(Key) /\ Enumerates(ListAfter(list, op), e)
  BY <1>4, <1>5
<1>1. /\ k \in Key /\ n \in Nat /\ DOMAIN list = 1..n /\ \A i \in 1..n : list[i] \in Key
      /\ Range(list) = Keys(m) /\ \A i, j \in 1..n : list[i] = list[j] => i = j
      /\ Range(list) = {list[i] : i \in 1..n}
  BY <1>4, <1>6 DEF Op, Enumerates, Range
<1>2. CASE ~op.deleteEntry
  <2>1. Keys(e) = Keys(m) \cup {k}
    BY <1>1, <1>2, <1>5, AbsentAssumption DEF Outcome, Op, Map, Keys
  <2>2. CASE k \in Range(list)
    <3>1. ListAfter(list, op) = list
      BY <1>2, <1>4, <2>2 DEF ListAfter
    <3>2. Keys(e) = Range(list)
      BY <1>1, <2>1, <2>2
    <3> QED
      BY <1>1, <3>1, <3>2 DEF Enumerates
  <2>3. CASE k \notin Range(list)
    <3> DEFINE a == Append(list, k)
    <3>1. /\ a \in Seq(Key) /\ DOMAIN a = 1..(n + 1) /\ a[n + 1] = k
          /\ \A i \in 1..n : a[i] = list[i]
      BY <1>1, <1>6
    <3> HIDE DEF a
    <3>2. Range(a) = Range(list) \cup {k}
      BY <1>1, <3>1 DEF Range
    <3>3. \A i \in 1..n : list[i] # k
      BY <1>1, <2>3
    <3>4. \A i, j \in DOMAIN a : a[i] = a[j] => i = j
      BY <1>1, <3>1, <3>3
    <3>5. ListAfter(list, op) = a
      BY <1>2, <1>4, <2>3 DEF ListAfter, a
    <3> QED
      BY <1>1, <2>1, <3>1, <3>2, <3>4, <3>5 DEF Enumerates
  <2> QED
    BY <2>2, <2>3
<1>3. CASE op.deleteEntry
  <2>1. Keys(e) = Keys(m) \ {k}
    BY <1>1, <1>3, <1>5 DEF Outcome, Map, Keys
  <2>2. CASE k \notin Range(list)
    <3>1. ListAfter(list, op) = list
      BY <1>3, <1>4, <2>2 DEF ListAfter
    <3>2. Keys(e) = Range(list)
      BY <1>1, <2>1, <2>2
    <3> QED
      BY <1>1, <3>1, <3>2 DEF Enumerates
  <2>3. CASE k \in Range(list)
    <3>1. PICK p \in 1..n : list[p] = k
      BY <1>1, <2>3
    <3> DEFINE w == [j \in DOMAIN list |-> IF list[j] = k THEN list[n] ELSE list[j]]
               r == SubSeq(w, 1, n - 1)
    <3>2. ListAfter(list, op) = r
      BY <1>3, <1>4, <1>6, <2>3 DEF ListAfter
    <3>3. w \in Seq(Key) /\ Len(w) = n /\ \A j \in 1..n : w[j] = IF j = p THEN list[n] ELSE list[j]
      BY <1>1, <1>6, <3>1
    <3> HIDE DEF w
    <3>4. r \in Seq(Key) /\ DOMAIN r = 1..(n - 1) /\ \A j \in 1..(n - 1) : r[j] = w[j]
      BY <1>1, <3>1, <3>3
    <3> HIDE DEF r
    <3>5. \A j \in 1..(n - 1) : r[j] = IF j = p THEN list[n] ELSE list[j]
      BY <1>1, <3>3, <3>4
    <3>6. \A i, j \in DOMAIN r : r[i] = r[j] => i = j
      BY <1>1, <3>1, <3>4, <3>5
    <3>7. Range(r) = {r[j] : j \in 1..(n - 1)}
      BY <3>4 DEF Range
    <3>8. Range(r) \subseteq Range(list) \ {k}
      BY <1>1, <3>1, <3>5, <3>7
    <3>9. ASSUME NEW x \in Range(list) \ {k} PROVE x \in Range(r)
      <4>1. PICK j \in 1..n : list[j] = x
        BY <1>1, <3>9
      <4>2. CASE j < n
        BY <1>1, <3>1, <3>5, <3>7, <3>9, <4>1, <4>2
      <4>3. CASE j = n
        <5>1. p \in 1..(n - 1)
          BY <1>1, <3>1, <3>9, <4>1, <4>3
        <5> QED
          BY <3>5, <3>7, <4>1, <4>3, <5>1
      <4>4. j < n \/ j = n
        BY <1>6, <4>1
      <4> QED
        BY <4>2, <4>3, <4>4
    <3> QED
      BY <1>1, <2>1, <3>2, <3>4, <3>6, <3>8, <3>9 DEF Enumerates
  <2> QED
    BY <2>2, <2>3
<1> QED
  BY <1>1, <1>2, <1>3, <1>4 DEF Op

\* The lists after the operations, one by one; there is such a function.
IsAfter(list, ops, n, f) ==
  f = [i \in 0..n |-> IF i = 0 THEN list ELSE ListAfter(f[i - 1], ops[i])]

LEMMA AfterExists ==
  ASSUME NEW list, NEW ops, NEW n \in Nat
  PROVE  \E f : IsAfter(list, ops, n, f)
<1> DEFINE Bad == {m \in Nat : ~\E f : IsAfter(list, ops, m, f)}
<1>1. SUFFICES ASSUME Bad # {} PROVE FALSE
  OBVIOUS
<1>2. PICK b \in Bad : \A m \in Bad : b <= m
  <2> Bad \in SUBSET Nat
    OBVIOUS
  <2> HIDE DEF Bad
  <2> QED
    BY <1>1, Least
<1>3. b # 0
  <2>1. IsAfter(list, ops, 0, [i \in 0..0 |-> list])
    BY DEF IsAfter
  <2> QED
    BY <2>1
<1>4. b - 1 \in Nat /\ b - 1 \notin Bad
  BY <1>2, <1>3
<1>5. PICK f : IsAfter(list, ops, b - 1, f)
  BY <1>4
<1> DEFINE g == [i \in 0..b |-> IF i = b THEN ListAfter(f[b - 1], ops[b]) ELSE f[i]]
<1>6. ASSUME NEW i \in 0..b
      PROVE  g[i] = IF i = 0 THEN list ELSE ListAfter(g[i - 1], ops[i])
  <2>1. CASE i = 0
    <3>1. f[0] = list
      BY <1>4, <1>5 DEF IsAfter
    <3> QED
      BY <1>3, <2>1, <3>1
  <2>2. CASE i # 0 /\ i # b
    <3>1. i \in 0..(b - 1) /\ i - 1 \in 0..(b - 1)
      BY <1>4, <2>2
    <3>2. f[i] = ListAfter(f[i - 1], ops[i])
      BY <1>5, <2>2, <3>1 DEF IsAfter
    <3>3. g[i] = f[i] /\ g[i - 1] = f[i - 1]
      BY <1>4, <2>2, <3>1
    <3> QED
      BY <2>2, <3>2, <3>3
  <2>3. CASE i = b
    <3>1. g[b] = ListAfter(f[b - 1], ops[b]) /\ g[b - 1] = f[b - 1]
      BY <1>4
    <3> QED
      BY <1>3, <2>3, <3>1
  <2> QED
    BY <2>1, <2>2, <2>3
<1>7. IsAfter(list, ops, b, g)
  <2>1. g = [i \in 0..b |-> g[i]]
    OBVIOUS
  <2> HIDE DEF g
  <2> QED
    BY <1>6, <2>1 DEF IsAfter
<1> QED
  BY <1>7

\* The contract's list of keys names each key that is stored once, after a batch as
\* before.
LEMMA ListAfterAllEnumerates ==
  ASSUME NEW list \in Seq(Key), NEW m \in Map, NEW ops \in Seq(Op), Enumerates(list, m)
  PROVE  /\ ListAfterAll(list, ops) \in Seq(Key)
         /\ Enumerates(ListAfterAll(list, ops), Effect(m, ops))
<1>1. PICK n \in Nat : n = Len(ops)
  OBVIOUS
<1>2. PICK f : IsAfter(list, ops, n, f) /\ ListAfterAll(list, ops) = f[n]
  <2> DEFINE a == CHOOSE f : IsAfter(list, ops, n, f)
  <2>1. IsAfter(list, ops, n, a)
    BY <1>1, AfterExists
  <2>2. ListAfterAll(list, ops) = a[n]
    BY <1>1 DEF ListAfterAll, IsAfter
  <2> QED
    BY <2>1, <2>2
<1> DEFINE Good(i) == f[i] \in Seq(Key) /\ Enumerates(f[i], EffectUpTo(m, ops, i))
           Bad == {i \in Nat : i <= n /\ ~Good(i)}
<1>3. Good(0)
  <2>1. EffectUpTo(m, ops, 0) = m
    BY DEF EffectUpTo, Touched, Map
  <2>2. f[0] = list
    BY <1>2 DEF IsAfter
  <2> QED
    BY <2>1, <2>2
<1>4. ASSUME NEW i \in Nat, i + 1 <= n, Good(i) PROVE Good(i + 1)
  <2>1. PICK op \in Op : op = ops[i + 1]
    BY <1>1, <1>4
  <2>2. f[i + 1] = ListAfter(f[i], op)
    <3>1. i + 1 \in 0..n /\ i + 1 # 0 /\ (i + 1) - 1 = i
      BY <1>4
    <3> QED
      BY <1>2, <2>1, <3>1 DEF IsAfter
  <2>3. PICK e : e = EffectUpTo(m, ops, i)
    OBVIOUS
  <2>4. e \in Map
    <3>1. PICK s : s = SubSeq(ops, 1, i)
      OBVIOUS
    <3>2. s \in Seq(Op) /\ Len(s) = i /\ \A j \in 1..i : s[j] = ops[j]
      BY <1>1, <1>4, <3>1
    <3>3. EffectUpTo(m, ops, i) = EffectUpTo(m, s, i)
      <4>1. \A k \in Key : Touched(ops, i, k) <=> Touched(s, i, k)
        BY <3>2 DEF Touched
      <4>2. ASSUME NEW k \in Key, Touched(s, i, k)
            PROVE  Outcome(ops[LastTouch(ops, i, k)]) = Outcome(s[LastTouch(s, i, k)])
        <5> DEFINE Old(j) == j \in 1..i /\ ops[j].key = k /\ \A l \in (j + 1)..i : ops[l].key # k
                   New(j) == j \in 1..i /\ s[j].key = k /\ \A l \in (j + 1)..i : s[l].key # k
        <5>1. \A j : Old(j) <=> New(j)
          BY <3>2
        <5>2. LastTouch(ops, i, k) = CHOOSE j : Old(j)
          BY DEF LastTouch
        <5>3. LastTouch(s, i, k) = CHOOSE j : New(j)
          BY DEF LastTouch
        <5> HIDE DEF Old, New
        <5>4. LastTouch(ops, i, k) = LastTouch(s, i, k)
          BY <5>1, <5>2, <5>3
        <5>5. LastTouch(s, i, k) \in 1..i
          BY <3>2, <4>2, LastIs DEF In
        <5> QED
          BY <3>2, <5>4, <5>5
      <4> QED
        BY <4>1, <4>2 DEF EffectUpTo
    <3>4. Effect(m, s) \in Map
      BY <3>2, EffectType
    <3> QED
      BY <2>3, <3>2, <3>3, <3>4 DEF Effect
  <2>5. EffectUpTo(m, ops, i + 1) = [e EXCEPT ![op.key] = Outcome(op)]
    BY <1>1, <1>4, <2>1, <2>3, EffectStep
  <2>6. PICK g : g = f[i]
    OBVIOUS
  <2>7. g \in Seq(Key) /\ Enumerates(g, e)
    BY <1>4, <2>3, <2>6
  <2>8. /\ ListAfter(g, op) \in Seq(Key)
        /\ Enumerates(ListAfter(g, op), [e EXCEPT ![op.key] = Outcome(op)])
    BY <2>4, <2>7, ListAfterEnumerates
  <2> QED
    BY <2>2, <2>5, <2>6, <2>8
<1>5. Bad = {}
  <2> HIDE DEF Good
  <2>1. SUFFICES ASSUME Bad # {} PROVE FALSE
    OBVIOUS
  <2>2. PICK b \in Bad : \A i \in Bad : b <= i
    <3> Bad \in SUBSET Nat
      OBVIOUS
    <3> HIDE DEF Bad
    <3> QED
      BY <2>1, Least
  <2>3. b # 0
    BY <1>3
  <2>4. PICK i \in Nat : b = i + 1
    <3>1. b - 1 \in Nat /\ b = (b - 1) + 1
      BY <2>3
    <3> QED
      BY <3>1
  <2>5. Good(i)
    BY <2>2, <2>4
  <2> QED
    BY <1>4, <2>4, <2>5
<1>6. Good(n)
  BY <1>5
<1> QED
  BY <1>1, <1>2, <1>6 DEF Effect

-----------------------------------------------------------------------------
(***************************************************************************)
(* What the operators do to a table transaction.                           *)
(***************************************************************************)
LEMMA OpTypes ==
  /\ \A k \in Key, v \in Value : /\ PutOp(k, v) \in Op /\ PutOp(k, v).key = k
                                 /\ ~PutOp(k, v).deleteEntry /\ Outcome(PutOp(k, v)) = v
  /\ \A k \in Key : /\ RemoveOp(k) \in Op /\ RemoveOp(k).key = k
                    /\ RemoveOp(k).deleteEntry /\ Outcome(RemoveOp(k)) = Absent
BY ZeroAssumption DEF PutOp, RemoveOp, Op, Outcome

LEMMA EmptyMapType == EmptyMap \in Map /\ Keys(EmptyMap) = {} /\ Enumerates(<< >>, EmptyMap)
BY DEF EmptyMap, Map, Keys, Enumerates, Range

LEMMA NewTxType == NewTx \in Transaction /\ Enumerates(NewTx.order, NewTx.cache)
BY EmptyMapType DEF NewTx, Transaction

LEMMA SingleOp ==
  ASSUME NEW op \in Op, NEW m \in Map
  PROVE  /\ <<op>> \in Seq(Op) /\ Effect(m, <<op>>) \in Map
         /\ \A k \in Key : Effect(m, <<op>>)[k] = IF k = op.key THEN Outcome(op) ELSE m[k]
<1>1. <<op>> \in Seq(Op) /\ Len(<<op>>) = 1 /\ <<op>>[1] = op
  OBVIOUS
<1>2. Effect(m, <<op>>) \in Map
  BY <1>1, EffectType
<1>3. ASSUME NEW k \in Key PROVE Effect(m, <<op>>)[k] = IF k = op.key THEN Outcome(op) ELSE m[k]
  <2>1. In(<<op>>, k) <=> op.key = k
    BY <1>1 DEF In, Touched
  <2>2. ASSUME op.key = k PROVE Own(<<op>>, k) = Outcome(op)
    <3>1. PICK s \in Seq(Op) : s = <<op>> /\ Len(s) = 1 /\ s[1] = op
      BY <1>1
    <3>2. 1 \in 1..Len(s) /\ \A j \in 1..Len(s) : j <= 1
      BY <3>1
    <3> QED
      BY <2>2, <3>1, <3>2, LastUnique
  <2> QED
    BY <2>1, <2>2, EffectOwn
<1> QED
  BY <1>1, <1>2, <1>3

LEMMA Fields ==
  ASSUME NEW x \in Transaction
  PROVE  /\ x.puts \in Seq(Op) /\ x.removes \in Seq(Op) /\ x.pending \in Seq(Op)
         /\ x.cache \in Map /\ x.order \in Seq(Key)
         /\ x.filled \in BOOLEAN /\ x.deferring \in BOOLEAN
BY DEF Transaction

LEMMA AddPutIs ==
  ASSUME NEW x \in Transaction, NEW op \in Op, NEW y \in AddPut(x, op)
  PROVE  /\ y \in Transaction /\ Enumerates(y.order, y.cache)
         /\ y.puts = Append(x.puts, op) /\ y.removes = x.removes /\ y.pending = x.pending
         /\ y.cache = Effect(x.cache, <<op>>)
         /\ y.filled = x.filled /\ y.deferring = x.deferring
         /\ Enumerates(x.order, x.cache) /\ Keys(y.cache) = Keys(x.cache) => y.order = x.order
<1>1. PICK z : z = [x EXCEPT !.puts = Append(@, op)]
  OBVIOUS
<1>2. PICK m : m = Effect(x.cache, <<op>>)
  OBVIOUS
<1>3. /\ z \in Transaction /\ z.puts = Append(x.puts, op) /\ z.removes = x.removes
      /\ z.pending = x.pending /\ z.cache = x.cache /\ z.order = x.order
      /\ z.filled = x.filled /\ z.deferring = x.deferring
  <2>1. PICK a \in Seq(Op) : a = Append(x.puts, op)
    <3>1. x.puts \in Seq(Op)
      BY Fields
    <3>2. Append(x.puts, op) \in Seq(Op)
      BY <3>1
    <3> QED
      BY <3>2
  <2>2. z = [x EXCEPT !.puts = a, !.removes = x.removes, !.pending = x.pending]
    BY <1>1, <2>1 DEF Transaction
  <2> QED
    BY <2>1, <2>2, Fields DEF Transaction
<1>4. m \in Map
  BY <1>2, SingleOp, Fields
<1>5. y \in Caching(z, m)
  BY <1>1, <1>2 DEF AddPut
<1> QED
  BY <1>2, <1>3, <1>4, <1>5, CachingType, CachingStays

LEMMA AddRemoveIs ==
  ASSUME NEW x \in Transaction, Enumerates(x.order, x.cache), NEW op \in Op, NEW y \in AddRemove(x, op)
  PROVE  /\ y \in Transaction /\ Enumerates(y.order, y.cache)
         /\ y.puts = x.puts /\ y.filled = x.filled /\ y.deferring = x.deferring
         /\ x.deferring => /\ y.removes = x.removes /\ y.pending = Append(x.pending, op)
                           /\ y.cache = x.cache /\ y.order = x.order
         /\ ~x.deferring => /\ y.removes = Append(x.removes, op) /\ y.pending = x.pending
                            /\ y.cache = Effect(x.cache, <<op>>)
<1>1. CASE x.deferring
  <2>1. y = [x EXCEPT !.pending = Append(@, op)]
    BY <1>1 DEF AddRemove
  <2>2. PICK a \in Seq(Op) : a = Append(x.pending, op)
    <3>1. x.pending \in Seq(Op)
      BY Fields
    <3>2. Append(x.pending, op) \in Seq(Op)
      BY <3>1
    <3> QED
      BY <3>2
  <2>3. y = [x EXCEPT !.puts = x.puts, !.removes = x.removes, !.pending = a]
    BY <2>1, <2>2 DEF Transaction
  <2> QED
    BY <1>1, <2>2, <2>3, Fields DEF Transaction
<1>2. CASE ~x.deferring
  <2>1. PICK z : z = [x EXCEPT !.removes = Append(@, op)]
    OBVIOUS
  <2>2. PICK m : m = Effect(x.cache, <<op>>)
    OBVIOUS
  <2>3. /\ z \in Transaction /\ z.puts = x.puts /\ z.removes = Append(x.removes, op)
        /\ z.pending = x.pending /\ z.cache = x.cache
        /\ z.filled = x.filled /\ z.deferring = x.deferring
    <3>1. PICK a \in Seq(Op) : a = Append(x.removes, op)
      <4>1. x.removes \in Seq(Op)
        BY Fields
      <4>2. Append(x.removes, op) \in Seq(Op)
        BY <4>1
      <4> QED
        BY <4>2
    <3>2. z = [x EXCEPT !.puts = x.puts, !.removes = a, !.pending = x.pending]
      BY <2>1, <3>1 DEF Transaction
    <3> QED
      BY <3>1, <3>2, Fields DEF Transaction
  <2>4. m \in Map
    BY <2>2, SingleOp, Fields
  <2>5. y \in Caching(z, m)
    BY <1>2, <2>1, <2>2 DEF AddRemove
  <2> QED
    BY <1>2, <2>2, <2>3, <2>4, <2>5, CachingType
<1> QED
  BY <1>1, <1>2

LEMMA ApplyPendingIs ==
  ASSUME NEW x \in Transaction, NEW y \in ApplyPendingRemoves(x)
  PROVE  /\ y \in Transaction /\ Enumerates(y.order, y.cache)
         /\ y.puts = x.puts /\ y.removes = x.removes \o x.pending /\ y.pending = << >>
         /\ y.cache = Effect(x.cache, x.pending)
         /\ y.filled = x.filled /\ y.deferring = x.deferring
         /\ Enumerates(x.order, x.cache) /\ Keys(y.cache) = Keys(x.cache) => y.order = x.order
<1>1. PICK z : z = [x EXCEPT !.removes = @ \o x.pending, !.pending = << >>]
  OBVIOUS
<1>2. PICK m : m = Effect(x.cache, x.pending)
  OBVIOUS
<1>3. /\ z \in Transaction /\ z.puts = x.puts /\ z.removes = x.removes \o x.pending
      /\ z.pending = << >> /\ z.cache = x.cache /\ z.order = x.order
      /\ z.filled = x.filled /\ z.deferring = x.deferring
  <2>1. PICK a \in Seq(Op) : a = x.removes \o x.pending
    <3>1. x.removes \in Seq(Op) /\ x.pending \in Seq(Op)
      BY Fields
    <3>2. x.removes \o x.pending \in Seq(Op)
      BY <3>1
    <3> QED
      BY <3>2
  <2>2. << >> \in Seq(Op)
    OBVIOUS
  <2>3. z = [x EXCEPT !.puts = x.puts, !.removes = a, !.pending = << >>]
    BY <1>1, <2>1 DEF Transaction
  <2> QED
    BY <2>1, <2>2, <2>3, Fields DEF Transaction
<1>4. m \in Map
  BY <1>2, EffectType, Fields
<1>5. y \in Caching(z, m)
  BY <1>1, <1>2 DEF ApplyPendingRemoves
<1>6. /\ y \in Transaction /\ Enumerates(y.order, y.cache) /\ y.cache = m
      /\ y.puts = z.puts /\ y.removes = z.removes /\ y.pending = z.pending
      /\ y.filled = z.filled /\ y.deferring = z.deferring
  BY <1>3, <1>4, <1>5, CachingType
<1>7. ASSUME Enumerates(x.order, x.cache), Keys(y.cache) = Keys(x.cache) PROVE y.order = x.order
  <2>1. Enumerates(z.order, z.cache) /\ Keys(m) = Keys(z.cache)
    BY <1>3, <1>6, <1>7
  <2> QED
    BY <1>3, <1>4, <1>5, <2>1, CachingStays
<1> QED
  BY <1>2, <1>3, <1>6, <1>7

LEMMA ReleasedIs ==
  ASSUME NEW x \in Transaction, Enumerates(x.order, x.cache), NEW y, y = Released(x)
  PROVE  /\ y \in Transaction /\ Enumerates(y.order, y.cache)
         /\ y.puts = x.puts /\ y.removes = x.removes /\ y.pending = x.pending
         /\ y.filled = x.filled /\ y.deferring = x.deferring
         /\ useCache => y = x
<1>1. CASE useCache
  BY <1>1 DEF Released
<1>2. CASE ~useCache
  <2>1. PICK c \in Seq(Key) : c = << >>
    <3>1. << >> \in Seq(Key)
      OBVIOUS
    <3> QED
      BY <3>1
  <2>2. y = [x EXCEPT !.cache = EmptyMap, !.order = c, !.filled = x.filled, !.deferring = x.deferring]
    BY <1>2, <2>1 DEF Released, Cleared, Transaction
  <2> QED
    BY <1>2, <2>1, <2>2, EmptyMapType, Fields DEF Transaction
<1> QED
  BY <1>1, <1>2

\* The first scan fills the cache; a later one finds it filled.
LEMMA FilledIs ==
  ASSUME NEW x \in Transaction, Enumerates(x.order, x.cache), chain \in Map, NEW y \in Filled(x)
  PROVE  /\ y \in Transaction /\ Enumerates(y.order, y.cache)
         /\ y.puts = x.puts /\ y.removes = x.removes /\ y.pending = x.pending
         /\ y.filled /\ y.deferring
         /\ useCache /\ x.filled => y.cache = x.cache /\ y.order = x.order
         /\ ~(useCache /\ x.filled) =>
              \E m \in Map : /\ y.cache = Effect(m, x.puts \o x.removes)
                             /\ useCache => \A k \in Key : x.cache[k] # Absent => m[k] = x.cache[k]
<1> DEFINE start == IF useCache THEN x ELSE [Cleared(x) EXCEPT !.filled = FALSE]
           ready == [start EXCEPT !.filled = TRUE, !.deferring = TRUE]
           Fill(rows) == Reapply(x, [k \in Key |->
                           IF start.cache[k] # Absent THEN start.cache[k] ELSE rows[k]])
           All == {Caching(ready, Fill(rows)) : rows \in Answers(chain, EmptyMap)}
<1>0. Filled(x) = IF start.filled THEN {ready} ELSE UNION All
  BY Zenon DEF Filled
<1>1. start = IF useCache THEN x ELSE [Cleared(x) EXCEPT !.filled = FALSE]
  OBVIOUS
<1>3. ready = [start EXCEPT !.filled = TRUE, !.deferring = TRUE]
  OBVIOUS
<1> HIDE DEF start, ready
<1>2. /\ start \in Transaction /\ start.puts = x.puts /\ start.removes = x.removes
      /\ start.pending = x.pending /\ Enumerates(start.order, start.cache)
      /\ useCache => start = x
      /\ ~useCache => ~start.filled
  <2>1. CASE useCache
    BY <1>1, <2>1
  <2>2. CASE ~useCache
    <3>1. PICK c : c = Cleared(x)
      OBVIOUS
    <3>2. /\ c \in Transaction /\ c.puts = x.puts /\ c.removes = x.removes /\ c.pending = x.pending
          /\ Enumerates(c.order, c.cache)
      <4>1. PICK s \in Seq(Key) : s = << >>
        <5>1. << >> \in Seq(Key)
          OBVIOUS
        <5> QED
          BY <5>1
      <4>2. c = [x EXCEPT !.cache = EmptyMap, !.order = s, !.filled = x.filled,
                          !.deferring = x.deferring]
        BY <3>1, <4>1 DEF Cleared, Transaction
      <4> QED
        BY <4>1, <4>2, EmptyMapType, Fields DEF Transaction
    <3>3. start = [c EXCEPT !.filled = FALSE]
      BY <1>1, <2>2, <3>1
    <3> QED
      BY <2>2, <3>2, <3>3 DEF Transaction
  <2> QED
    BY <2>1, <2>2
<1>4. /\ ready \in Transaction /\ ready.puts = x.puts /\ ready.removes = x.removes
      /\ ready.pending = x.pending /\ ready.filled /\ ready.deferring
      /\ ready.cache = start.cache /\ ready.order = start.order
  BY <1>2, <1>3 DEF Transaction
<1>5. CASE start.filled
  <2>1. y = ready
    BY <1>0, <1>5
  <2> QED
    BY <1>2, <1>4, <1>5, <2>1
<1>6. CASE ~start.filled
  <2>0. y \in UNION All
    <3> HIDE DEF All
    <3> QED
      BY <1>0, <1>6
  <2>1. PICK rows \in Answers(chain, EmptyMap) : y \in Caching(ready, Fill(rows))
    <3> HIDE DEF Fill
    <3> QED
      BY <2>0
  <2>2. rows \in Map
    BY EmptyMapType DEF Answers
  <2>3. PICK m : m = [k \in Key |-> IF start.cache[k] # Absent THEN start.cache[k] ELSE rows[k]]
    OBVIOUS
  <2>4. m \in Map
    BY <1>2, <2>2, <2>3 DEF Map, Transaction
  <2>5. PICK e : e = Effect(m, x.puts \o x.removes)
    OBVIOUS
  <2>6. y \in Caching(ready, e)
    BY <2>1, <2>3, <2>5 DEF Reapply
  <2>7. e \in Map
    <3>1. x.puts \o x.removes \in Seq(Op)
      BY DEF Transaction
    <3> QED
      BY <2>4, <2>5, <3>1, EffectType
  <2>8. y.cache = Effect(m, x.puts \o x.removes)
    BY <1>4, <2>5, <2>6, <2>7, CachingType
  <2>9. useCache => \A k \in Key : x.cache[k] # Absent => m[k] = x.cache[k]
    BY <1>2, <2>3
  <2>10. ~(useCache /\ x.filled)
    BY <1>2, <1>6
  <2> QED
    BY <1>4, <2>4, <2>6, <2>7, <2>8, <2>9, <2>10, CachingType
<1> QED
  BY <1>5, <1>6

-----------------------------------------------------------------------------
(***************************************************************************)
(* The variables have their types.  A scan that returned a row is at a     *)
(* position.                                                               *)
(***************************************************************************)
ContractOk == chain \in Map /\ keyList \in Seq(Key) /\ Enumerates(keyList, chain)

TxOk == /\ tx \in Transaction \cup {NoTx}
        /\ InTransaction => Enumerates(tx.order, tx.cache)

CursorOk(c, g) == /\ c.position \in Nat \cup {None}
                  /\ c.mode = "scan" /\ g.row # NoRow => c.position # None

ScansOk == /\ cursor \in [Handler -> Cursor] /\ heard \in [Handler -> Heard]
           /\ \A h \in Handler : CursorOk(cursor[h], heard[h])

ClientOk == seen \in [Key -> Value \cup {Absent, Unread}] /\ stmts \in Seq(Op)

TypeInv == useCache \in BOOLEAN /\ ContractOk /\ TxOk /\ ScansOk /\ ClientOk

LEMMA NoneIs == None \in Int /\ None \notin Nat /\ None + 1 = 0
BY DEF None

LEMMA TypeInvIs == TypeInv => TypeOK
BY DEF TypeInv, TypeOK, ContractOk, TxOk, ScansOk, ClientOk

LEMMA InTx == ASSUME TxOk, InTransaction PROVE tx \in Transaction /\ Enumerates(tx.order, tx.cache)
BY DEF TxOk, InTransaction

LEMMA ApplyType ==
  ASSUME ContractOk, NEW ops \in Seq(Op), Apply(ops)
  PROVE  ContractOk'
<1>1. chain' \in Map
  BY EffectType DEF ContractOk, Apply
<1>2. keyList' \in Seq(Key) /\ Enumerates(keyList', chain')
  BY ListAfterAllEnumerates DEF ContractOk, Apply
<1> QED
  BY <1>1, <1>2 DEF ContractOk

LEMMA EnumeratesSame == ASSUME TxOk, tx' = tx PROVE TxOk'
BY DEF TxOk, InTransaction, Enumerates, Keys

LEMMA RowFields ==
  ASSUME NEW r \in Row
  PROVE  r \notin {NoRow, EndOfFile} /\ r.key \in Key /\ r.value \in Value
BY RowAssumption DEF Row

LEMMA CursorFields ==
  ASSUME NEW c \in Cursor
  PROVE  /\ c.mode \in {"closed", "scan", "pos"} /\ c.position \in Int
         /\ c.rows \in Seq(Row)
BY DEF Cursor

LEMMA HeardFields ==
  ASSUME NEW g \in Heard
  PROVE  /\ g.row \in Row \cup {NoRow, EndOfFile} /\ g.got \in Seq(Key)
         /\ g.due \in SUBSET Key /\ g.saved \in SUBSET Ref
BY DEF Heard

LEMMA RefFields == ASSUME NEW r \in Ref PROVE r.index \in Nat /\ r.key \in Key
BY DEF Ref

\* A cursor and what its handler told, from their parts.
LEMMA CursorType ==
  ASSUME NEW m \in {"closed", "scan", "pos"}, NEW p \in Int, NEW rs \in Seq(Row)
  PROVE  [mode |-> m, position |-> p, rows |-> rs] \in Cursor
BY DEF Cursor

LEMMA HeardType ==
  ASSUME NEW r \in Row \cup {NoRow, EndOfFile}, NEW g \in Seq(Key), NEW d \in SUBSET Key,
         NEW s \in SUBSET Ref
  PROVE  [row |-> r, got |-> g, due |-> d, saved |-> s] \in Heard
BY DEF Heard

LEMMA ForgetPositionsIs ==
  ASSUME ScansOk, ForgetPositions
  PROVE  /\ ScansOk' /\ cursor' = cursor
         /\ \A h \in Handler :
              /\ heard'[h].row = heard[h].row /\ heard'[h].got = heard[h].got
              /\ heard'[h].due = heard[h].due
              /\ cursor[h].mode = "pos" => heard'[h] = heard[h]
              /\ cursor[h].mode # "pos" => heard'[h].saved = {}
<1>1. /\ cursor' = cursor
      /\ heard' = [h \in Handler |-> IF cursor[h].mode = "pos" THEN heard[h]
                                     ELSE [heard[h] EXCEPT !.saved = {}]]
  BY DEF ForgetPositions
<1>2. ASSUME NEW h \in Handler
      PROVE  /\ heard'[h] \in Heard
             /\ heard'[h].row = heard[h].row /\ heard'[h].got = heard[h].got
             /\ heard'[h].due = heard[h].due
             /\ cursor[h].mode = "pos" => heard'[h] = heard[h]
             /\ cursor[h].mode # "pos" => heard'[h].saved = {}
  <2>1. heard[h] \in Heard
    BY DEF ScansOk
  <2>2. CASE cursor[h].mode = "pos"
    <3>1. heard'[h] = heard[h]
      BY <1>1, <2>2
    <3> QED
      BY <2>1, <2>2, <3>1
  <2>3. CASE cursor[h].mode # "pos"
    <3>1. PICK g : g = heard[h]
      OBVIOUS
    <3>2. heard'[h] = [g EXCEPT !.saved = {}]
      BY <1>1, <2>3, <3>1
    <3>3. /\ [g EXCEPT !.saved = {}] \in Heard
          /\ [g EXCEPT !.saved = {}].row = g.row /\ [g EXCEPT !.saved = {}].got = g.got
          /\ [g EXCEPT !.saved = {}].due = g.due /\ [g EXCEPT !.saved = {}].saved = {}
      BY <2>1, <3>1 DEF Heard
    <3> QED
      BY <2>3, <3>1, <3>2, <3>3
  <2> QED
    BY <2>2, <2>3
<1>3. heard' \in [Handler -> Heard]
  BY <1>1, <1>2
<1>4. \A h \in Handler : CursorOk(cursor'[h], heard'[h])
  BY <1>1, <1>2 DEF ScansOk, CursorOk
<1> QED
  BY <1>1, <1>2, <1>3, <1>4 DEF ScansOk

LEMMA ScansSame ==
  ASSUME ScansOk, UNCHANGED <<cursor, heard>>
  PROVE  ScansOk'
BY DEF ScansOk

LEMMA RecordIs ==
  ASSUME ClientOk, NEW op \in Op, Record(op)
  PROVE  /\ ClientOk' /\ stmts' = Append(stmts, op)
         /\ \A k \in Key : seen'[k] = IF k = op.key THEN Outcome(op) ELSE seen[k]
<1>1. stmts' = Append(stmts, op) /\ seen' = [seen EXCEPT ![op.key] = Outcome(op)]
  BY DEF Record
<1>2. stmts' \in Seq(Op)
  <2>1. stmts \in Seq(Op)
    BY DEF ClientOk
  <2> QED
    BY <1>1, <2>1
<1>3. op.key \in Key /\ Outcome(op) \in Value \cup {Absent}
  BY DEF Op, Outcome
<1> QED
  BY <1>1, <1>2, <1>3 DEF ClientOk

LEMMA ForgetClientIs ==
  ASSUME ForgetClient
  PROVE  ClientOk' /\ stmts' = << >> /\ \A k \in Key : seen'[k] = Unread
<1>1. << >> \in Seq(Op)
  OBVIOUS
<1> QED
  BY <1>1 DEF ForgetClient, ClientOk

\* The rows of a scan.
LEMMA ListingIs ==
  ASSUME ContractOk
  PROVE  /\ Listing \in Seq(Row) /\ Len(Listing) = Len(keyList)
         /\ \A i \in DOMAIN Listing : Listing[i].key = keyList[i]
<1>1. PICK n \in Nat : n = Len(keyList) /\ DOMAIN keyList = 1..n
  BY DEF ContractOk
<1>2. ASSUME NEW i \in 1..n PROVE keyList[i] \in Key /\ chain[keyList[i]] \in Value
  <2>1. keyList[i] \in Range(keyList)
    BY <1>1 DEF Range
  <2>2. keyList[i] \in Keys(chain)
    BY <2>1 DEF ContractOk, Enumerates
  <2> QED
    BY <2>2 DEF Keys, ContractOk, Map
<1>3. Listing = [i \in 1..n |-> [key |-> keyList[i], value |-> chain[keyList[i]]]]
  BY <1>1 DEF Listing
<1>4. \A i \in 1..n : [key |-> keyList[i], value |-> chain[keyList[i]]] \in Row
  BY <1>2 DEF Row
<1>5. Listing \in [1..n -> Row]
  BY <1>3, <1>4
<1>6. Listing \in Seq(Row) /\ Len(Listing) = n
  BY <1>1, <1>5
<1> QED
  BY <1>1, <1>3, <1>6

LEMMA AnswersAre ==
  ASSUME ContractOk, NEW rows \in Answers(Listing, << >>)
  PROVE  /\ rows \in Seq(Row)
         /\ \A i, j \in DOMAIN rows : rows[i].key = rows[j].key => i = j
<1>1. CASE rows = Listing
  <2>1. PICK n \in Nat : n = Len(keyList) /\ DOMAIN keyList = 1..n
    BY DEF ContractOk
  <2>2. rows \in Seq(Row) /\ DOMAIN rows = 1..n /\ \A i \in 1..n : rows[i].key = keyList[i]
    BY <1>1, <2>1, ListingIs
  <2> QED
    BY <2>1, <2>2 DEF ContractOk, Enumerates
<1>2. CASE rows = << >>
  <2>1. << >> \in Seq(Row) /\ DOMAIN << >> = {}
    OBVIOUS
  <2> QED
    BY <1>2, <2>1
<1> QED
  BY <1>1, <1>2 DEF Answers

\* find_row returns the row at a position of the cache or of the vector.
LEMMA FindRowIs ==
  ASSUME TxOk, ScansOk, NEW h \in Handler, NEW i \in Nat, NEW row, row = FindRow(h, i)
  PROVE  /\ row \in Row \cup {EndOfFile}
         /\ InTransaction =>
              \/ row = EndOfFile /\ i >= Len(tx.order)
              \/ /\ row \in Row /\ i + 1 \in 1..Len(tx.order)
                 /\ row.key = tx.order[i + 1] /\ row.value = tx.cache[row.key]
                 /\ row.key \in Keys(tx.cache)
         /\ ~InTransaction =>
              \/ row = EndOfFile /\ i >= Len(cursor[h].rows)
              \/ /\ row \in Row /\ i + 1 \in 1..Len(cursor[h].rows)
                 /\ row = cursor[h].rows[i + 1]
<1>1. CASE InTransaction
  <2>1. tx \in Transaction /\ Enumerates(tx.order, tx.cache)
    BY <1>1, InTx
  <2>2. PICK n \in Nat : n = Len(tx.order) /\ DOMAIN tx.order = 1..n
    BY <2>1, Fields
  <2>3. CASE i >= n
    BY <1>1, <2>2, <2>3 DEF FindRow
  <2>4. CASE ~(i >= n)
    <3>1. PICK k : k = tx.order[i + 1]
      OBVIOUS
    <3>2. i + 1 \in 1..n
      BY <2>2, <2>4
    <3>3. k \in Range(tx.order)
      BY <2>2, <3>1, <3>2 DEF Range
    <3>4. k \in Keys(tx.cache)
      BY <2>1, <3>3 DEF Enumerates
    <3>5. k \in Key /\ tx.cache[k] \in Value
      BY <2>1, <3>4, Fields DEF Keys, Map
    <3>6. row = [key |-> k, value |-> tx.cache[k]]
      BY <1>1, <2>2, <2>4, <3>1 DEF FindRow
    <3>7. row \in Row /\ row.key = k /\ row.value = tx.cache[k]
      BY <3>5, <3>6 DEF Row
    <3> QED
      BY <1>1, <2>2, <3>1, <3>2, <3>4, <3>7
  <2> QED
    BY <2>3, <2>4
<1>2. CASE ~InTransaction
  <2>1. cursor[h].rows \in Seq(Row)
    BY CursorFields DEF ScansOk
  <2>2. CASE i >= Len(cursor[h].rows)
    BY <1>2, <2>2 DEF FindRow
  <2>3. CASE ~(i >= Len(cursor[h].rows))
    <3>1. i + 1 \in 1..Len(cursor[h].rows)
      BY <2>1, <2>3
    <3>2. cursor[h].rows[i + 1] \in Row
      BY <2>1, <3>1
    <3>3. row = cursor[h].rows[i + 1]
      BY <1>2, <2>3 DEF FindRow
    <3> QED
      BY <1>2, <3>1, <3>2, <3>3
  <2> QED
    BY <2>2, <2>3
<1> QED
  BY <1>1, <1>2

LEMMA FetchedIs ==
  ASSUME TxOk, ScansOk, ClientOk, NEW h \in Handler, NEW row \in Row \cup {EndOfFile},
         Fetched(h, row)
  PROVE  /\ heard' \in [Handler -> Heard]
         /\ \A g \in Handler \ {h} : heard'[g] = heard[g]
         /\ heard'[h].row = row /\ heard'[h].due = heard[h].due
         /\ heard'[h].saved = heard[h].saved
         /\ heard'[h].got = IF row = EndOfFile \/ cursor[h].mode = "pos" THEN heard[h].got
                            ELSE Append(heard[h].got, row.key)
         /\ seen' \in [Key -> Value \cup {Absent, Unread}]
         /\ ~InTransaction => seen' = seen
         /\ InTransaction => \A k \in Key :
              seen'[k] = IF row # EndOfFile
                         THEN IF k = row.key THEN row.value ELSE seen[k]
                         ELSE IF cursor[h].mode # "pos" /\ k \notin Range(heard[h].got)
                              THEN Absent ELSE seen[k]
<1>1. PICK g : g = heard[h] /\ g \in Heard
  BY DEF ScansOk
<1>2. PICK got : got = IF row = EndOfFile \/ cursor[h].mode = "pos" THEN g.got
                      ELSE Append(g.got, row.key)
  OBVIOUS
<1>3. got \in Seq(Key)
  BY <1>1, <1>2, HeardFields, RowFields
<1>4. heard' = [heard EXCEPT ![h].row = row, ![h].got = got]
  BY <1>1, <1>2 DEF Fetched
<1>5. heard' = [heard EXCEPT ![h] = [g EXCEPT !.row = row, !.got = got]]
  BY <1>1, <1>4 DEF ScansOk, Heard
<1>6. PICK z : z = [g EXCEPT !.row = row, !.got = got]
  OBVIOUS
<1>7. z \in Heard /\ z.row = row /\ z.got = got /\ z.due = g.due /\ z.saved = g.saved
  BY <1>1, <1>3, <1>6 DEF Heard
<1>8. heard' = [heard EXCEPT ![h] = z]
  BY <1>5, <1>6
<1>9. /\ heard' \in [Handler -> Heard] /\ heard'[h] = z
      /\ \A f \in Handler \ {h} : heard'[f] = heard[f]
  BY <1>7, <1>8 DEF ScansOk
<1>10. /\ seen' \in [Key -> Value \cup {Absent, Unread}]
       /\ ~InTransaction => seen' = seen
       /\ InTransaction => \A k \in Key :
              seen'[k] = IF row # EndOfFile
                         THEN IF k = row.key THEN row.value ELSE seen[k]
                         ELSE IF cursor[h].mode # "pos" /\ k \notin Range(heard[h].got)
                              THEN Absent ELSE seen[k]
  <2>1. CASE ~InTransaction
    BY <2>1 DEF Fetched, ClientOk
  <2>2. CASE InTransaction /\ row # EndOfFile
    <3>1. seen' = [seen EXCEPT ![row.key] = row.value]
      BY <2>2 DEF Fetched, See
    <3>2. row.key \in Key /\ row.value \in Value
      BY <2>2, RowFields
    <3> QED
      BY <2>2, <3>1, <3>2 DEF ClientOk
  <2>3. CASE InTransaction /\ row = EndOfFile /\ cursor[h].mode = "pos"
    BY <2>3 DEF Fetched, ClientOk
  <2>4. CASE InTransaction /\ row = EndOfFile /\ cursor[h].mode # "pos"
    <3>1. seen' = [k \in Key |-> IF k \in Range(heard[h].got) THEN seen[k] ELSE Absent]
      BY <2>4 DEF Fetched
    <3> QED
      BY <2>4, <3>1 DEF ClientOk
  <2> QED
    BY <2>1, <2>2, <2>3, <2>4
<1> QED
  BY <1>1, <1>2, <1>7, <1>9, <1>10

LEMMA TxOkNext ==
  ASSUME tx' \in Transaction, Enumerates(tx'.order, tx'.cache)
  PROVE  TxOk'
BY DEF TxOk

LEMMA ClientSame == ASSUME ClientOk, UNCHANGED client PROVE ClientOk'
BY DEF ClientOk, client

LEMMA ContractSame == ASSUME ContractOk, UNCHANGED contract PROVE ContractOk'
BY DEF ContractOk, contract, Enumerates, Keys

LEMMA CommittedType ==
  ASSUME NEW x \in Transaction
  PROVE  Committed(x) \in Seq(Op)
<1>1. x.puts \in Seq(Op) /\ x.removes \in Seq(Op)
  BY Fields
<1>2. x.puts \o x.removes \in Seq(Op)
  BY <1>1
<1> QED
  BY <1>2 DEF Committed

\* index_read.
LEMMA ReadType ==
  ASSUME TypeInv, InTransaction, NEW k \in Key
  PROVE  /\ Reapply(tx, [tx.cache EXCEPT ![k] = chain[k]]) \in Map
         /\ [tx.cache EXCEPT ![k] = chain[k]] \in Map
<1>1. tx.cache \in Map /\ tx.puts \in Seq(Op) /\ tx.removes \in Seq(Op)
  BY InTx, Fields DEF TypeInv
<1>2. chain[k] \in Value \cup {Absent}
  BY DEF TypeInv, ContractOk, Map
<1>3. [tx.cache EXCEPT ![k] = chain[k]] \in Map
  BY <1>1, <1>2 DEF Map
<1>4. tx.puts \o tx.removes \in Seq(Op)
  BY <1>1
<1> QED
  BY <1>3, <1>4, EffectType DEF Reapply

\* A row that index_read returned was in the cache or is put in it.
LEMMA IndexReadIs ==
  ASSUME TypeInv, NEW h \in Handler, NEW k \in Key, IndexRead(h, k)
  PROVE  /\ InTransaction /\ ~IsOpen(h)
         /\ tx' \in Transaction /\ Enumerates(tx'.order, tx'.cache)
         /\ tx'.puts = tx.puts /\ tx'.removes = tx.removes /\ tx'.pending = tx.pending
         /\ tx'.filled = tx.filled /\ tx'.deferring = tx.deferring
         /\ IF AllClosed THEN ForgetPositions ELSE UNCHANGED <<cursor, heard>>
         /\ UNCHANGED <<contract, stmts>>
         /\ \E v \in Value \cup {Absent} :
              /\ seen' = [seen EXCEPT ![k] = v]
              /\ useCache =>
                   \/ v = tx.cache[k] /\ v # Absent /\ tx'.cache = tx.cache
                   \/ v = Absent /\ tx.cache[k] = Absent /\ tx' = tx
                   \/ /\ tx.cache[k] = Absent /\ v = tx'.cache[k]
                      /\ tx'.cache = Effect([tx.cache EXCEPT ![k] = chain[k]], tx.puts \o tx.removes)
<1> DEFINE hit  == useCache /\ tx.cache[k] # Absent
           read == IF hit THEN tx.cache ELSE Reapply(tx, [tx.cache EXCEPT ![k] = chain[k]])
<1>1. /\ InTransaction /\ ~IsOpen(h)
      /\ IF AllClosed THEN ForgetPositions ELSE UNCHANGED <<cursor, heard>>
      /\ UNCHANGED <<contract, stmts>>
  BY DEF IndexRead
<1>2. \/ /\ See(k, read[k]) /\ \E x \in Caching(tx, read) : tx' = Released(x)
      \/ ~hit /\ See(k, Absent) /\ UNCHANGED tx
  BY DEF IndexRead
<1>3. tx \in Transaction /\ Enumerates(tx.order, tx.cache) /\ tx.cache \in Map
  BY <1>1, InTx, Fields DEF TypeInv
<1>4. read \in Map
  BY <1>1, <1>3, ReadType
<1>5. read = IF hit THEN tx.cache
             ELSE Effect([tx.cache EXCEPT ![k] = chain[k]], tx.puts \o tx.removes)
  BY DEF Reapply
<1> HIDE DEF read
<1>6. CASE See(k, read[k]) /\ \E x \in Caching(tx, read) : tx' = Released(x)
  <2>1. PICK x \in Caching(tx, read) : tx' = Released(x)
    BY <1>6
  <2>2. /\ x \in Transaction /\ Enumerates(x.order, x.cache) /\ x.cache = read
        /\ x.puts = tx.puts /\ x.removes = tx.removes /\ x.pending = tx.pending
        /\ x.filled = tx.filled /\ x.deferring = tx.deferring
    BY <1>3, <1>4, CachingType
  <2>3. PICK y : y = tx' /\ y = Released(x)
    BY <2>1
  <2>4. /\ y \in Transaction /\ Enumerates(y.order, y.cache)
        /\ y.puts = x.puts /\ y.removes = x.removes /\ y.pending = x.pending
        /\ y.filled = x.filled /\ y.deferring = x.deferring
        /\ useCache => y = x
    BY <2>2, <2>3, ReleasedIs
  <2>5. read[k] \in Value \cup {Absent}
    BY <1>4 DEF Map
  <2>6. seen' = [seen EXCEPT ![k] = read[k]]
    BY <1>6 DEF See
  <2>7. useCache => y.cache = read
    BY <2>2, <2>4
  <2>8. useCache =>
           \/ read[k] = tx.cache[k] /\ read[k] # Absent /\ y.cache = tx.cache
           \/ /\ tx.cache[k] = Absent /\ read[k] = y.cache[k]
              /\ y.cache = Effect([tx.cache EXCEPT ![k] = chain[k]], tx.puts \o tx.removes)
    BY <1>5, <2>7
  <2> QED
    BY <1>1, <2>2, <2>3, <2>4, <2>5, <2>6, <2>8
<1>7. CASE ~hit /\ See(k, Absent) /\ UNCHANGED tx
  <2>1. tx' \in Transaction /\ Enumerates(tx'.order, tx'.cache)
    BY <1>3, <1>7
  <2>2. seen' = [seen EXCEPT ![k] = Absent]
    BY <1>7 DEF See
  <2> QED
    BY <1>1, <1>7, <2>1, <2>2
<1> QED
  BY <1>2, <1>6, <1>7

\* rnd_init in a transaction.
LEMMA RndInitIs ==
  ASSUME TypeInv, NEW h \in Handler, NEW mode \in {"scan", "pos"}, RndInit(h, mode)
  PROVE  /\ InTransaction /\ CanInit(h, mode) /\ tx' \in Filled(tx)
         /\ tx' \in Transaction /\ Enumerates(tx'.order, tx'.cache)
         /\ tx'.puts = tx.puts /\ tx'.removes = tx.removes /\ tx'.pending = tx.pending
         /\ tx'.filled /\ tx'.deferring
         /\ useCache /\ tx.filled => tx'.cache = tx.cache /\ tx'.order = tx.order
         /\ ~(useCache /\ tx.filled) =>
              \E m \in Map : /\ tx'.cache = Effect(m, tx.puts \o tx.removes)
                             /\ useCache => \A k \in Key : tx.cache[k] # Absent => m[k] = tx.cache[k]
         /\ cursor' \in [Handler -> Cursor] /\ heard' \in [Handler -> Heard]
         /\ \A g \in Handler \ {h} : cursor'[g] = cursor[g] /\ heard'[g] = heard[g]
         /\ cursor'[h].mode = mode /\ cursor'[h].position = None
         /\ cursor'[h].rows = cursor[h].rows
         /\ heard'[h].row = NoRow /\ heard'[h].got = << >>
         /\ heard'[h].due = Keys(tx'.cache) /\ heard'[h].saved = heard[h].saved
         /\ UNCHANGED <<contract, client>>
<1>1. /\ InTransaction /\ CanInit(h, mode) /\ tx' \in Filled(tx)
      /\ UNCHANGED <<contract, client>>
      /\ cursor' = [cursor EXCEPT ![h].mode = mode, ![h].position = None, ![h].rows = cursor[h].rows]
      /\ heard' = [heard EXCEPT ![h].row = NoRow, ![h].got = << >>, ![h].due = Keys(tx'.cache)]
  BY DEF RndInit, Started, Expecting
<1>2. tx \in Transaction /\ Enumerates(tx.order, tx.cache) /\ chain \in Map
  BY <1>1, InTx DEF TypeInv, ContractOk
<1>3. PICK y : y = tx' /\ y \in Filled(tx)
  BY <1>1
<1>4. /\ y \in Transaction /\ Enumerates(y.order, y.cache)
      /\ y.puts = tx.puts /\ y.removes = tx.removes /\ y.pending = tx.pending
      /\ y.filled /\ y.deferring
      /\ useCache /\ tx.filled => y.cache = tx.cache /\ y.order = tx.order
      /\ ~(useCache /\ tx.filled) =>
           \E m \in Map : /\ y.cache = Effect(m, tx.puts \o tx.removes)
                          /\ useCache => \A k \in Key : tx.cache[k] # Absent => m[k] = tx.cache[k]
  BY <1>2, <1>3, FilledIs
<1>5. PICK c : c = cursor[h] /\ c \in Cursor
  BY DEF TypeInv, ScansOk
<1>6. PICK d : d = [c EXCEPT !.mode = mode, !.position = None]
  OBVIOUS
<1>7. cursor' = [cursor EXCEPT ![h] = d]
  BY <1>1, <1>5, <1>6 DEF TypeInv, ScansOk, Cursor
<1>8. /\ d \in Cursor /\ d.mode = mode /\ d.position = None /\ d.rows = c.rows
  <2>1. None \in Int
    BY NoneIs
  <2>2. mode \in {"closed", "scan", "pos"}
    OBVIOUS
  <2> QED
    BY <1>5, <1>6, <2>1, <2>2 DEF Cursor
<1>9. /\ cursor' \in [Handler -> Cursor] /\ cursor'[h] = d
      /\ \A g \in Handler \ {h} : cursor'[g] = cursor[g]
  BY <1>7, <1>8 DEF TypeInv, ScansOk
<1>10. PICK e : e = heard[h] /\ e \in Heard
  BY DEF TypeInv, ScansOk
<1>11. PICK due \in SUBSET Key : due = Keys(y.cache)
  BY DEF Keys
<1>12. PICK f : f = [e EXCEPT !.row = NoRow, !.got = << >>, !.due = due]
  OBVIOUS
<1>13. heard' = [heard EXCEPT ![h] = f]
  BY <1>1, <1>3, <1>10, <1>11, <1>12 DEF TypeInv, ScansOk, Heard
<1>14. f \in Heard /\ f.row = NoRow /\ f.got = << >> /\ f.due = due /\ f.saved = e.saved
  <2>1. << >> \in Seq(Key)
    OBVIOUS
  <2> QED
    BY <1>10, <1>12, <2>1 DEF Heard
<1>15. /\ heard' \in [Handler -> Heard] /\ heard'[h] = f
       /\ \A g \in Handler \ {h} : heard'[g] = heard[g]
  BY <1>13, <1>14 DEF TypeInv, ScansOk
<1> QED
  BY <1>1, <1>3, <1>4, <1>5, <1>8, <1>9, <1>10, <1>11, <1>14, <1>15

\* rnd_init outside of a transaction.
LEMMA AutoRndInitIs ==
  ASSUME TypeInv, NEW h \in Handler, NEW mode \in {"scan", "pos"}, AutoRndInit(h, mode)
  PROVE  /\ ~InTransaction /\ CanInit(h, mode)
         /\ cursor' \in [Handler -> Cursor] /\ heard' \in [Handler -> Heard]
         /\ \A g \in Handler \ {h} : cursor'[g] = cursor[g] /\ heard'[g] = heard[g]
         /\ cursor'[h].mode = mode /\ cursor'[h].position = None
         /\ heard'[h].row = NoRow /\ heard'[h].got = << >> /\ heard'[h].saved = heard[h].saved
         /\ \E rows \in Seq(Row) :
              /\ cursor'[h].rows = cursor[h].rows \o rows
              /\ heard'[h].due = {rows[i].key : i \in DOMAIN rows}
              /\ \A i, j \in DOMAIN rows : rows[i].key = rows[j].key => i = j
         /\ UNCHANGED <<contract, tx, client>>
<1>1. PICK rows \in Answers(Listing, << >>) :
        /\ Started(h, mode, cursor[h].rows \o rows)
        /\ Expecting(h, {rows[i].key : i \in DOMAIN rows})
  BY DEF AutoRndInit
<1>2. rows \in Seq(Row) /\ \A i, j \in DOMAIN rows : rows[i].key = rows[j].key => i = j
  BY AnswersAre DEF TypeInv
<1>3. PICK c : c = cursor[h] /\ c \in Cursor
  BY DEF TypeInv, ScansOk
<1>4. PICK both \in Seq(Row) : both = c.rows \o rows
  <2>1. c.rows \in Seq(Row)
    BY <1>3, CursorFields
  <2>2. c.rows \o rows \in Seq(Row)
    BY <1>2, <2>1
  <2> QED
    BY <2>2
<1>5. PICK d : d = [c EXCEPT !.mode = mode, !.position = None, !.rows = both]
  OBVIOUS
<1>6. cursor' = [cursor EXCEPT ![h] = d]
  BY <1>1, <1>3, <1>4, <1>5 DEF Started, TypeInv, ScansOk, Cursor
<1>7. /\ d \in Cursor /\ d.mode = mode /\ d.position = None /\ d.rows = both
  <2>1. None \in Int
    BY NoneIs
  <2>2. mode \in {"closed", "scan", "pos"}
    OBVIOUS
  <2> QED
    BY <1>3, <1>4, <1>5, <2>1, <2>2 DEF Cursor
<1>8. /\ cursor' \in [Handler -> Cursor] /\ cursor'[h] = d
      /\ \A g \in Handler \ {h} : cursor'[g] = cursor[g]
  BY <1>6, <1>7 DEF TypeInv, ScansOk
<1>9. PICK e : e = heard[h] /\ e \in Heard
  BY DEF TypeInv, ScansOk
<1>10. PICK due \in SUBSET Key : due = {rows[i].key : i \in DOMAIN rows}
  <2>1. \A i \in DOMAIN rows : rows[i] \in Row
    BY <1>2
  <2>2. \A i \in DOMAIN rows : rows[i].key \in Key
    BY <2>1, RowFields
  <2> QED
    BY <2>2
<1>11. PICK f : f = [e EXCEPT !.row = NoRow, !.got = << >>, !.due = due]
  OBVIOUS
<1>12. heard' = [heard EXCEPT ![h] = f]
  BY <1>1, <1>9, <1>10, <1>11 DEF Expecting, TypeInv, ScansOk, Heard
<1>13. f \in Heard /\ f.row = NoRow /\ f.got = << >> /\ f.due = due /\ f.saved = e.saved
  <2>1. << >> \in Seq(Key)
    OBVIOUS
  <2> QED
    BY <1>9, <1>11, <2>1 DEF Heard
<1>14. /\ heard' \in [Handler -> Heard] /\ heard'[h] = f
       /\ \A g \in Handler \ {h} : heard'[g] = heard[g]
  BY <1>12, <1>13 DEF TypeInv, ScansOk
<1>15. ~InTransaction /\ CanInit(h, mode) /\ UNCHANGED <<contract, tx, client>>
  BY DEF AutoRndInit
<1> QED
  BY <1>2, <1>3, <1>4, <1>7, <1>8, <1>9, <1>10, <1>13, <1>14, <1>15

LEMMA RndNextIs ==
  ASSUME TypeInv, NEW h \in Handler, RndNext(h)
  PROVE  /\ cursor[h].mode = "scan" /\ heard[h].row # EndOfFile
         /\ cursor[h].position + 1 \in Nat
         /\ cursor' \in [Handler -> Cursor]
         /\ \A g \in Handler \ {h} : cursor'[g] = cursor[g]
         /\ cursor'[h].mode = "scan" /\ cursor'[h].position = cursor[h].position + 1
         /\ cursor'[h].rows = cursor[h].rows
         /\ FindRow(h, cursor[h].position + 1) \in Row \cup {EndOfFile}
         /\ Fetched(h, FindRow(h, cursor[h].position + 1))
         /\ UNCHANGED <<contract, tx, stmts>>
<1>1. PICK c : c = cursor[h] /\ c \in Cursor /\ CursorOk(c, heard[h])
  BY DEF TypeInv, ScansOk
<1>2. PICK p \in Nat : p = c.position + 1
  BY <1>1, NoneIs DEF CursorOk
<1>3. PICK d : d = [c EXCEPT !.position = p]
  OBVIOUS
<1>4. cursor' = [cursor EXCEPT ![h] = d]
  BY <1>1, <1>2, <1>3 DEF RndNext, TypeInv, ScansOk, Cursor
<1>5. d \in Cursor /\ d.mode = c.mode /\ d.position = p /\ d.rows = c.rows
  BY <1>1, <1>2, <1>3 DEF Cursor
<1>6. /\ cursor' \in [Handler -> Cursor] /\ cursor'[h] = d
      /\ \A g \in Handler \ {h} : cursor'[g] = cursor[g]
  BY <1>4, <1>5 DEF TypeInv, ScansOk
<1>7. FindRow(h, p) \in Row \cup {EndOfFile}
  BY <1>2, FindRowIs DEF TypeInv
<1>8. /\ cursor[h].mode = "scan" /\ heard[h].row # EndOfFile
      /\ Fetched(h, FindRow(h, p))
      /\ UNCHANGED <<contract, tx, stmts>>
  BY <1>1, <1>2 DEF RndNext
<1> QED
  BY <1>1, <1>2, <1>5, <1>6, <1>7, <1>8

LEMMA PositionIs ==
  ASSUME TypeInv, NEW h \in Handler, Position(h)
  PROVE  /\ cursor[h].mode = "scan" /\ heard[h].row \in Row /\ cursor[h].position \in Nat
         /\ InTransaction => tx.pending = << >>
         /\ heard' \in [Handler -> Heard]
         /\ \A g \in Handler \ {h} : heard'[g] = heard[g]
         /\ heard'[h].row = heard[h].row /\ heard'[h].got = heard[h].got
         /\ heard'[h].due = heard[h].due
         /\ \A r \in heard'[h].saved :
              r \in heard[h].saved \/ (r.index = cursor[h].position /\ r.key = heard[h].row.key)
         /\ UNCHANGED <<contract, tx, cursor, client>>
<1>1. PICK e : e = heard[h] /\ e \in Heard
  BY DEF TypeInv, ScansOk
<1>2. PICK p : p = cursor[h].position
  OBVIOUS
<1>3. /\ cursor[h].mode = "scan" /\ e.row \in Row
      /\ InTransaction => tx.pending = << >>
      /\ UNCHANGED <<contract, tx, cursor, client>>
      /\ heard' = [heard EXCEPT ![h].saved = @ \cup {[index |-> p, key |-> e.row.key]}]
  BY <1>1, <1>2 DEF Position
<1>4. p \in Nat
  BY <1>1, <1>2, <1>3, RowFields DEF TypeInv, ScansOk, CursorOk
<1>5. PICK r \in Ref : r = [index |-> p, key |-> e.row.key]
  BY <1>3, <1>4, RowFields DEF Ref
<1>6. PICK saved : saved = e.saved \cup {r}
  OBVIOUS
<1>7. saved \in SUBSET Ref
  BY <1>1, <1>6, HeardFields
<1>8. PICK f : f = [e EXCEPT !.saved = saved]
  OBVIOUS
<1>9. heard' = [heard EXCEPT ![h] = f]
  BY <1>1, <1>3, <1>5, <1>6, <1>8
<1>10. f \in Heard /\ f.row = e.row /\ f.got = e.got /\ f.due = e.due /\ f.saved = saved
  BY <1>1, <1>7, <1>8 DEF Heard
<1>11. /\ heard' \in [Handler -> Heard] /\ heard'[h] = f
       /\ \A g \in Handler \ {h} : heard'[g] = heard[g]
  BY <1>9, <1>10 DEF TypeInv, ScansOk
<1>12. r.index = p /\ r.key = e.row.key
  BY <1>5
<1>13. \A q \in saved : q \in e.saved \/ (q.index = p /\ q.key = e.row.key)
  BY <1>6, <1>12
<1> QED
  BY <1>1, <1>2, <1>3, <1>4, <1>10, <1>11, <1>13

LEMMA RndPosIs ==
  ASSUME TypeInv, NEW h \in Handler, NEW ref \in heard[h].saved, RndPos(h, ref)
  PROVE  /\ cursor[h].mode = "pos" /\ ref \in Ref /\ ref.index \in Nat /\ ref.key \in Key
         /\ InTransaction => \A i \in DOMAIN tx.pending : tx.pending[i].key # ref.key
         /\ FindRow(h, ref.index) \in Row \cup {EndOfFile}
         /\ Fetched(h, FindRow(h, ref.index))
         /\ UNCHANGED <<contract, tx, cursor, stmts>>
<1>1. ref \in Ref
  BY HeardFields DEF TypeInv, ScansOk
<1>2. ref.index \in Nat /\ ref.key \in Key
  BY <1>1, RefFields
<1>3. FindRow(h, ref.index) \in Row \cup {EndOfFile}
  BY <1>2, FindRowIs DEF TypeInv
<1> QED
  BY <1>1, <1>2, <1>3 DEF RndPos

ByPosition(h) == \E ref \in heard[h].saved : RndPos(h, ref)

LEMMA ByPositionIs ==
  ASSUME TypeInv, NEW h \in Handler, ByPosition(h)
  PROVE  /\ cursor[h].mode = "pos"
         /\ \E row \in Row \cup {EndOfFile} : Fetched(h, row)
         /\ UNCHANGED <<contract, tx, cursor, stmts>>
<1>1. PICK ref \in heard[h].saved : RndPos(h, ref)
  BY DEF ByPosition
<1> QED
  BY <1>1, RndPosIs

LEMMA RndEndIs ==
  ASSUME TypeInv, NEW h \in Handler, RndEnd(h)
  PROVE  /\ IsOpen(h)
         /\ cursor' \in [Handler -> Cursor] /\ heard' \in [Handler -> Heard]
         /\ \A g \in Handler \ {h} : cursor'[g] = cursor[g] /\ heard'[g] = heard[g]
         /\ cursor'[h].mode = "closed" /\ cursor'[h].position = None /\ cursor'[h].rows = << >>
         /\ heard'[h].row = NoRow
         /\ heard'[h].saved = IF InTransaction /\ tx.pending # << >> THEN {} ELSE heard[h].saved
         /\ ~InTransaction => tx' = tx
         /\ InTransaction =>
              /\ tx' \in Transaction /\ Enumerates(tx'.order, tx'.cache)
              /\ tx'.puts = tx.puts /\ tx'.removes = tx.removes \o tx.pending
              /\ tx'.pending = << >> /\ tx'.filled = tx.filled /\ ~tx'.deferring
              /\ useCache => /\ tx'.cache = Effect(tx.cache, tx.pending)
                             /\ Keys(tx'.cache) = Keys(tx.cache) => tx'.order = tx.order
         /\ UNCHANGED <<contract, client>>
<1>2. PICK s : s = IF InTransaction /\ tx.pending # << >> THEN {} ELSE heard[h].saved
  OBVIOUS
<1>3. s \in SUBSET Ref
  BY <1>2, HeardFields DEF TypeInv, ScansOk
<1>4. PICK c : c = Closed
  OBVIOUS
<1>5. PICK g : g = [Nothing EXCEPT !.saved = s]
  OBVIOUS
<1>6. cursor' = [cursor EXCEPT ![h] = c] /\ heard' = [heard EXCEPT ![h] = g]
  BY <1>2, <1>4, <1>5 DEF RndEnd, Ended
<1>7. c \in Cursor /\ c.mode = "closed" /\ c.position = None /\ c.rows = << >>
  <2>1. << >> \in Seq(Row) /\ None \in Int
    BY NoneIs
  <2> QED
    BY <1>4, <2>1 DEF Cursor, Closed
<1>8. g \in Heard /\ g.row = NoRow /\ g.saved = s
  <2>1. << >> \in Seq(Key)
    OBVIOUS
  <2> QED
    BY <1>3, <1>5, <2>1 DEF Heard, Nothing
<1>9. /\ cursor' \in [Handler -> Cursor] /\ cursor'[h] = c
      /\ heard' \in [Handler -> Heard] /\ heard'[h] = g
      /\ \A f \in Handler \ {h} : cursor'[f] = cursor[f] /\ heard'[f] = heard[f]
  BY <1>6, <1>7, <1>8 DEF TypeInv, ScansOk
<1>10. IsOpen(h) /\ UNCHANGED <<contract, client>> /\ (~InTransaction => tx' = tx)
  BY DEF RndEnd
<1>11. ASSUME InTransaction
       PROVE  /\ tx' \in Transaction /\ Enumerates(tx'.order, tx'.cache)
              /\ tx'.puts = tx.puts /\ tx'.removes = tx.removes \o tx.pending
              /\ tx'.pending = << >> /\ tx'.filled = tx.filled /\ ~tx'.deferring
              /\ useCache => /\ tx'.cache = Effect(tx.cache, tx.pending)
                             /\ Keys(tx'.cache) = Keys(tx.cache) => tx'.order = tx.order
  <2>1. PICK x \in ApplyPendingRemoves(tx) : tx' = Released([x EXCEPT !.deferring = FALSE])
    BY <1>11 DEF RndEnd
  <2>2. tx \in Transaction /\ Enumerates(tx.order, tx.cache)
    BY <1>11, InTx DEF TypeInv
  <2>3. /\ x \in Transaction /\ Enumerates(x.order, x.cache)
        /\ x.puts = tx.puts /\ x.removes = tx.removes \o tx.pending /\ x.pending = << >>
        /\ x.cache = Effect(tx.cache, tx.pending) /\ x.filled = tx.filled
        /\ Keys(x.cache) = Keys(tx.cache) => x.order = tx.order
    BY <2>2, ApplyPendingIs
  <2>4. PICK y : y = [x EXCEPT !.deferring = FALSE]
    OBVIOUS
  <2>5. /\ y \in Transaction /\ Enumerates(y.order, y.cache)
        /\ y.puts = x.puts /\ y.removes = x.removes /\ y.pending = x.pending
        /\ y.cache = x.cache /\ y.order = x.order /\ y.filled = x.filled /\ ~y.deferring
    BY <2>3, <2>4 DEF Transaction
  <2>6. PICK z : z = tx' /\ z = Released(y)
    BY <2>1, <2>4
  <2>7. /\ z \in Transaction /\ Enumerates(z.order, z.cache)
        /\ z.puts = y.puts /\ z.removes = y.removes /\ z.pending = y.pending
        /\ z.filled = y.filled /\ z.deferring = y.deferring
        /\ useCache => z = y
    BY <2>5, <2>6, ReleasedIs
  <2> QED
    BY <2>3, <2>5, <2>6, <2>7
<1> QED
  BY <1>2, <1>7, <1>8, <1>9, <1>10, <1>11

LEMMA WriteRowIs ==
  ASSUME TypeInv, NEW k \in Key, NEW v \in Value, WriteRow(k, v)
  PROVE  /\ InTransaction /\ (Reinserts \/ ~Removed(k)) /\ (AllClosed \/ seen[k] \in Value)
         /\ AllClosed \/ \E h \in Handler : At(h, k)
         /\ ForgetPositions
         /\ Record(PutOp(k, v)) /\ PutOp(k, v) \in Op
         /\ tx' \in Transaction /\ Enumerates(tx'.order, tx'.cache)
         /\ tx'.puts = Append(tx.puts, PutOp(k, v))
         /\ tx'.removes = tx.removes /\ tx'.pending = tx.pending
         /\ tx'.cache = Effect(tx.cache, <<PutOp(k, v)>>)
         /\ tx'.filled = tx.filled /\ tx'.deferring = tx.deferring
         /\ Keys(tx'.cache) = Keys(tx.cache) => tx'.order = tx.order
         /\ UNCHANGED contract
<1>1. /\ InTransaction /\ (Reinserts \/ ~Removed(k)) /\ (AllClosed \/ seen[k] \in Value)
      /\ AllClosed \/ \E h \in Handler : At(h, k)
      /\ ForgetPositions
      /\ Record(PutOp(k, v)) /\ tx' \in AddPut(tx, PutOp(k, v))
      /\ UNCHANGED contract
  BY DEF WriteRow, Statement
<1>2. tx \in Transaction /\ Enumerates(tx.order, tx.cache)
  BY <1>1, InTx DEF TypeInv
<1>3. PICK op \in Op : op = PutOp(k, v)
  BY OpTypes
<1>4. PICK y : y = tx' /\ y \in AddPut(tx, op)
  BY <1>1, <1>3
<1>5. /\ y \in Transaction /\ Enumerates(y.order, y.cache)
      /\ y.puts = Append(tx.puts, op) /\ y.removes = tx.removes /\ y.pending = tx.pending
      /\ y.cache = Effect(tx.cache, <<op>>)
      /\ y.filled = tx.filled /\ y.deferring = tx.deferring
      /\ Keys(y.cache) = Keys(tx.cache) => y.order = tx.order
  BY <1>2, <1>4, AddPutIs
<1> QED
  BY <1>1, <1>3, <1>4, <1>5

LEMMA DeleteRowIs ==
  ASSUME TypeInv, NEW k \in Key, DeleteRow(k)
  PROVE  /\ InTransaction /\ seen[k] \in Value
         /\ AllClosed \/ \E h \in Handler : At(h, k)
         /\ ForgetPositions
         /\ Record(RemoveOp(k)) /\ RemoveOp(k) \in Op
         /\ tx' \in Transaction /\ Enumerates(tx'.order, tx'.cache)
         /\ tx'.puts = tx.puts /\ tx'.filled = tx.filled /\ tx'.deferring = tx.deferring
         /\ tx.deferring => /\ tx'.removes = tx.removes
                            /\ tx'.pending = Append(tx.pending, RemoveOp(k))
                            /\ tx'.cache = tx.cache /\ tx'.order = tx.order
         /\ ~tx.deferring => /\ tx'.removes = Append(tx.removes, RemoveOp(k))
                             /\ tx'.pending = tx.pending
                             /\ tx'.cache = Effect(tx.cache, <<RemoveOp(k)>>)
         /\ UNCHANGED contract
<1>1. /\ InTransaction /\ seen[k] \in Value
      /\ AllClosed \/ \E h \in Handler : At(h, k)
      /\ ForgetPositions
      /\ Record(RemoveOp(k)) /\ tx' \in AddRemove(tx, RemoveOp(k))
      /\ UNCHANGED contract
  BY DEF DeleteRow, Statement
<1>2. tx \in Transaction /\ Enumerates(tx.order, tx.cache)
  BY <1>1, InTx DEF TypeInv
<1>3. PICK op \in Op : op = RemoveOp(k)
  BY OpTypes
<1>4. PICK y : y = tx' /\ y \in AddRemove(tx, op)
  BY <1>1, <1>3
<1>5. /\ y \in Transaction /\ Enumerates(y.order, y.cache)
      /\ y.puts = tx.puts /\ y.filled = tx.filled /\ y.deferring = tx.deferring
      /\ tx.deferring => /\ y.removes = tx.removes /\ y.pending = Append(tx.pending, op)
                         /\ y.cache = tx.cache /\ y.order = tx.order
      /\ ~tx.deferring => /\ y.removes = Append(tx.removes, op) /\ y.pending = tx.pending
                          /\ y.cache = Effect(tx.cache, <<op>>)
  BY <1>2, <1>4, AddRemoveIs
<1> QED
  BY <1>1, <1>3, <1>4, <1>5

LEMMA OneOp ==
  ASSUME NEW op \in Op
  PROVE  <<op>> \in Seq(Op)
OBVIOUS

LEMMA OpenScansOk ==
  ASSUME ScansOk, cursor' \in [Handler -> Cursor], heard' \in [Handler -> Heard],
         NEW h \in Handler, \A g \in Handler \ {h} : cursor'[g] = cursor[g],
         \A g \in Handler \ {h} : heard'[g] = heard[g], CursorOk(cursor'[h], heard'[h])
  PROVE  ScansOk'
<1>1. \A g \in Handler : CursorOk(cursor'[g], heard'[g])
  BY DEF ScansOk
<1> QED
  BY <1>1 DEF ScansOk

LEMMA NoPosition == None \in Nat \cup {None}
OBVIOUS

LEMMA OperationKeepsTypes ==
  ASSUME TypeInv, Operation, UNCHANGED useCache
  PROVE  TypeInv'
<1> USE DEF TypeInv
<1>1. useCache' \in BOOLEAN
  OBVIOUS
<1>2. ASSUME NEW op \in Op, OtherWrites(op) PROVE TypeInv'
  <2>1. ContractOk'
    BY <1>2, OneOp, ApplyType DEF OtherWrites
  <2> QED
    BY <1>1, <1>2, <2>1, EnumeratesSame, ScansSame, ClientSame DEF OtherWrites
<1>3. ASSUME NEW k \in Key, NEW v \in Value, WriteRow(k, v) PROVE TypeInv'
  <2>1. TxOk' /\ ClientOk' /\ ScansOk' /\ ContractOk'
    BY <1>3, WriteRowIs, TxOkNext, RecordIs, ForgetPositionsIs, ContractSame
  <2> QED
    BY <1>1, <2>1
<1>4. ASSUME NEW k \in Key, DeleteRow(k) PROVE TypeInv'
  <2>1. TxOk' /\ ClientOk' /\ ScansOk' /\ ContractOk'
    BY <1>4, DeleteRowIs, TxOkNext, RecordIs, ForgetPositionsIs, ContractSame
  <2> QED
    BY <1>1, <2>1
<1>5. ASSUME NEW op \in Op, WriteThrough(op) PROVE TypeInv'
  <2>1. ContractOk' /\ ScansOk'
    BY <1>5, OneOp, ApplyType, ForgetPositionsIs DEF WriteThrough, Statement
  <2> QED
    BY <1>1, <1>5, <2>1, EnumeratesSame, ClientSame DEF WriteThrough
<1>6. ASSUME Begin PROVE TypeInv'
  <2>1. TxOk'
    BY <1>6, NewTxType, TxOkNext DEF Begin
  <2> QED
    BY <1>1, <1>6, <2>1, ForgetPositionsIs, ClientSame, ContractSame DEF Begin
<1>7. ASSUME tx' = NoTx PROVE TxOk'
  BY <1>7 DEF TxOk, InTransaction
<1>8. ASSUME Commit PROVE TypeInv'
  <2>1. ContractOk'
    BY <1>8, InTx, CommittedType, ApplyType DEF Commit
  <2> QED
    BY <1>1, <1>7, <1>8, <2>1, ForgetPositionsIs, ForgetClientIs DEF Commit
<1>9. ASSUME Rollback PROVE TypeInv'
  BY <1>1, <1>7, <1>9, ForgetPositionsIs, ForgetClientIs, ContractSame DEF Rollback
<1>10. ASSUME NEW h \in Handler, NEW k \in Key, IndexRead(h, k) PROVE TypeInv'
  <2>1. TxOk' /\ ContractOk'
    BY <1>10, IndexReadIs, TxOkNext, ContractSame
  <2>2. ScansOk'
    BY <1>10, IndexReadIs, ForgetPositionsIs, ScansSame
  <2>3. ClientOk'
    <3>1. PICK v \in Value \cup {Absent} : seen' = [seen EXCEPT ![k] = v] /\ stmts' = stmts
      BY <1>10, IndexReadIs
    <3> QED
      BY <3>1 DEF ClientOk
  <2> QED
    BY <1>1, <2>1, <2>2, <2>3
<1>11. ASSUME NEW h \in Handler, NEW mode \in {"scan", "pos"}, RndInit(h, mode) PROVE TypeInv'
  <2>1. TxOk' /\ ContractOk' /\ ClientOk'
    BY <1>11, RndInitIs, TxOkNext, ContractSame, ClientSame
  <2>2. ScansOk'
    <3>1. CursorOk(cursor'[h], heard'[h])
      BY <1>11, RndInitIs, NoPosition DEF CursorOk
    <3> QED
      BY <1>11, <3>1, RndInitIs, OpenScansOk
  <2> QED
    BY <1>1, <2>1, <2>2
<1>12. ASSUME NEW h \in Handler, NEW mode \in {"scan", "pos"}, AutoRndInit(h, mode) PROVE TypeInv'
  <2>1. TxOk' /\ ContractOk' /\ ClientOk'
    BY <1>12, AutoRndInitIs, EnumeratesSame, ContractSame, ClientSame
  <2>2. ScansOk'
    <3>1. CursorOk(cursor'[h], heard'[h])
      BY <1>12, AutoRndInitIs, NoPosition DEF CursorOk
    <3> QED
      BY <1>12, <3>1, AutoRndInitIs, OpenScansOk
  <2> QED
    BY <1>1, <2>1, <2>2
<1>13. ASSUME NEW h \in Handler, NEW row \in Row \cup {EndOfFile}, Fetched(h, row), stmts' = stmts
       PROVE  /\ ClientOk' /\ heard' \in [Handler -> Heard]
              /\ \A g \in Handler \ {h} : heard'[g] = heard[g]
  BY <1>13, FetchedIs DEF ClientOk
<1>14. ASSUME NEW h \in Handler, RndNext(h) PROVE TypeInv'
  <2>1. /\ TxOk' /\ ContractOk' /\ ClientOk' /\ heard' \in [Handler -> Heard]
        /\ \A g \in Handler \ {h} : heard'[g] = heard[g]
    BY <1>13, <1>14, RndNextIs, EnumeratesSame, ContractSame
  <2>2. ScansOk'
    <3>1. /\ cursor'[h].position = cursor[h].position + 1
          /\ cursor[h].position + 1 \in Nat
      BY <1>14, RndNextIs
    <3>2. CursorOk(cursor'[h], heard'[h])
      BY <3>1, NoneIs DEF CursorOk
    <3> QED
      BY <1>14, <2>1, <3>2, RndNextIs, OpenScansOk
  <2> QED
    BY <1>1, <2>1, <2>2
<1>15. ASSUME NEW h \in Handler, Position(h) PROVE TypeInv'
  <2>1. TxOk' /\ ContractOk' /\ ClientOk'
    BY <1>15, PositionIs, EnumeratesSame, ContractSame, ClientSame
  <2>2. ScansOk'
    <3>1. CursorOk(cursor[h], heard[h])
      BY DEF ScansOk
    <3>2. CursorOk(cursor'[h], heard'[h])
      BY <1>15, <3>1, PositionIs, NoneIs DEF CursorOk
    <3>3. cursor' \in [Handler -> Cursor] /\ \A g \in Handler \ {h} : cursor'[g] = cursor[g]
      BY <1>15, PositionIs DEF ScansOk
    <3> QED
      BY <1>15, <3>2, <3>3, PositionIs, OpenScansOk
  <2> QED
    BY <1>1, <2>1, <2>2
<1>16. ASSUME NEW h \in Handler, NEW ref \in heard[h].saved, RndPos(h, ref) PROVE TypeInv'
  <2>1. /\ TxOk' /\ ContractOk' /\ ClientOk' /\ heard' \in [Handler -> Heard] /\ cursor' = cursor
        /\ \A g \in Handler \ {h} : heard'[g] = heard[g]
    BY <1>13, <1>16, RndPosIs, EnumeratesSame, ContractSame
  <2>2. ScansOk'
    <3>1. CursorOk(cursor[h], heard[h]) /\ cursor[h].mode = "pos"
      BY <1>16, RndPosIs DEF ScansOk
    <3>2. CursorOk(cursor'[h], heard'[h])
      BY <2>1, <3>1 DEF CursorOk
    <3>3. cursor' \in [Handler -> Cursor] /\ \A g \in Handler \ {h} : cursor'[g] = cursor[g]
      BY <2>1 DEF ScansOk
    <3> QED
      BY <2>1, <3>2, <3>3, OpenScansOk
  <2> QED
    BY <1>1, <2>1, <2>2
<1>17. ASSUME NEW h \in Handler, RndEnd(h) PROVE TypeInv'
  <2>1. ContractOk' /\ ClientOk'
    BY <1>17, RndEndIs, ContractSame, ClientSame
  <2>2. TxOk'
    BY <1>17, RndEndIs, TxOkNext, EnumeratesSame
  <2>3. ScansOk'
    <3>1. CursorOk(cursor'[h], heard'[h])
      BY <1>17, RndEndIs, NoPosition DEF CursorOk
    <3> QED
      BY <1>17, <3>1, RndEndIs, OpenScansOk
  <2> QED
    BY <1>1, <2>1, <2>2, <2>3
<1> HIDE DEF TypeInv
<1> QED
  BY <1>2, <1>3, <1>4, <1>5, <1>6, <1>8, <1>9, <1>10, <1>11, <1>12, <1>14, <1>15, <1>16, <1>17,
     OpTypes DEF Operation

LEMMA NextKeepsTypes ==
  ASSUME TypeInv, [Next]_vars
  PROVE  TypeInv'
<1>1. CASE Operation /\ UNCHANGED useCache
  BY <1>1, OperationKeepsTypes
<1>2. ASSUME UNCHANGED <<contract, tx, cursor, heard, client>>, useCache' \in BOOLEAN PROVE TypeInv'
  BY <1>2, EnumeratesSame, ScansSame, ClientSame, ContractSame DEF TypeInv
<1>3. CASE SetCache
  BY <1>2, <1>3, FlagAssumption DEF SetCache
<1>4. CASE UNCHANGED vars
  BY <1>2, <1>4 DEF vars, TypeInv
<1> QED
  BY <1>1, <1>3, <1>4 DEF Next

LEMMA InitTypes == Init => TypeInv
<1> SUFFICES ASSUME Init PROVE TypeInv
  OBVIOUS
<1> USE DEF Init
<1>1. useCache \in BOOLEAN
  BY FlagAssumption
<1>2. ContractOk
  <2>1. << >> \in Seq(Key)
    OBVIOUS
  <2> QED
    BY <2>1, EmptyMapType DEF ContractOk
<1>3. TxOk
  BY DEF TxOk, InTransaction
<1>4. ScansOk
  <2>1. Closed \in Cursor /\ CursorOk(Closed, Nothing)
    <3>1. << >> \in Seq(Row)
      OBVIOUS
    <3> QED
      BY <3>1, NoneIs DEF Closed, Cursor, CursorOk
  <2>2. Nothing \in Heard
    <3>1. << >> \in Seq(Key)
      OBVIOUS
    <3> QED
      BY <3>1 DEF Nothing, Heard
  <2> QED
    BY <2>1, <2>2 DEF ScansOk
<1>5. ClientOk
  <2>1. << >> \in Seq(Op)
    OBVIOUS
  <2> QED
    BY <2>1 DEF ClientOk
<1> QED
  BY <1>1, <1>2, <1>3, <1>4, <1>5 DEF TypeInv

\* For every instance: each variable has its type; in particular no cache, list of
\* operations or cursor ever refers to a key or a value that is none.
THEOREM TypeCorrect == Spec => []TypeOK
<1>1. Spec => []TypeInv
  BY InitTypes, NextKeepsTypes, PTL DEF Spec
<1> QED
  BY <1>1, TypeInvIs, PTL

-----------------------------------------------------------------------------
(***************************************************************************)
(* Removes are pending only while they are deferred, and they are deferred *)
(* only while a scan is open.  Without a transaction there is nothing to   *)
(* know of one.                                                            *)
(***************************************************************************)
DeferInv ==
  /\ InTransaction => /\ tx.pending # << >> => tx.deferring
                      /\ tx.deferring => ~AllClosed
  /\ ~InTransaction => stmts = << >> /\ \A k \in Key : seen[k] = Unread

\* What the operation lists of a transaction say together with the statements s:
\* every statement is in one of them, and if no client puts a key again that it
\* removed, the lists agree with the last statement on each key.
OpsOk(puts, removes, pending, s) ==
  \A k \in Key :
    /\ In(s, k) <=> In(puts, k) \/ In(removes, k) \/ In(pending, k)
    /\ In(removes, k) => Own(removes, k) = Absent
    /\ In(pending, k) => Own(pending, k) = Absent
    /\ ~Reinserts =>
         /\ In(removes, k) \/ In(pending, k) => Own(s, k) = Absent
         /\ In(s, k) /\ ~In(removes, k) /\ ~In(pending, k) => Own(s, k) = Own(puts, k)

OpsInv == InTransaction => OpsOk(tx.puts, tx.removes, tx.pending, stmts)

LEMMA NothingIn == \A k : ~In(<< >>, k)
BY DEF In, Touched

LEMMA NoneOpen ==
  ASSUME TypeInv, DeferInv, InTransaction, AllClosed
  PROVE  tx.pending = << >> /\ ~tx.deferring
BY DEF DeferInv

\* Who is open is not changed by a step that keeps the modes.
LEMMA OpenSame ==
  ASSUME \A h \in Handler : cursor'[h].mode = cursor[h].mode
  PROVE  AllClosed' = AllClosed
BY DEF AllClosed, IsOpen

LEMMA ModesSame ==
  ASSUME UNCHANGED cursor
  PROVE  \A h \in Handler : cursor'[h].mode = cursor[h].mode
OBVIOUS

LEMMA RowScanModes ==
  ASSUME TypeInv, NEW h \in Handler, RndNext(h) \/ Position(h) \/ ByPosition(h)
  PROVE  (\A g \in Handler : cursor'[g].mode = cursor[g].mode) /\ tx' = tx /\ stmts' = stmts
<1>1. CASE RndNext(h)
  BY <1>1, RndNextIs
<1>2. CASE Position(h)
  BY <1>2, PositionIs DEF client
<1>3. CASE ByPosition(h)
  BY <1>3, ByPositionIs
<1> QED
  BY <1>1, <1>2, <1>3

LEMMA InitDefers == Init => DeferInv
BY DEF Init, DeferInv, InTransaction

LEMMA InTransactionNext == ASSUME tx' \in Transaction PROVE InTransaction'
BY NoTxAssumption DEF InTransaction

LEMMA InTransactionSame == ASSUME tx' = tx PROVE InTransaction' = InTransaction
BY DEF InTransaction

LEMMA DeferSame ==
  ASSUME DeferInv, tx' = tx, stmts' = stmts, ~InTransaction => seen' = seen,
         AllClosed' = AllClosed
  PROVE  DeferInv'
<1>1. InTransaction' = InTransaction
  BY InTransactionSame
<1>2. CASE InTransaction
  BY <1>1, <1>2 DEF DeferInv
<1>3. CASE ~InTransaction
  BY <1>1, <1>3 DEF DeferInv
<1> QED
  BY <1>2, <1>3

LEMMA DeferNext ==
  ASSUME tx' \in Transaction, tx'.pending # << >> => tx'.deferring, tx'.deferring => ~AllClosed'
  PROVE  DeferInv'
<1>1. InTransaction'
  BY InTransactionNext
<1> QED
  BY <1>1 DEF DeferInv

LEMMA OperationDefers ==
  ASSUME TypeInv, DeferInv, Operation
  PROVE  DeferInv'
<1>1. ASSUME NEW op \in Op, OtherWrites(op) PROVE DeferInv'
  BY <1>1, DeferSame, ModesSame, OpenSame DEF OtherWrites, client
<1>2. ASSUME NEW k \in Key, NEW v \in Value, WriteRow(k, v) PROVE DeferInv'
  <2>1. AllClosed' = AllClosed
    BY <1>2, WriteRowIs, ForgetPositionsIs, OpenSame DEF TypeInv
  <2> QED
    BY <1>2, <2>1, WriteRowIs, DeferNext DEF DeferInv
<1>3. ASSUME NEW k \in Key, DeleteRow(k) PROVE DeferInv'
  <2>1. AllClosed' = AllClosed
    BY <1>3, DeleteRowIs, ForgetPositionsIs, OpenSame DEF TypeInv
  <2> QED
    BY <1>3, <2>1, DeleteRowIs, DeferNext DEF DeferInv
<1>4. ASSUME NEW op \in Op, WriteThrough(op) PROVE DeferInv'
  <2>1. AllClosed' = AllClosed
    BY <1>4, ForgetPositionsIs, OpenSame DEF TypeInv, WriteThrough, Statement
  <2> QED
    BY <1>4, <2>1, DeferSame DEF WriteThrough, client
<1>5. ASSUME Begin PROVE DeferInv'
  <2>1. tx' = NewTx /\ NewTx \in Transaction
    BY <1>5, NewTxType DEF Begin
  <2>2. NewTx.pending = << >> /\ ~NewTx.deferring
    BY DEF NewTx
  <2> QED
    BY <2>1, <2>2, DeferNext
<1>6. ASSUME tx' = NoTx, ForgetClient PROVE DeferInv'
  BY <1>6, ForgetClientIs DEF DeferInv, InTransaction
<1>7. ASSUME NEW h \in Handler, NEW k \in Key, IndexRead(h, k) PROVE DeferInv'
  <2>1. AllClosed' = AllClosed
    BY <1>7, IndexReadIs, ForgetPositionsIs, OpenSame, ModesSame DEF TypeInv
  <2> QED
    BY <1>7, <2>1, IndexReadIs, DeferNext DEF DeferInv
<1>8. ASSUME NEW h \in Handler, NEW mode \in {"scan", "pos"}, RndInit(h, mode) PROVE DeferInv'
  <2>1. ~AllClosed'
    BY <1>8, RndInitIs DEF AllClosed, IsOpen
  <2> QED
    BY <1>8, <2>1, RndInitIs, DeferNext
<1>9. ASSUME NEW h \in Handler, NEW mode \in {"scan", "pos"}, AutoRndInit(h, mode) PROVE DeferInv'
  <2>1. ~InTransaction /\ tx' = tx /\ stmts' = stmts /\ seen' = seen
    BY <1>9, AutoRndInitIs DEF client
  <2>2. ~InTransaction'
    BY <2>1, InTransactionSame
  <2> QED
    BY <2>1, <2>2 DEF DeferInv
<1>10. ASSUME NEW h \in Handler, RndNext(h) \/ Position(h) \/ ByPosition(h) PROVE DeferInv'
  <2>1. /\ \A g \in Handler : cursor'[g].mode = cursor[g].mode
        /\ tx' = tx /\ stmts' = stmts
    BY <1>10, RowScanModes
  <2>2. ~InTransaction => seen' = seen
    BY <1>10, RndNextIs, ByPositionIs, PositionIs, FetchedIs DEF TypeInv, client
  <2> QED
    BY <2>1, <2>2, DeferSame, OpenSame
<1>11. ASSUME NEW h \in Handler, RndEnd(h) PROVE DeferInv'
  <2>1. CASE InTransaction
    BY <1>11, <2>1, RndEndIs, DeferNext
  <2>2. CASE ~InTransaction
    <3>1. tx' = tx /\ stmts' = stmts /\ seen' = seen
      BY <1>11, <2>2, RndEndIs DEF client
    <3>2. ~InTransaction'
      BY <2>2, <3>1, InTransactionSame
    <3> QED
      BY <2>2, <3>1, <3>2 DEF DeferInv
  <2> QED
    BY <2>1, <2>2
<1> QED
  BY <1>1, <1>2, <1>3, <1>4, <1>5, <1>6, <1>7, <1>8, <1>9, <1>10, <1>11, OpTypes
     DEF Operation, Commit, Rollback, ByPosition

LEMMA NextDefers ==
  ASSUME TypeInv, DeferInv, [Next]_vars
  PROVE  DeferInv'
<1>1. CASE Operation /\ UNCHANGED useCache
  BY <1>1, OperationDefers
<1>2. CASE SetCache \/ UNCHANGED vars
  <2>1. UNCHANGED <<tx, cursor, stmts, seen>>
    BY <1>2 DEF SetCache, vars, client
  <2> QED
    BY <2>1, DeferSame, ModesSame, OpenSame
<1> QED
  BY <1>1, <1>2 DEF Next

-----------------------------------------------------------------------------
(***************************************************************************)
(* The operation lists and the statements.                                 *)
(***************************************************************************)
LEMMA OpsEmpty == OpsOk(<< >>, << >>, << >>, << >>)
BY NothingIn DEF OpsOk

\* A put, without reinserts of a key that the transaction did not remove.
LEMMA OpsPut ==
  ASSUME NEW p \in Seq(Op), NEW r \in Seq(Op), NEW q \in Seq(Op), NEW s \in Seq(Op),
         OpsOk(p, r, q, s), NEW op \in Op,
         ~Reinserts => \A i \in DOMAIN s : ~(s[i].key = op.key /\ s[i].deleteEntry)
  PROVE  OpsOk(Append(p, op), r, q, Append(s, op))
<1>1. ASSUME ~Reinserts, In(r, op.key) \/ In(q, op.key) PROVE FALSE
  <2>1. op.key \in Key
    BY DEF Op
  <2>2. In(s, op.key) /\ Own(s, op.key) = Absent
    BY <1>1, <2>1 DEF OpsOk
  <2> QED
    BY <1>1, <2>2, OwnType
<1>2. ASSUME NEW k \in Key
      PROVE  /\ In(Append(s, op), k) <=> In(Append(p, op), k) \/ In(r, k) \/ In(q, k)
             /\ ~Reinserts /\ (In(r, k) \/ In(q, k)) => Own(Append(s, op), k) = Absent
             /\ In(r, k) => Own(r, k) = Absent
             /\ In(q, k) => Own(q, k) = Absent
             /\ ~Reinserts /\ In(Append(s, op), k) /\ ~In(r, k) /\ ~In(q, k) =>
                  Own(Append(s, op), k) = Own(Append(p, op), k)
  <2>1. /\ In(s, k) <=> In(p, k) \/ In(r, k) \/ In(q, k)
        /\ ~Reinserts /\ (In(r, k) \/ In(q, k)) => Own(s, k) = Absent
        /\ In(r, k) => Own(r, k) = Absent
        /\ In(q, k) => Own(q, k) = Absent
        /\ ~Reinserts /\ In(s, k) /\ ~In(r, k) /\ ~In(q, k) => Own(s, k) = Own(p, k)
    BY DEF OpsOk
  <2>2. /\ In(Append(s, op), k) <=> In(s, k) \/ op.key = k
        /\ op.key = k => Own(Append(s, op), k) = Outcome(op)
        /\ op.key # k /\ In(s, k) => Own(Append(s, op), k) = Own(s, k)
    BY OwnAppend
  <2>3. /\ In(Append(p, op), k) <=> In(p, k) \/ op.key = k
        /\ op.key = k => Own(Append(p, op), k) = Outcome(op)
        /\ op.key # k /\ In(p, k) => Own(Append(p, op), k) = Own(p, k)
    BY OwnAppend
  <2> QED
    BY <1>1, <2>1, <2>2, <2>3
<1> QED
  BY <1>2 DEF OpsOk

\* A remove that is deferred.
LEMMA OpsDefer ==
  ASSUME NEW p \in Seq(Op), NEW r \in Seq(Op), NEW q \in Seq(Op), NEW s \in Seq(Op),
         OpsOk(p, r, q, s), NEW op \in Op, Outcome(op) = Absent
  PROVE  OpsOk(p, r, Append(q, op), Append(s, op))
<1>2. ASSUME NEW k \in Key
      PROVE  /\ In(Append(s, op), k) <=> In(p, k) \/ In(r, k) \/ In(Append(q, op), k)
             /\ ~Reinserts /\ (In(r, k) \/ In(Append(q, op), k)) => Own(Append(s, op), k) = Absent
             /\ In(r, k) => Own(r, k) = Absent
             /\ In(Append(q, op), k) => Own(Append(q, op), k) = Absent
             /\ ~Reinserts /\ In(Append(s, op), k) /\ ~In(r, k) /\ ~In(Append(q, op), k) =>
                  Own(Append(s, op), k) = Own(p, k)
  <2>1. /\ In(s, k) <=> In(p, k) \/ In(r, k) \/ In(q, k)
        /\ ~Reinserts /\ (In(r, k) \/ In(q, k)) => Own(s, k) = Absent
        /\ In(r, k) => Own(r, k) = Absent
        /\ In(q, k) => Own(q, k) = Absent
        /\ ~Reinserts /\ In(s, k) /\ ~In(r, k) /\ ~In(q, k) => Own(s, k) = Own(p, k)
    BY DEF OpsOk
  <2>2. /\ In(Append(s, op), k) <=> In(s, k) \/ op.key = k
        /\ op.key = k => Own(Append(s, op), k) = Outcome(op)
        /\ op.key # k /\ In(s, k) => Own(Append(s, op), k) = Own(s, k)
    BY OwnAppend
  <2>3. /\ In(Append(q, op), k) <=> In(q, k) \/ op.key = k
        /\ op.key = k => Own(Append(q, op), k) = Outcome(op)
        /\ op.key # k /\ In(q, k) => Own(Append(q, op), k) = Own(q, k)
    BY OwnAppend
  <2> QED
    BY <2>1, <2>2, <2>3
<1> QED
  BY <1>2 DEF OpsOk

\* The lists of removes and of pending removes may change places.
LEMMA OpsSwap ==
  ASSUME NEW p, NEW r, NEW q, NEW s, OpsOk(p, r, q, s)
  PROVE  OpsOk(p, q, r, s)
BY DEF OpsOk

\* The end of a scan adds the pending removes to the others.
LEMMA OpsFlush ==
  ASSUME NEW p \in Seq(Op), NEW r \in Seq(Op), NEW q \in Seq(Op), NEW s \in Seq(Op),
         OpsOk(p, r, q, s)
  PROVE  OpsOk(p, r \o q, << >>, s)
<1>1. ASSUME NEW k \in Key
      PROVE  /\ In(s, k) <=> In(p, k) \/ In(r \o q, k)
             /\ ~Reinserts /\ In(r \o q, k) => Own(s, k) = Absent
             /\ In(r \o q, k) => Own(r \o q, k) = Absent
             /\ ~Reinserts /\ In(s, k) /\ ~In(r \o q, k) => Own(s, k) = Own(p, k)
  <2>1. /\ In(s, k) <=> In(p, k) \/ In(r, k) \/ In(q, k)
        /\ ~Reinserts /\ (In(r, k) \/ In(q, k)) => Own(s, k) = Absent
        /\ In(r, k) => Own(r, k) = Absent
        /\ In(q, k) => Own(q, k) = Absent
        /\ ~Reinserts /\ In(s, k) /\ ~In(r, k) /\ ~In(q, k) => Own(s, k) = Own(p, k)
    BY DEF OpsOk
  <2>2. /\ In(r \o q, k) <=> In(r, k) \/ In(q, k)
        /\ In(q, k) => Own(r \o q, k) = Own(q, k)
        /\ ~In(q, k) /\ In(r, k) => Own(r \o q, k) = Own(r, k)
    BY OwnConcat
  <2> QED
    BY <2>1, <2>2
<1> QED
  BY <1>1, NothingIn DEF OpsOk

\* The puts, then the removes: what is not pending is as the statements left it.
LEMMA OpsCommitted ==
  ASSUME NEW p \in Seq(Op), NEW r \in Seq(Op), NEW q \in Seq(Op), NEW s \in Seq(Op),
         OpsOk(p, r, q, s), NEW k \in Key, ~In(q, k)
  PROVE  /\ In(p \o r, k) <=> In(s, k)
         /\ ~Reinserts /\ In(s, k) => Own(p \o r, k) = Own(s, k)
<1>1. /\ In(s, k) <=> In(p, k) \/ In(r, k) \/ In(q, k)
      /\ ~Reinserts /\ (In(r, k) \/ In(q, k)) => Own(s, k) = Absent
      /\ In(r, k) => Own(r, k) = Absent
      /\ ~Reinserts /\ In(s, k) /\ ~In(r, k) /\ ~In(q, k) => Own(s, k) = Own(p, k)
  BY DEF OpsOk
<1>2. /\ In(p \o r, k) <=> In(p, k) \/ In(r, k)
      /\ In(r, k) => Own(p \o r, k) = Own(r, k)
      /\ ~In(r, k) /\ In(p, k) => Own(p \o r, k) = Own(p, k)
  BY OwnConcat
<1> QED
  BY <1>1, <1>2

LEMMA OpsNext ==
  ASSUME InTransaction', OpsOk(tx'.puts, tx'.removes, tx'.pending, stmts')
  PROVE  OpsInv'
BY DEF OpsInv

LEMMA OpsSame ==
  ASSUME OpsInv, tx' = tx, stmts' = stmts
  PROVE  OpsInv'
BY DEF OpsInv, InTransaction

LEMMA OpsSameLists ==
  ASSUME OpsInv, InTransaction, tx' \in Transaction, tx'.puts = tx.puts,
         tx'.removes = tx.removes, tx'.pending = tx.pending, stmts' = stmts
  PROVE  OpsInv'
BY InTransactionNext, OpsNext DEF OpsInv

LEMMA OperationKeepsOps ==
  ASSUME TypeInv, DeferInv, OpsInv, Operation
  PROVE  OpsInv'
<1>1. ASSUME NEW op \in Op, OtherWrites(op) PROVE OpsInv'
  BY <1>1, OpsSame DEF OtherWrites, client
<1>2. stmts \in Seq(Op)
  BY DEF TypeInv, ClientOk
<1>3. InTransaction => /\ OpsOk(tx.puts, tx.removes, tx.pending, stmts)
                       /\ tx.puts \in Seq(Op) /\ tx.removes \in Seq(Op) /\ tx.pending \in Seq(Op)
  BY InTx, Fields DEF OpsInv, TypeInv
<1>4. ASSUME NEW k \in Key, NEW v \in Value, WriteRow(k, v) PROVE OpsInv'
  <2>1. PICK op \in Op : op = PutOp(k, v) /\ op.key = k
    BY OpTypes
  <2>2. /\ InTransaction /\ (Reinserts \/ ~Removed(k)) /\ Record(op) /\ tx' \in Transaction
        /\ tx'.puts = Append(tx.puts, op) /\ tx'.removes = tx.removes /\ tx'.pending = tx.pending
    BY <1>4, <2>1, WriteRowIs
  <2>3. stmts' = Append(stmts, op)
    BY <2>2, RecordIs DEF TypeInv
  <2>4. ~Reinserts => \A i \in DOMAIN stmts : ~(stmts[i].key = op.key /\ stmts[i].deleteEntry)
    BY <2>1, <2>2 DEF Removed
  <2>5. OpsOk(Append(tx.puts, op), tx.removes, tx.pending, Append(stmts, op))
    BY <1>2, <1>3, <2>2, <2>4, OpsPut
  <2> QED
    BY <2>2, <2>3, <2>5, OpsNext, InTransactionNext
<1>5. ASSUME NEW k \in Key, DeleteRow(k) PROVE OpsInv'
  <2>1. PICK op \in Op : op = RemoveOp(k) /\ Outcome(op) = Absent
    BY OpTypes
  <2>2. /\ InTransaction /\ Record(op) /\ tx' \in Transaction /\ tx'.puts = tx.puts
        /\ tx.deferring => tx'.removes = tx.removes /\ tx'.pending = Append(tx.pending, op)
        /\ ~tx.deferring => tx'.removes = Append(tx.removes, op) /\ tx'.pending = tx.pending
    BY <1>5, <2>1, DeleteRowIs
  <2>3. stmts' = Append(stmts, op)
    BY <2>2, RecordIs DEF TypeInv
  <2>4. OpsOk(tx.puts, tx.removes, Append(tx.pending, op), Append(stmts, op))
    BY <1>2, <1>3, <2>1, <2>2, OpsDefer
  <2>5. OpsOk(tx.puts, Append(tx.removes, op), tx.pending, Append(stmts, op))
    BY <1>2, <1>3, <2>1, <2>2, OpsDefer, OpsSwap
  <2> QED
    BY <2>2, <2>3, <2>4, <2>5, OpsNext, InTransactionNext
<1>6. ASSUME NEW op \in Op, WriteThrough(op) PROVE OpsInv'
  BY <1>6, OpsSame DEF WriteThrough, client
<1>7. ASSUME Begin PROVE OpsInv'
  <2>1. tx' = NewTx /\ stmts' = << >> /\ tx' \in Transaction
    BY <1>7, NewTxType DEF Begin, DeferInv, client
  <2>2. NewTx.puts = << >> /\ NewTx.removes = << >> /\ NewTx.pending = << >>
    BY DEF NewTx
  <2> QED
    BY <2>1, <2>2, OpsEmpty, OpsNext, InTransactionNext
<1>8. ASSUME tx' = NoTx PROVE OpsInv'
  BY <1>8 DEF OpsInv, InTransaction
<1>9. ASSUME NEW h \in Handler, NEW k \in Key, IndexRead(h, k) PROVE OpsInv'
  BY <1>9, IndexReadIs, OpsSameLists
<1>10. ASSUME NEW h \in Handler, NEW mode \in {"scan", "pos"}, RndInit(h, mode) PROVE OpsInv'
  <2>1. stmts' = stmts
    BY <1>10, RndInitIs DEF client
  <2> QED
    BY <1>10, <2>1, RndInitIs, OpsSameLists
<1>11. ASSUME NEW h \in Handler, NEW mode \in {"scan", "pos"}, AutoRndInit(h, mode) PROVE OpsInv'
  BY <1>11, AutoRndInitIs, OpsSame DEF client
<1>12. ASSUME NEW h \in Handler, RndNext(h) \/ Position(h) \/ ByPosition(h) PROVE OpsInv'
  BY <1>12, RowScanModes, OpsSame
<1>13. ASSUME NEW h \in Handler, RndEnd(h) PROVE OpsInv'
  <2>1. CASE InTransaction
    <3>1. /\ tx' \in Transaction /\ tx'.puts = tx.puts
          /\ tx'.removes = tx.removes \o tx.pending /\ tx'.pending = << >> /\ stmts' = stmts
      BY <1>13, <2>1, RndEndIs DEF client
    <3>2. OpsOk(tx.puts, tx.removes \o tx.pending, << >>, stmts)
      BY <1>2, <1>3, <2>1, OpsFlush
    <3> QED
      BY <3>1, <3>2, OpsNext, InTransactionNext
  <2>2. CASE ~InTransaction
    BY <1>13, <2>2, RndEndIs, OpsSame DEF client
  <2> QED
    BY <2>1, <2>2
<1> QED
  BY <1>1, <1>4, <1>5, <1>6, <1>7, <1>8, <1>9, <1>10, <1>11, <1>12, <1>13, OpTypes
     DEF Operation, Commit, Rollback, ByPosition

LEMMA NextKeepsOps ==
  ASSUME TypeInv, DeferInv, OpsInv, [Next]_vars
  PROVE  OpsInv'
<1>1. CASE Operation /\ UNCHANGED useCache
  BY <1>1, OperationKeepsOps
<1>2. CASE SetCache \/ UNCHANGED vars
  BY <1>2, OpsSame DEF SetCache, vars, client
<1> QED
  BY <1>1, <1>2 DEF Next

LEMMA CommitAppliesOwn ==
  ASSUME ~Reinserts, TypeInv, DeferInv, OpsInv, Commit
  PROVE  chain' = Effect(chain, stmts)
<1>1. InTransaction /\ AllClosed /\ chain' = Effect(chain, tx.puts \o tx.removes)
  BY DEF Commit, Apply, Committed
<1>2. /\ OpsOk(tx.puts, tx.removes, << >>, stmts) /\ stmts \in Seq(Op)
      /\ tx.puts \in Seq(Op) /\ tx.removes \in Seq(Op) /\ << >> \in Seq(Op)
  BY <1>1, NoneOpen, InTx, Fields DEF OpsInv, TypeInv, ClientOk
<1>3. ASSUME NEW k \in Key
      PROVE  Effect(chain, tx.puts \o tx.removes)[k] = Effect(chain, stmts)[k]
  <2>1. /\ In(tx.puts \o tx.removes, k) <=> In(stmts, k)
        /\ In(stmts, k) => Own(tx.puts \o tx.removes, k) = Own(stmts, k)
    <3>1. PICK p \in Seq(Op) : p = tx.puts
      BY <1>2
    <3>2. PICK r \in Seq(Op) : r = tx.removes
      BY <1>2
    <3>3. PICK q \in Seq(Op) : q = << >>
      BY <1>2
    <3>4. OpsOk(p, r, q, stmts) /\ ~In(q, k)
      BY <1>2, <3>1, <3>2, <3>3, NothingIn
    <3>5. In(p \o r, k) <=> In(stmts, k)
      BY <1>2, <3>4, OpsCommitted
    <3>6. In(stmts, k) => Own(p \o r, k) = Own(stmts, k)
      BY <1>2, <3>4, OpsCommitted
    <3> QED
      BY <3>1, <3>2, <3>5, <3>6
  <2> QED
    BY <2>1, EffectOwn
<1>4. /\ Effect(chain, stmts) = [k \in Key |-> Effect(chain, stmts)[k]]
      /\ Effect(chain, tx.puts \o tx.removes)
           = [k \in Key |-> Effect(chain, tx.puts \o tx.removes)[k]]
  BY DEF Effect, EffectUpTo
<1> QED
  BY <1>1, <1>3, <1>4

\* COMMIT: the two lists that bc_commit sends, puts before removes, do to the
\* contract what the statements did in their order, if no statement puts a key
\* that it removed before in the same transaction.
THEOREM CommitApplies == ASSUME ~Reinserts PROVE Spec => CommitAppliesStatements
<1> DEFINE Inv == TypeInv /\ DeferInv /\ OpsInv
<1>1. Init => Inv
  BY InitTypes, InitDefers DEF Init, OpsInv, InTransaction
<1>2. Inv /\ [Next]_vars => Inv'
  BY NextKeepsTypes, NextDefers, NextKeepsOps
<1>3. Inv /\ [Next]_vars => [Commit => chain' = Effect(chain, stmts)]_vars
  BY CommitAppliesOwn
<1> QED
  BY <1>1, <1>2, <1>3, PTL DEF Spec, CommitAppliesStatements

-----------------------------------------------------------------------------
(***************************************************************************)
(* A scan in progress.                                                     *)
(***************************************************************************)

\* A handler with cursor c told g, on its way through keys.
Walk(keys, c, g) ==
  /\ g.due = Range(keys)
  /\ Len(g.got) <= Len(keys) /\ \A i \in 1..Len(g.got) : g.got[i] = keys[i]
  /\ g.row # EndOfFile => c.position + 1 = Len(g.got)
  /\ g.row \in Row => Len(g.got) >= 1 /\ g.row.key = g.got[Len(g.got)]
  /\ g.row = EndOfFile => Len(g.got) = Len(keys)

LEMMA WalkStart ==
  ASSUME NEW keys \in Seq(Key), NEW c, NEW g,
         c.position = None, g.row = NoRow, g.got = << >>, g.due = Range(keys)
  PROVE  Walk(keys, c, g)
<1>1. Len(g.got) = 0
  OBVIOUS
<1>2. \A i \in 1..Len(g.got) : FALSE
  BY <1>1
<1> QED
  BY <1>1, <1>2, NoneIs, RowAssumption DEF Walk

LEMMA WalkSame ==
  ASSUME NEW keys, NEW c, NEW g, Walk(keys, c, g), NEW d, NEW e,
         d.position = c.position, e.row = g.row, e.got = g.got, e.due = g.due
  PROVE  Walk(keys, d, e)
BY DEF Walk

LEMMA WalkNext ==
  ASSUME NEW keys \in Seq(Key), NEW c, NEW g \in Heard, Walk(keys, c, g), g.row # EndOfFile,
         NEW row \in Row \cup {EndOfFile},
         \/ row = EndOfFile /\ c.position + 1 >= Len(keys)
         \/ /\ row \in Row /\ c.position + 1 + 1 \in 1..Len(keys)
            /\ row.key = keys[c.position + 1 + 1],
         NEW d, NEW e, d.position = c.position + 1, e.row = row, e.due = g.due,
         e.got = IF row = EndOfFile THEN g.got ELSE Append(g.got, row.key)
  PROVE  Walk(keys, d, e)
<1>1. PICK got \in Seq(Key) : got = g.got
  BY HeardFields
<1>2. PICK n \in Nat : n = Len(got)
  BY <1>1
<1>3. PICK m \in Nat : m = Len(keys)
  OBVIOUS
<1>4. /\ g.due = Range(keys) /\ n <= m /\ \A i \in 1..n : got[i] = keys[i]
      /\ c.position + 1 = n
  BY <1>1, <1>2, <1>3 DEF Walk
<1>5. CASE row = EndOfFile
  <2>1. n = m
    BY <1>3, <1>4, <1>5, RowFields
  <2>2. e.got = got /\ e.row = EndOfFile /\ e.row \notin Row
    BY <1>1, <1>5, RowAssumption
  <2> QED
    BY <1>2, <1>3, <1>4, <2>1, <2>2 DEF Walk
<1>6. CASE row \in Row
  <2>1. row # EndOfFile /\ row.key \in Key /\ n + 1 \in 1..m /\ row.key = keys[n + 1]
    BY <1>3, <1>4, <1>6, RowFields
  <2>2. e.got = Append(got, row.key)
    BY <1>1, <2>1
  <2>3. /\ Len(e.got) = n + 1 /\ e.got[n + 1] = row.key
        /\ \A i \in 1..n : e.got[i] = got[i]
    BY <1>1, <1>2, <2>1, <2>2
  <2>4. \A i \in 1..(n + 1) : e.got[i] = keys[i]
    BY <1>4, <2>1, <2>3
  <2> QED
    BY <1>2, <1>3, <1>4, <1>6, <2>1, <2>3, <2>4 DEF Walk
<1> QED
  BY <1>5, <1>6

\* A sequence of distinct elements has as many as its range.
LEMMA DistinctCount ==
  ASSUME NEW s \in Seq(Key), Distinct(s)
  PROVE  Len(s) = Cardinality(Range(s))
<1>1. PICK l \in Nat : l = Len(s) /\ DOMAIN s = 1..l
  OBVIOUS
<1>2. IsFiniteSet(1..l) /\ Cardinality(1..l) = l
  <2>1. 1 \in Int /\ l \in Int /\ l - 1 + 1 = l /\ (1 > l <=> l = 0)
    BY <1>1
  <2> QED
    BY <2>1, FS_Interval
<1>3. s \in [1..l -> Range(s)]
  BY <1>1 DEF Range
<1>4. IsFiniteSet(Range(s))
  <2>1. Range(s) \subseteq Key
    BY <1>1 DEF Range
  <2> QED
    BY <2>1, FS_Subset, KeyAssumption
<1>5. s \in Injection(1..l, Range(s))
  BY <1>1, <1>3 DEF Injection, IsInjective, Distinct
<1>6. s \in Surjection(1..l, Range(s))
  BY <1>1, <1>3 DEF Surjection, Range
<1> QED
  BY <1>1, <1>2, <1>4, <1>5, <1>6, FS_Injection

LEMMA WalkEnds ==
  ASSUME NEW keys \in Seq(Key), Distinct(keys), NEW c, NEW g \in Heard, Walk(keys, c, g),
         g.row = EndOfFile
  PROVE  Range(g.got) = g.due /\ Len(g.got) = Cardinality(g.due)
<1>1. g.got \in Seq(Key)
  BY HeardFields
<1>2. PICK n \in Nat : n = Len(keys) /\ n = Len(g.got) /\ DOMAIN keys = 1..n /\ DOMAIN g.got = 1..n
  BY <1>1 DEF Walk
<1>3. Range(g.got) = Range(keys)
  BY <1>1, <1>2 DEF Walk, Range
<1> QED
  BY <1>2, <1>3, DistinctCount DEF Walk

KeysOf(rows) == [i \in DOMAIN rows |-> rows[i].key]

LEMMA KeysOfIs ==
  ASSUME NEW rows \in Seq(Row)
  PROVE  /\ KeysOf(rows) \in Seq(Key) /\ Len(KeysOf(rows)) = Len(rows)
         /\ Range(KeysOf(rows)) = {rows[i].key : i \in DOMAIN rows}
         /\ \A i \in 1..Len(rows) : KeysOf(rows)[i] = rows[i].key
<1>1. PICK n \in Nat : n = Len(rows) /\ DOMAIN rows = 1..n
  OBVIOUS
<1>2. \A i \in 1..n : rows[i].key \in Key
  BY <1>1, RowFields
<1>3. KeysOf(rows) = [i \in 1..n |-> rows[i].key]
  BY <1>1 DEF KeysOf
<1>4. KeysOf(rows) \in Seq(Key) /\ Len(KeysOf(rows)) = n /\ DOMAIN KeysOf(rows) = 1..n
  BY <1>2, <1>3
<1> QED
  BY <1>1, <1>3, <1>4 DEF Range

-----------------------------------------------------------------------------
(***************************************************************************)
(* One handler: while it is open in a transaction the removes are          *)
(* deferred, and the cache and its order stay as they are.                 *)
(***************************************************************************)
OneHandler == \A g, h \in Handler : g = h

ScanOk(x, c, g) ==
  c.mode = "scan" => /\ Walk(x.order, c, g)
                     /\ \A k \in Key : In(x.pending, k) => k \in Range(g.got)

TxScans ==
  InTransaction => /\ ~AllClosed => tx.deferring
                   /\ \A h \in Handler : ScanOk(tx, cursor[h], heard[h])

LEMMA Open ==
  ASSUME NEW h \in Handler, ~AllClosed, OneHandler
  PROVE  IsOpen(h)
BY DEF OneHandler, AllClosed

LEMMA ClosedModes ==
  ASSUME AllClosed, NEW h \in Handler
  PROVE  cursor[h].mode = "closed"
BY DEF AllClosed, IsOpen

LEMMA ScanOkSame ==
  ASSUME NEW x, NEW c, NEW g, ScanOk(x, c, g), NEW y, NEW d, NEW e,
         y.order = x.order, y.pending = x.pending, d.mode = c.mode, d.position = c.position,
         e.row = g.row, e.got = g.got, e.due = g.due
  PROVE  ScanOk(y, d, e)
BY WalkSame DEF ScanOk

\* The row that a statement changes is one that the scan returned, and in the cache.
LEMMA AtIs ==
  ASSUME TypeInv, TxScans, InTransaction, NEW h \in Handler, NEW k \in Key, At(h, k),
         cursor[h].mode = "scan"
  PROVE  k \in Range(heard[h].got) /\ k \in Keys(tx.cache)
<1>1. Walk(tx.order, cursor[h], heard[h]) /\ heard[h].row \in Row /\ heard[h].row.key = k
  BY DEF TxScans, ScanOk, At
<1>2. tx.order \in Seq(Key) /\ Range(tx.order) = Keys(tx.cache)
  BY InTx, Fields DEF TypeInv, Enumerates
<1>3. heard[h].got \in Seq(Key)
  BY HeardFields DEF TypeInv, ScansOk
<1>4. PICK n \in Nat : n = Len(heard[h].got) /\ DOMAIN heard[h].got = 1..n
  BY <1>3
<1>5. n \in 1..n /\ heard[h].got[n] = k /\ tx.order[n] = k /\ n \in 1..Len(tx.order)
  BY <1>1, <1>2, <1>4 DEF Walk
<1>6. n \in DOMAIN tx.order
  BY <1>2, <1>5
<1> QED
  BY <1>2, <1>4, <1>5, <1>6 DEF Range

LEMMA PutKeepsKeys ==
  ASSUME NEW m \in Map, NEW op \in Op
  PROVE  /\ ~op.deleteEntry => Keys(m) \subseteq Keys(Effect(m, <<op>>))
         /\ ~op.deleteEntry /\ op.key \in Keys(m) => Keys(Effect(m, <<op>>)) = Keys(m)
<1>1. \A k \in Key : Effect(m, <<op>>)[k] = IF k = op.key THEN Outcome(op) ELSE m[k]
  BY SingleOp
<1>2. ~op.deleteEntry => Outcome(op) # Absent
  BY AbsentAssumption DEF Outcome, Op
<1> QED
  BY <1>1, <1>2 DEF Keys

LEMMA ScansNext ==
  ASSUME tx' \in Transaction,  tx'.deferring \/ AllClosed',
         \A h \in Handler : ScanOk(tx', cursor'[h], heard'[h])
  PROVE  TxScans'
BY DEF TxScans

LEMMA ScansKept ==
  ASSUME TxScans, tx' = tx, UNCHANGED <<cursor, heard>>
  PROVE  TxScans'
BY DEF TxScans, InTransaction, AllClosed, IsOpen

LEMMA ClosedScanOk ==
  ASSUME NEW x, NEW c, NEW g, c.mode = "closed"
  PROVE  ScanOk(x, c, g)
BY DEF ScanOk

\* A step that changes the operations of the transaction and not its cache's keys.
LEMMA StatementKeepsScans ==
  ASSUME TypeInv, TxScans, InTransaction, ForgetPositions,
         tx' \in Transaction, tx'.deferring = tx.deferring,
         NEW k \in Key, AllClosed \/ \E h \in Handler : At(h, k), OneHandler,
         ~AllClosed /\ k \in Keys(tx.cache) => tx'.order = tx.order,
         ~AllClosed => \A j \in Key : In(tx'.pending, j) => In(tx.pending, j) \/ j = k
  PROVE  TxScans'
<1>1. /\ \A h \in Handler :
              /\ cursor'[h].mode = cursor[h].mode /\ cursor'[h].position = cursor[h].position
              /\ heard'[h].row = heard[h].row /\ heard'[h].got = heard[h].got
              /\ heard'[h].due = heard[h].due
      /\ AllClosed' = AllClosed
  BY ForgetPositionsIs, OpenSame DEF TypeInv
<1>2. tx'.deferring \/ AllClosed'
  BY <1>1 DEF TxScans
<1>3. CASE AllClosed
  <2>1. \A h \in Handler : cursor'[h].mode = "closed"
    BY <1>1, <1>3, ClosedModes
  <2> QED
    BY <1>2, <2>1, ClosedScanOk, ScansNext
<1>4. CASE ~AllClosed
  <2>1. PICK h \in Handler : At(h, k)
    BY <1>4
  <2>3. ScanOk(tx', cursor'[h], heard'[h])
    <3>1. CASE cursor[h].mode = "scan"
      <4>1. k \in Range(heard[h].got) /\ tx'.order = tx.order
        BY <1>4, <2>1, <3>1, AtIs
      <4>2. /\ Walk(tx.order, cursor[h], heard[h])
            /\ \A j \in Key : In(tx.pending, j) => j \in Range(heard[h].got)
        BY <3>1 DEF TxScans, ScanOk
      <4>3. Walk(tx'.order, cursor'[h], heard'[h])
        BY <1>1, <4>1, <4>2, WalkSame
      <4>4. \A j \in Key : In(tx'.pending, j) => j \in Range(heard'[h].got)
        BY <1>1, <1>4, <4>1, <4>2
      <4> QED
        BY <1>1, <3>1, <4>3, <4>4 DEF ScanOk
    <3>2. CASE cursor[h].mode # "scan"
      BY <1>1, <3>2 DEF ScanOk
    <3> QED
      BY <3>1, <3>2
  <2>4. \A g \in Handler : g = h
    BY DEF OneHandler
  <2> QED
    BY <1>2, <2>3, <2>4, ScansNext
<1> QED
  BY <1>3, <1>4

LEMMA NoTxScans == ASSUME ~InTransaction' PROVE TxScans'
BY DEF TxScans

LEMMA OperationKeepsScans ==
  ASSUME OneHandler, TypeInv, DeferInv, TxScans, Operation
  PROVE  TxScans'
<1>1. ASSUME NEW op \in Op, OtherWrites(op) PROVE TxScans'
  BY <1>1, ScansKept DEF OtherWrites
<1>2. ASSUME NEW k \in Key, NEW v \in Value, WriteRow(k, v) PROVE TxScans'
  <2>1. PICK op \in Op : op = PutOp(k, v) /\ op.key = k /\ ~op.deleteEntry
    BY OpTypes
  <2>2. /\ InTransaction /\ ForgetPositions /\ (AllClosed \/ \E h \in Handler : At(h, k))
        /\ tx' \in Transaction /\ tx'.deferring = tx.deferring /\ tx'.pending = tx.pending
        /\ tx'.cache = Effect(tx.cache, <<op>>)
        /\ Keys(tx'.cache) = Keys(tx.cache) => tx'.order = tx.order
    BY <1>2, <2>1, WriteRowIs
  <2>3. tx.cache \in Map
    BY <2>2, InTx, Fields DEF TypeInv
  <2>4. k \in Keys(tx.cache) => tx'.order = tx.order
    BY <2>1, <2>2, <2>3, PutKeepsKeys
  <2>5. ~AllClosed /\ k \in Keys(tx.cache) => tx'.order = tx.order
    BY <2>4
  <2>6. ~AllClosed => \A j \in Key : In(tx'.pending, j) => In(tx.pending, j) \/ j = k
    BY <2>2
  <2> QED
    BY <2>2, <2>5, <2>6, StatementKeepsScans
<1>3. ASSUME NEW k \in Key, DeleteRow(k) PROVE TxScans'
  <2>1. PICK op \in Op : op = RemoveOp(k) /\ op.key = k
    BY OpTypes
  <2>2. /\ InTransaction /\ ForgetPositions /\ (AllClosed \/ \E h \in Handler : At(h, k))
        /\ tx' \in Transaction /\ tx'.deferring = tx.deferring
        /\ tx.deferring => /\ tx'.pending = Append(tx.pending, op) /\ tx'.order = tx.order
    BY <1>3, <2>1, DeleteRowIs
  <2>3. ~AllClosed => tx.deferring
    BY <2>2 DEF TxScans
  <2>4. tx.pending \in Seq(Op)
    BY <2>2, InTx, Fields DEF TypeInv
  <2>5. ~AllClosed => \A j \in Key : In(tx'.pending, j) => In(tx.pending, j) \/ j = k
    <3>1. PICK q \in Seq(Op) : q = tx.pending
      BY <2>4
    <3>2. \A j : In(Append(q, op), j) <=> In(q, j) \/ op.key = j
      BY OwnAppend
    <3>3. ~AllClosed => tx'.pending = Append(q, op)
      BY <2>2, <2>3, <3>1
    <3> QED
      BY <2>1, <3>1, <3>2, <3>3
  <2> QED
    BY <2>2, <2>3, <2>5, StatementKeepsScans
<1>4. ASSUME NEW op \in Op, WriteThrough(op) PROVE TxScans'
  <2>1. ~InTransaction'
    BY <1>4 DEF WriteThrough, InTransaction
  <2> QED
    BY <2>1, NoTxScans
<1>5. ASSUME Begin PROVE TxScans'
  <2>1. tx' \in Transaction /\ ForgetPositions /\ AllClosed
    BY <1>5, NewTxType DEF Begin
  <2>2. AllClosed' /\ \A h \in Handler : cursor'[h].mode = "closed"
    BY <2>1, ForgetPositionsIs, ClosedModes, OpenSame DEF TypeInv
  <2> QED
    BY <2>1, <2>2, ClosedScanOk, ScansNext
<1>6. ASSUME tx' = NoTx PROVE TxScans'
  BY <1>6 DEF TxScans, InTransaction
<1>7. ASSUME NEW h \in Handler, NEW k \in Key, IndexRead(h, k) PROVE TxScans'
  <2>1. tx' \in Transaction /\ AllClosed /\ ForgetPositions
    BY <1>7, IndexReadIs, Open
  <2>2. AllClosed' /\ \A g \in Handler : cursor'[g].mode = "closed"
    BY <2>1, ForgetPositionsIs, ClosedModes, OpenSame DEF TypeInv
  <2> QED
    BY <2>1, <2>2, ClosedScanOk, ScansNext
<1>8. ASSUME NEW h \in Handler, NEW mode \in {"scan", "pos"}, RndInit(h, mode) PROVE TxScans'
  <2>1. /\ InTransaction /\ CanInit(h, mode)
        /\ tx' \in Transaction /\ Enumerates(tx'.order, tx'.cache) /\ tx'.pending = tx.pending
        /\ tx'.deferring
        /\ cursor'[h].mode = mode /\ cursor'[h].position = None
        /\ heard'[h].row = NoRow /\ heard'[h].got = << >> /\ heard'[h].due = Keys(tx'.cache)
    BY <1>8, RndInitIs
  <2>2. tx.pending = << >>
    <3>1. CASE ~IsOpen(h)
      BY <2>1, <3>1, Open, NoneOpen
    <3>2. CASE IsOpen(h)
      BY <2>1, <3>2 DEF CanInit
    <3> QED
      BY <3>1, <3>2
  <2>3. Walk(tx'.order, cursor'[h], heard'[h])
    BY <2>1, Fields, WalkStart DEF Enumerates
  <2>4. ScanOk(tx', cursor'[h], heard'[h])
    BY <2>1, <2>2, <2>3, NothingIn DEF ScanOk
  <2>5. \A g \in Handler : g = h
    BY DEF OneHandler
  <2> QED
    BY <2>1, <2>4, <2>5, ScansNext
<1>9. ASSUME NEW h \in Handler, NEW mode \in {"scan", "pos"}, AutoRndInit(h, mode) PROVE TxScans'
  <2>1. ~InTransaction'
    BY <1>9, AutoRndInitIs, InTransactionSame
  <2> QED
    BY <2>1, NoTxScans
<1>10. ASSUME NEW h \in Handler, RndNext(h) \/ Position(h) \/ ByPosition(h) PROVE TxScans'
  <2>1. tx' = tx /\ InTransaction' = InTransaction /\ AllClosed' = AllClosed
    BY <1>10, RowScanModes, OpenSame, InTransactionSame
  <2>2. SUFFICES ASSUME InTransaction PROVE TxScans'
    BY <2>1, NoTxScans
  <2>3. tx \in Transaction /\ (tx.deferring \/ AllClosed) /\ ScanOk(tx, cursor[h], heard[h])
    BY <2>2, InTx DEF TypeInv, TxScans
  <2>4. heard[h] \in Heard
    BY DEF TypeInv, ScansOk
  <2>5. ScanOk(tx, cursor'[h], heard'[h])
    <3>1. CASE Position(h)
      BY <2>3, <3>1, PositionIs, ScanOkSame
    <3>2. CASE ByPosition(h)
      BY <3>2, ByPositionIs DEF ScanOk
    <3>3. CASE RndNext(h)
      <4>1. PICK i \in Nat : i = cursor[h].position + 1
        BY <3>3, RndNextIs
      <4>2. PICK row \in Row \cup {EndOfFile} : Fetched(h, row) /\ row = FindRow(h, i)
        BY <3>3, <4>1, RndNextIs
      <4>3. /\ heard'[h].row = row /\ heard'[h].due = heard[h].due
            /\ heard'[h].got = IF row = EndOfFile THEN heard[h].got
                               ELSE Append(heard[h].got, row.key)
        BY <3>3, <4>2, RndNextIs, FetchedIs DEF TypeInv
      <4>4. \/ row = EndOfFile /\ i >= Len(tx.order)
            \/ row \in Row /\ i + 1 \in 1..Len(tx.order) /\ row.key = tx.order[i + 1]
        BY <2>2, <4>2, FindRowIs DEF TypeInv
      <4>5. /\ cursor[h].mode = "scan" /\ cursor'[h].mode = "scan" /\ heard[h].row # EndOfFile
            /\ cursor'[h].position = cursor[h].position + 1
        BY <3>3, RndNextIs
      <4>6. /\ Walk(tx.order, cursor[h], heard[h])
            /\ \A j \in Key : In(tx.pending, j) => j \in Range(heard[h].got)
        BY <2>3, <4>5 DEF ScanOk
      <4>7. Walk(tx.order, cursor'[h], heard'[h])
        BY <2>3, <2>4, <4>1, <4>3, <4>4, <4>5, <4>6, Fields, WalkNext
      <4>8. Range(heard[h].got) \subseteq Range(heard'[h].got)
        <5>1. PICK s \in Seq(Key) : s = heard[h].got
          BY <2>4, HeardFields
        <5>2. CASE row = EndOfFile
          BY <4>3, <5>2
        <5>3. CASE row # EndOfFile
          <6>1. PICK l \in Seq(Key) : l = Append(s, row.key)
            <7>1. row.key \in Key
              BY <5>3, RowFields
            <7>2. Append(s, row.key) \in Seq(Key)
              BY <7>1
            <7> QED
              BY <7>2
          <6>2. DOMAIN s \subseteq DOMAIN l /\ \A j \in DOMAIN s : l[j] = s[j]
            BY <6>1
          <6> QED
            BY <4>3, <5>1, <5>3, <6>1, <6>2 DEF Range
        <5> QED
          BY <5>2, <5>3
      <4> QED
        BY <4>5, <4>6, <4>7, <4>8 DEF ScanOk
    <3> QED
      BY <1>10, <3>1, <3>2, <3>3
  <2>6. \A g \in Handler : g = h
    BY DEF OneHandler
  <2> QED
    BY <2>1, <2>3, <2>5, <2>6, ScansNext
<1>11. ASSUME NEW h \in Handler, RndEnd(h) PROVE TxScans'
  <2>1. CASE InTransaction
    <3>1. cursor'[h].mode = "closed" /\ tx' \in Transaction
      BY <1>11, <2>1, RndEndIs
    <3>2. \A g \in Handler : g = h
      BY DEF OneHandler
    <3>3. AllClosed'
      BY <3>1, <3>2 DEF AllClosed, IsOpen
    <3> QED
      BY <3>1, <3>2, <3>3, ClosedScanOk, ScansNext
  <2>2. CASE ~InTransaction
    <3>1. ~InTransaction'
      BY <1>11, <2>2, RndEndIs, InTransactionSame
    <3> QED
      BY <3>1, NoTxScans
  <2> QED
    BY <2>1, <2>2
<1> QED
  BY <1>1, <1>2, <1>3, <1>4, <1>5, <1>6, <1>7, <1>8, <1>9, <1>10, <1>11, OpTypes
     DEF Operation, Commit, Rollback, ByPosition

LEMMA NextKeepsScans ==
  ASSUME OneHandler, TypeInv, DeferInv, TxScans, [Next]_vars
  PROVE  TxScans'
<1>1. CASE Operation /\ UNCHANGED useCache
  BY <1>1, OperationKeepsScans
<1>2. CASE SetCache \/ UNCHANGED vars
  BY <1>2, ScansKept DEF SetCache, vars
<1> QED
  BY <1>1, <1>2 DEF Next

\* A scan outside of a transaction, over a vector that it filled.
AutoScanOk(c, g) ==
  c.mode = "scan" => Walk(KeysOf(c.rows), c, g) /\ Distinct(KeysOf(c.rows))

AutoScans ==
  /\ \A h \in Handler : cursor[h].mode = "closed" => cursor[h].rows = << >>
  /\ ~InTransaction => \A h \in Handler : AutoScanOk(cursor[h], heard[h])

\* A step that moves no scan.
LEMMA AutoScansKept ==
  ASSUME AutoScans, InTransaction => InTransaction' \/ AllClosed,
         \A h \in Handler :
              /\ cursor'[h].mode = cursor[h].mode /\ cursor'[h].position = cursor[h].position
              /\ cursor'[h].rows = cursor[h].rows
              /\ heard'[h].row = heard[h].row /\ heard'[h].got = heard[h].got
              /\ heard'[h].due = heard[h].due
  PROVE  AutoScans'
<1>1. \A h \in Handler : cursor'[h].mode = "closed" => cursor'[h].rows = << >>
  BY DEF AutoScans
<1>2. ASSUME ~InTransaction', NEW h \in Handler PROVE AutoScanOk(cursor'[h], heard'[h])
  <2>1. CASE cursor[h].mode # "scan"
    BY <2>1 DEF AutoScanOk
  <2>2. CASE cursor[h].mode = "scan"
    <3>1. ~InTransaction
      BY <1>2, <2>2, ClosedModes
    <3>2. Walk(KeysOf(cursor[h].rows), cursor[h], heard[h]) /\ Distinct(KeysOf(cursor[h].rows))
      BY <2>2, <3>1 DEF AutoScans, AutoScanOk
    <3>3. Walk(KeysOf(cursor'[h].rows), cursor'[h], heard'[h])
      BY <3>2, WalkSame
    <3> QED
      BY <3>2, <3>3 DEF AutoScanOk
  <2> QED
    BY <2>1, <2>2
<1> QED
  BY <1>1, <1>2 DEF AutoScans

\* A step of one handler.
LEMMA AutoScansNext ==
  ASSUME AutoScans, InTransaction' = InTransaction, NEW h \in Handler,
         \A g \in Handler \ {h} : cursor'[g] = cursor[g] /\ heard'[g] = heard[g],
         cursor'[h].mode = "closed" => cursor'[h].rows = << >>,
         ~InTransaction => AutoScanOk(cursor'[h], heard'[h])
  PROVE  AutoScans'
<1>1. \A g \in Handler : cursor'[g].mode = "closed" => cursor'[g].rows = << >>
  BY DEF AutoScans
<1>2. ASSUME ~InTransaction', NEW g \in Handler PROVE AutoScanOk(cursor'[g], heard'[g])
  <2>1. CASE g = h
    BY <1>2, <2>1
  <2>2. CASE g # h
    BY <1>2, <2>2 DEF AutoScans
  <2> QED
    BY <2>1, <2>2
<1> QED
  BY <1>1, <1>2 DEF AutoScans

LEMMA OperationKeepsAutoScans ==
  ASSUME FALSE \notin Rescans, TypeInv, AutoScans, Operation
  PROVE  AutoScans'
<1>1. ASSUME UNCHANGED <<cursor, heard, tx>> PROVE AutoScans'
  BY <1>1, AutoScansKept DEF InTransaction
<1>2. ASSUME ForgetPositions, InTransaction => InTransaction' \/ AllClosed PROVE AutoScans'
  BY <1>2, ForgetPositionsIs, AutoScansKept DEF TypeInv
<1>3. ASSUME NEW op \in Op, OtherWrites(op) PROVE AutoScans'
  BY <1>1, <1>3 DEF OtherWrites
<1>4. ASSUME NEW k \in Key, NEW v \in Value, WriteRow(k, v) PROVE AutoScans'
  BY <1>2, <1>4, WriteRowIs, InTransactionNext
<1>5. ASSUME NEW k \in Key, DeleteRow(k) PROVE AutoScans'
  BY <1>2, <1>5, DeleteRowIs, InTransactionNext
<1>6. ASSUME NEW op \in Op, WriteThrough(op) PROVE AutoScans'
  BY <1>2, <1>6 DEF WriteThrough, Statement
<1>7. CASE Begin \/ Commit \/ Rollback
  BY <1>2, <1>7 DEF Begin, Commit, Rollback
<1>8. ASSUME NEW h \in Handler, NEW k \in Key, IndexRead(h, k) PROVE AutoScans'
  <2>1. InTransaction'
    BY <1>8, IndexReadIs, InTransactionNext
  <2>2. CASE AllClosed
    BY <1>2, <1>8, <2>1, <2>2, IndexReadIs
  <2>3. CASE ~AllClosed
    BY <1>8, <2>1, <2>3, IndexReadIs, AutoScansKept
  <2> QED
    BY <2>2, <2>3
<1>9. ASSUME NEW h \in Handler, NEW mode \in {"scan", "pos"}, RndInit(h, mode) PROVE AutoScans'
  <2>1. InTransaction /\ InTransaction'
    BY <1>9, RndInitIs, InTransactionNext
  <2>2. cursor'[h].mode # "closed"
    BY <1>9, RndInitIs
  <2> QED
    BY <1>9, <2>1, <2>2, RndInitIs, AutoScansNext
<1>10. ASSUME NEW h \in Handler, NEW mode \in {"scan", "pos"}, AutoRndInit(h, mode) PROVE AutoScans'
  <2>1. ~InTransaction /\ InTransaction' = InTransaction /\ CanInit(h, mode)
    BY <1>10, AutoRndInitIs, InTransactionSame
  <2>2. cursor[h].rows = << >>
    <3>1. ~IsOpen(h)
      <4>1. InTransaction = FALSE
        BY <2>1 DEF InTransaction
      <4>2. InTransaction \notin Rescans
        BY <4>1
      <4> QED
        BY <2>1, <4>2 DEF CanInit
    <3> QED
      BY <3>1 DEF IsOpen, AutoScans
  <2>3. PICK rows \in Seq(Row) :
          /\ cursor'[h].rows = cursor[h].rows \o rows
          /\ heard'[h].due = {rows[i].key : i \in DOMAIN rows}
          /\ \A i, j \in DOMAIN rows : rows[i].key = rows[j].key => i = j
    BY <1>10, AutoRndInitIs
  <2>4. cursor'[h].rows = rows
    <3>1. << >> \o rows = rows
      OBVIOUS
    <3> QED
      BY <2>2, <2>3, <3>1
  <2>5. PICK keys \in Seq(Key) : keys = KeysOf(rows)
    BY KeysOfIs
  <2>6. Distinct(keys) /\ heard'[h].due = Range(keys)
    BY <2>3, <2>5, KeysOfIs DEF Distinct, KeysOf
  <2>7. Walk(keys, cursor'[h], heard'[h])
    BY <1>10, <2>6, AutoRndInitIs, WalkStart
  <2>8. AutoScanOk(cursor'[h], heard'[h])
    BY <2>4, <2>5, <2>6, <2>7 DEF AutoScanOk
  <2>9. cursor'[h].mode # "closed"
    BY <1>10, AutoRndInitIs
  <2> QED
    BY <1>10, <2>1, <2>8, <2>9, AutoRndInitIs, AutoScansNext
<1>11. ASSUME NEW h \in Handler, RndNext(h) PROVE AutoScans'
  <2>1. InTransaction' = InTransaction
    BY <1>11, RndNextIs, InTransactionSame
  <2>2. PICK i \in Nat : i = cursor[h].position + 1
    BY <1>11, RndNextIs
  <2>3. PICK row \in Row \cup {EndOfFile} : Fetched(h, row) /\ row = FindRow(h, i)
    BY <1>11, <2>2, RndNextIs
  <2>4. /\ heard'[h].row = row /\ heard'[h].due = heard[h].due
        /\ heard'[h].got = IF row = EndOfFile THEN heard[h].got
                           ELSE Append(heard[h].got, row.key)
        /\ \A g \in Handler \ {h} : heard'[g] = heard[g]
    BY <1>11, <2>3, RndNextIs, FetchedIs DEF TypeInv
  <2>5. /\ cursor[h].mode = "scan" /\ cursor'[h].mode = "scan" /\ heard[h].row # EndOfFile
        /\ cursor'[h].position = cursor[h].position + 1 /\ cursor'[h].rows = cursor[h].rows
        /\ \A g \in Handler \ {h} : cursor'[g] = cursor[g]
    BY <1>11, RndNextIs
  <2>6. ASSUME ~InTransaction PROVE AutoScanOk(cursor'[h], heard'[h])
    <3>1. PICK rows \in Seq(Row) : rows = cursor[h].rows
      BY CursorFields DEF TypeInv, ScansOk
    <3>2. PICK keys \in Seq(Key) : keys = KeysOf(rows)
      BY KeysOfIs
    <3>3. Walk(keys, cursor[h], heard[h]) /\ Distinct(keys)
      BY <2>5, <2>6, <3>1, <3>2 DEF AutoScans, AutoScanOk
    <3>4. \/ row = EndOfFile /\ i >= Len(rows)
          \/ row \in Row /\ i + 1 \in 1..Len(rows) /\ row = rows[i + 1]
      BY <2>3, <2>6, <3>1, FindRowIs DEF TypeInv
    <3>5. \/ row = EndOfFile /\ i >= Len(keys)
          \/ row \in Row /\ i + 1 \in 1..Len(keys) /\ row.key = keys[i + 1]
      BY <3>2, <3>4, KeysOfIs
    <3>6. heard[h] \in Heard
      BY DEF TypeInv, ScansOk
    <3>7. Walk(keys, cursor'[h], heard'[h])
      BY <2>2, <2>4, <2>5, <3>3, <3>5, <3>6, WalkNext
    <3> QED
      BY <2>5, <3>1, <3>2, <3>3, <3>7 DEF AutoScanOk
  <2> QED
    BY <2>1, <2>4, <2>5, <2>6, AutoScansNext
<1>12. ASSUME NEW h \in Handler, Position(h) PROVE AutoScans'
  <2>1. InTransaction' = InTransaction
    BY <1>12, PositionIs, InTransactionSame
  <2>2. \A g \in Handler :
              /\ cursor'[g].mode = cursor[g].mode /\ cursor'[g].position = cursor[g].position
              /\ cursor'[g].rows = cursor[g].rows
              /\ heard'[g].row = heard[g].row /\ heard'[g].got = heard[g].got
              /\ heard'[g].due = heard[g].due
    BY <1>12, PositionIs
  <2> QED
    BY <2>1, <2>2, AutoScansKept
<1>13. ASSUME NEW h \in Handler, ByPosition(h) PROVE AutoScans'
  <2>1. InTransaction' = InTransaction /\ cursor' = cursor /\ cursor[h].mode = "pos"
    BY <1>13, ByPositionIs, InTransactionSame
  <2>2. \A g \in Handler \ {h} : heard'[g] = heard[g]
    BY <1>13, ByPositionIs, FetchedIs DEF TypeInv
  <2>3. AutoScanOk(cursor'[h], heard'[h])
    BY <2>1 DEF AutoScanOk
  <2> QED
    BY <2>1, <2>2, <2>3, AutoScansNext
<1>14. ASSUME NEW h \in Handler, RndEnd(h) PROVE AutoScans'
  <2>1. InTransaction' = InTransaction
    <3>1. InTransaction => InTransaction'
      BY <1>14, RndEndIs, InTransactionNext
    <3>2. ~InTransaction => InTransaction' = InTransaction
      BY <1>14, RndEndIs, InTransactionSame
    <3> QED
      BY <3>1, <3>2 DEF InTransaction
  <2>2. AutoScanOk(cursor'[h], heard'[h]) /\ cursor'[h].rows = << >>
    BY <1>14, RndEndIs DEF AutoScanOk
  <2> QED
    BY <1>14, <2>1, <2>2, RndEndIs, AutoScansNext
<1> QED
  BY <1>3, <1>4, <1>5, <1>6, <1>7, <1>8, <1>9, <1>10, <1>11, <1>12, <1>13, <1>14, OpTypes
     DEF Operation, ByPosition

LEMMA NextKeepsAutoScans ==
  ASSUME FALSE \notin Rescans, TypeInv, AutoScans, [Next]_vars
  PROVE  AutoScans'
<1>1. CASE Operation /\ UNCHANGED useCache
  BY <1>1, OperationKeepsAutoScans
<1>2. CASE SetCache \/ UNCHANGED vars
  BY <1>2, AutoScansKept DEF SetCache, vars, InTransaction
<1> QED
  BY <1>1, <1>2 DEF Next

LEMMA InitScans == Init => TxScans /\ AutoScans
BY DEF Init, TxScans, AutoScans, InTransaction, AutoScanOk, Closed

LEMMA ScansComplete ==
  ASSUME TypeInv, TxScans, AutoScans
  PROVE  ScanComplete
<1> SUFFICES ASSUME NEW h \in Handler, heard[h].row = EndOfFile, cursor[h].mode = "scan"
             PROVE  /\ Range(heard[h].got) = heard[h].due
                    /\ Len(heard[h].got) = Cardinality(heard[h].due)
  BY DEF ScanComplete
<1>1. heard[h] \in Heard
  BY DEF TypeInv, ScansOk
<1>2. CASE InTransaction
  <2>1. Walk(tx.order, cursor[h], heard[h])
    BY <1>2 DEF TxScans, ScanOk
  <2>2. tx.order \in Seq(Key) /\ Distinct(tx.order)
    BY <1>2, InTx, Fields DEF TypeInv, Enumerates, Distinct
  <2> QED
    BY <1>1, <2>1, <2>2, WalkEnds
<1>3. CASE ~InTransaction
  <2>1. Walk(KeysOf(cursor[h].rows), cursor[h], heard[h]) /\ Distinct(KeysOf(cursor[h].rows))
    BY <1>3 DEF AutoScans, AutoScanOk
  <2>2. KeysOf(cursor[h].rows) \in Seq(Key)
    BY KeysOfIs, CursorFields DEF TypeInv, ScansOk
  <2> QED
    BY <1>1, <2>1, <2>2, WalkEnds
<1> QED
  BY <1>2, <1>3

\* rnd_init and rnd_next: a scan that came to the end of the file returned every
\* row of the table that it started with and each once, though rows were changed
\* and removed under it, if a second rnd_init always asks for a new scan.
THEOREM CompleteScans == ASSUME OneHandler, FALSE \notin Rescans PROVE Spec => []ScanComplete
<1> DEFINE Inv == TypeInv /\ DeferInv /\ TxScans /\ AutoScans
<1>1. Init => Inv
  BY InitTypes, InitDefers, InitScans
<1>2. Inv /\ [Next]_vars => Inv'
  BY NextKeepsTypes, NextDefers, NextKeepsScans, NextKeepsAutoScans
<1>3. Inv => ScanComplete
  BY ScansComplete
<1> QED
  BY <1>1, <1>2, <1>3, PTL DEF Spec

-----------------------------------------------------------------------------
(***************************************************************************)
(* No row leaves the cache during a scan.                                  *)
(***************************************************************************)
LEMMA ScanKeepsCache ==
  ASSUME OneHandler, TypeInv, TxScans, [Next]_vars,
         NEW h \in Handler, InTransaction, cursor[h].mode = "scan", cursor'[h].mode = "scan",
         cursor'[h].position # None
  PROVE  Keys(tx.cache) \subseteq Keys(tx'.cache)
<1>1. ~AllClosed /\ IsOpen(h)
  BY DEF AllClosed, IsOpen
<1>2. tx.deferring
  BY <1>1 DEF TxScans
<1>3. \A g \in Handler : g = h
  BY DEF OneHandler
<1>4. ASSUME tx' = tx PROVE Keys(tx.cache) \subseteq Keys(tx'.cache)
  BY <1>4
<1>5. ASSUME NEW k \in Key, NEW v \in Value, WriteRow(k, v)
      PROVE  Keys(tx.cache) \subseteq Keys(tx'.cache)
  <2>1. PICK op \in Op : op = PutOp(k, v) /\ ~op.deleteEntry
    BY OpTypes
  <2>2. tx.cache \in Map
    BY InTx, Fields DEF TypeInv
  <2>3. tx'.cache = Effect(tx.cache, <<op>>)
    BY <1>5, <2>1, WriteRowIs
  <2> QED
    BY <2>1, <2>2, <2>3, PutKeepsKeys
<1>6. ASSUME NEW k \in Key, DeleteRow(k) PROVE Keys(tx.cache) \subseteq Keys(tx'.cache)
  BY <1>2, <1>6, DeleteRowIs
<1>7. ASSUME NEW g \in Handler, NEW mode \in {"scan", "pos"}, RndInit(g, mode) PROVE FALSE
  BY <1>3, <1>7, RndInitIs
<1>8. ASSUME NEW g \in Handler, RndEnd(g) PROVE FALSE
  BY <1>3, <1>8, RndEndIs
<1>9. ASSUME NEW g \in Handler, NEW k \in Key, IndexRead(g, k) PROVE FALSE
  BY <1>1, <1>3, <1>9, IndexReadIs
<1>10. ASSUME NEW g \in Handler, RndNext(g) \/ Position(g) \/ ByPosition(g) PROVE tx' = tx
  BY <1>10, RowScanModes
<1>11. CASE Operation
  BY <1>1, <1>4, <1>5, <1>6, <1>7, <1>8, <1>9, <1>10, <1>11
     DEF Operation, OtherWrites, WriteThrough, Begin, Commit, Rollback, AutoRndInit, ByPosition
<1>12. CASE SetCache \/ UNCHANGED vars
  BY <1>4, <1>12 DEF SetCache, vars
<1> QED
  BY <1>11, <1>12 DEF Next

\* delete_row during a scan: the remove waits in pendingRemoveOperations, and no row
\* leaves the cache as long as the scan that has returned rows goes on.
THEOREM DeferredRemoves == ASSUME OneHandler PROVE Spec => RemovesDeferred
<1> DEFINE Inv == TypeInv /\ DeferInv /\ TxScans
           Kept == \A h \in Handler :
                     InTransaction /\ cursor[h].mode = "scan" /\ cursor'[h].mode = "scan" /\
                       cursor'[h].position # None =>
                         Keys(tx.cache) \subseteq Keys(tx'.cache)
<1>1. Init => Inv
  BY InitTypes, InitDefers, InitScans
<1>2. Inv /\ [Next]_vars => Inv'
  BY NextKeepsTypes, NextDefers, NextKeepsScans
<1>3. Inv /\ [Next]_vars => [Kept]_vars
  BY ScanKeepsCache
<1>4. Spec => [][Kept]_vars
  <2> HIDE DEF Kept
  <2> QED
    BY <1>1, <1>2, <1>3, PTL DEF Spec
<1> QED
  BY <1>4 DEF RemovesDeferred

-----------------------------------------------------------------------------
(***************************************************************************)
(* Stored positions.  With the cache, each of them is that of its row in a *)
(* cache that was filled and that keeps its order until the positions are  *)
(* forgotten: a pass over them writes rows that are in the cache, and its  *)
(* removes wait for its end.                                               *)
(***************************************************************************)
PosOk(x, c, g) ==
  /\ \A r \in g.saved : /\ x.filled /\ r.index + 1 \in 1..Len(x.order)
                         /\ x.order[r.index + 1] = r.key
  /\ c.mode = "pos" /\ g.row \in Row => g.row.key \in Range(x.order)

Positions ==
  InTransaction => /\ ~AllClosed => tx.filled
                   /\ useCache => \A h \in Handler : PosOk(tx, cursor[h], heard[h])

LEMMA NoPosOk ==
  ASSUME NEW x, NEW c, NEW g, g.saved = {}, c.mode # "pos"
  PROVE  PosOk(x, c, g)
BY DEF PosOk

LEMMA PosOkSame ==
  ASSUME NEW x, NEW c, NEW g, PosOk(x, c, g), NEW y, NEW d, NEW e,
         y.order = x.order, y.filled = x.filled, e.saved \subseteq g.saved,
         d.mode = "pos" => c.mode = "pos" /\ e.row = g.row
  PROVE  PosOk(y, d, e)
BY DEF PosOk

LEMMA PositionsNext ==
  ASSUME tx' \in Transaction,  tx'.filled \/ AllClosed',
         useCache' => \A h \in Handler : PosOk(tx', cursor'[h], heard'[h])
  PROVE  Positions'
BY DEF Positions

LEMMA NoPositions == ASSUME ~InTransaction' PROVE Positions'
BY DEF Positions

LEMMA PositionsKept ==
  ASSUME Positions, UNCHANGED <<tx, cursor, heard, useCache>>
  PROVE  Positions'
BY DEF Positions, InTransaction, AllClosed, IsOpen

\* A statement forgets the positions that are not in use, and keeps the order of
\* the cache for those that are.
LEMMA StatementKeepsPositions ==
  ASSUME OneHandler, TypeInv, Positions, InTransaction, ForgetPositions, UNCHANGED useCache,
         tx' \in Transaction, tx'.filled = tx.filled,
         NEW k \in Key, AllClosed \/ \E h \in Handler : At(h, k),
         ~AllClosed /\ k \in Keys(tx.cache) => tx'.order = tx.order
  PROVE  Positions'
<1>1. /\ cursor' = cursor
      /\ \A h \in Handler : /\ cursor[h].mode = "pos" => heard'[h] = heard[h]
                            /\ cursor[h].mode # "pos" => heard'[h].saved = {}
      /\ AllClosed' = AllClosed
  BY ForgetPositionsIs, OpenSame DEF TypeInv
<1>2. tx'.filled \/ AllClosed'
  BY <1>1 DEF Positions
<1>3. ASSUME useCache, NEW h \in Handler PROVE PosOk(tx', cursor'[h], heard'[h])
  <2>1. CASE cursor[h].mode # "pos"
    BY <1>1, <2>1, NoPosOk
  <2>2. CASE cursor[h].mode = "pos"
    <3>1. ~AllClosed
      BY <2>2 DEF AllClosed, IsOpen
    <3>2. heard[h].row \in Row /\ heard[h].row.key = k
      <4>1. PICK g \in Handler : At(g, k)
        BY <3>1
      <4>2. g = h
        BY DEF OneHandler
      <4> QED
        BY <4>1, <4>2 DEF At
    <3>3. PosOk(tx, cursor[h], heard[h])
      BY <1>3 DEF Positions
    <3>4. k \in Keys(tx.cache)
      BY <2>2, <3>2, <3>3, InTx DEF PosOk, TypeInv, Enumerates
    <3>5. tx'.order = tx.order
      BY <3>1, <3>4
    <3> QED
      BY <1>1, <2>2, <3>3, <3>5, PosOkSame
  <2> QED
    BY <2>1, <2>2
<1> QED
  BY <1>2, <1>3, PositionsNext

LEMMA EffectNothing == ASSUME NEW m \in Map PROVE Effect(m, << >>) = m
BY DEF Effect, EffectUpTo, Touched, Map

LEMMA OperationKeepsPositions ==
  ASSUME OneHandler, TypeInv, DeferInv, TxScans, Positions, Operation, UNCHANGED useCache
  PROVE  Positions'
<1>1. ASSUME NEW op \in Op, OtherWrites(op) PROVE Positions'
  BY <1>1, PositionsKept DEF OtherWrites
<1>2. ASSUME NEW k \in Key, NEW v \in Value, WriteRow(k, v) PROVE Positions'
  <2>1. PICK op \in Op : op = PutOp(k, v) /\ op.key = k /\ ~op.deleteEntry
    BY OpTypes
  <2>2. /\ InTransaction /\ ForgetPositions /\ (AllClosed \/ \E h \in Handler : At(h, k))
        /\ tx' \in Transaction /\ tx'.filled = tx.filled
        /\ tx'.cache = Effect(tx.cache, <<op>>)
        /\ Keys(tx'.cache) = Keys(tx.cache) => tx'.order = tx.order
    BY <1>2, <2>1, WriteRowIs
  <2>3. tx.cache \in Map
    BY <2>2, InTx, Fields DEF TypeInv
  <2>4. k \in Keys(tx.cache) => tx'.order = tx.order
    BY <2>1, <2>2, <2>3, PutKeepsKeys
  <2> QED
    BY <2>2, <2>4, StatementKeepsPositions
<1>3. ASSUME NEW k \in Key, DeleteRow(k) PROVE Positions'
  <2>1. /\ InTransaction /\ ForgetPositions /\ (AllClosed \/ \E h \in Handler : At(h, k))
        /\ tx' \in Transaction /\ tx'.filled = tx.filled
        /\ tx.deferring => tx'.order = tx.order
    BY <1>3, DeleteRowIs
  <2>2. ~AllClosed => tx.deferring
    BY <2>1 DEF TxScans
  <2> QED
    BY <2>1, <2>2, StatementKeepsPositions
<1>4. ASSUME NEW op \in Op, WriteThrough(op) PROVE Positions'
  <2>1. ~InTransaction'
    BY <1>4 DEF WriteThrough, InTransaction
  <2> QED
    BY <2>1, NoPositions
<1>5. ASSUME tx' \in Transaction, ForgetPositions, AllClosed PROVE Positions'
  <2>1. AllClosed' /\ \A h \in Handler : cursor'[h].mode # "pos" /\ heard'[h].saved = {}
    BY <1>5, ForgetPositionsIs, ClosedModes, OpenSame DEF TypeInv
  <2> QED
    BY <1>5, <2>1, NoPosOk, PositionsNext
<1>6. ASSUME Begin PROVE Positions'
  BY <1>5, <1>6, NewTxType DEF Begin
<1>7. ASSUME tx' = NoTx PROVE Positions'
  BY <1>7 DEF Positions, InTransaction
<1>8. ASSUME NEW h \in Handler, NEW k \in Key, IndexRead(h, k) PROVE Positions'
  BY <1>5, <1>8, IndexReadIs, Open
<1>9. ASSUME NEW h \in Handler, NEW mode \in {"scan", "pos"}, RndInit(h, mode) PROVE Positions'
  <2>1. /\ InTransaction /\ CanInit(h, mode)
        /\ tx' \in Transaction /\ tx'.pending = tx.pending /\ tx'.filled
        /\ useCache /\ tx.filled => tx'.cache = tx.cache /\ tx'.order = tx.order
        /\ heard'[h].row = NoRow /\ heard'[h].saved = heard[h].saved
    BY <1>9, RndInitIs
  <2>2. ASSUME useCache PROVE PosOk(tx', cursor'[h], heard'[h])
    <3>1. PosOk(tx, cursor[h], heard[h])
      BY <2>1, <2>2 DEF Positions
    <3>2. heard'[h].row \notin Row
      BY <2>1, RowAssumption
    <3> QED
      BY <2>1, <2>2, <3>1, <3>2 DEF PosOk
  <2>3. \A g \in Handler : g = h
    BY DEF OneHandler
  <2> QED
    BY <2>1, <2>2, <2>3, PositionsNext
<1>10. ASSUME NEW h \in Handler, NEW mode \in {"scan", "pos"}, AutoRndInit(h, mode) PROVE Positions'
  <2>1. ~InTransaction'
    BY <1>10, AutoRndInitIs, InTransactionSame
  <2> QED
    BY <2>1, NoPositions
<1>11. ASSUME NEW h \in Handler, RndNext(h) \/ Position(h) \/ ByPosition(h) PROVE Positions'
  <2>1. tx' = tx /\ InTransaction' = InTransaction /\ AllClosed' = AllClosed
    BY <1>11, RowScanModes, OpenSame, InTransactionSame
  <2>2. SUFFICES ASSUME InTransaction PROVE Positions'
    BY <2>1, NoPositions
  <2>3. tx \in Transaction /\ (tx.filled \/ AllClosed) /\ ScanOk(tx, cursor[h], heard[h])
    BY <2>2, InTx DEF TypeInv, TxScans, Positions
  <2>4. ASSUME useCache PROVE PosOk(tx, cursor'[h], heard'[h])
    <3>0. PosOk(tx, cursor[h], heard[h])
      BY <2>2, <2>4 DEF Positions
    <3>1. CASE RndNext(h)
      <4>1. cursor'[h].mode = "scan" /\ heard'[h].saved = heard[h].saved
        BY <3>1, RndNextIs, FetchedIs DEF TypeInv
      <4> QED
        BY <3>0, <4>1, PosOkSame
    <3>2. CASE Position(h)
      <4>1. /\ cursor[h].mode = "scan" /\ heard[h].row \in Row /\ cursor[h].position \in Nat
            /\ cursor' = cursor
            /\ \A r \in heard'[h].saved :
                 \/ r \in heard[h].saved
                 \/ r.index = cursor[h].position /\ r.key = heard[h].row.key
        BY <2>2, <3>2, PositionIs
      <4>2. tx.filled
        BY <2>3, <4>1, ClosedModes
      <4>3. Walk(tx.order, cursor[h], heard[h])
        BY <2>3, <4>1 DEF ScanOk
      <4>4. PICK n \in Nat : n = Len(heard[h].got)
        BY HeardFields DEF TypeInv, ScansOk
      <4>5. PICK l \in Nat : l = Len(tx.order)
        BY <2>3, Fields
      <4>6. /\ n <= l /\ n >= 1 /\ cursor[h].position + 1 = n
            /\ heard[h].row.key = heard[h].got[n] /\ heard[h].got[n] = tx.order[n]
        BY <4>1, <4>3, <4>4, <4>5, RowFields DEF Walk
      <4>7. \A r \in heard'[h].saved : /\ tx.filled /\ r.index + 1 \in 1..Len(tx.order)
                                       /\ tx.order[r.index + 1] = r.key
        BY <3>0, <4>1, <4>2, <4>5, <4>6 DEF PosOk
      <4> QED
        BY <4>1, <4>7 DEF PosOk
    <3>3. CASE ByPosition(h)
      <4>1. PICK ref \in heard[h].saved : RndPos(h, ref)
        BY <3>3 DEF ByPosition
      <4>2. PICK i \in Nat : i = ref.index
        BY <4>1, RndPosIs
      <4>3. PICK row \in Row \cup {EndOfFile} : Fetched(h, row) /\ row = FindRow(h, i)
        BY <4>1, <4>2, RndPosIs
      <4>4. heard'[h].row = row /\ heard'[h].saved = heard[h].saved
        BY <4>3, FetchedIs DEF TypeInv
      <4>5. row \in Row => row.key \in Keys(tx.cache)
        BY <2>2, <4>3, FindRowIs, RowFields DEF TypeInv
      <4>6. row \in Row => row.key \in Range(tx.order)
        BY <2>2, <4>5, InTx DEF TypeInv, Enumerates
      <4> QED
        BY <3>0, <4>4, <4>6 DEF PosOk
    <3> QED
      BY <1>11, <3>1, <3>2, <3>3
  <2>5. \A g \in Handler : g = h
    BY DEF OneHandler
  <2> QED
    BY <2>1, <2>3, <2>4, <2>5, PositionsNext
<1>12. ASSUME NEW h \in Handler, RndEnd(h) PROVE Positions'
  <2>1. \A g \in Handler : g = h
    BY DEF OneHandler
  <2>2. CASE InTransaction
    <3>1. /\ cursor'[h].mode = "closed"
          /\ heard'[h].saved = IF tx.pending # << >> THEN {} ELSE heard[h].saved
          /\ tx' \in Transaction /\ tx'.filled = tx.filled
          /\ useCache => /\ tx'.cache = Effect(tx.cache, tx.pending)
                         /\ Keys(tx'.cache) = Keys(tx.cache) => tx'.order = tx.order
      BY <1>12, <2>2, RndEndIs
    <3>2. AllClosed'
      BY <2>1, <3>1 DEF AllClosed, IsOpen
    <3>3. ASSUME useCache PROVE PosOk(tx', cursor'[h], heard'[h])
      <4>1. CASE tx.pending # << >>
        BY <3>1, <4>1, NoPosOk
      <4>2. CASE tx.pending = << >>
        <5>1. PosOk(tx, cursor[h], heard[h])
          BY <2>2, <3>3 DEF Positions
        <5>2. tx'.cache = tx.cache
          BY <2>2, <3>1, <3>3, <4>2, InTx, Fields, EffectNothing DEF TypeInv
        <5>3. tx'.order = tx.order
          BY <3>1, <3>3, <5>2
        <5> QED
          BY <3>1, <4>2, <5>1, <5>3, PosOkSame
      <4> QED
        BY <4>1, <4>2
    <3> QED
      BY <2>1, <3>1, <3>2, <3>3, PositionsNext
  <2>3. CASE ~InTransaction
    <3>1. ~InTransaction'
      BY <1>12, <2>3, RndEndIs, InTransactionSame
    <3> QED
      BY <3>1, NoPositions
  <2> QED
    BY <2>2, <2>3
<1> QED
  BY <1>1, <1>2, <1>3, <1>4, <1>6, <1>7, <1>8, <1>9, <1>10, <1>11, <1>12, OpTypes
     DEF Operation, Commit, Rollback, ByPosition

LEMMA InitPositions == Init => Positions
BY DEF Init, Positions, InTransaction

LEMMA NextKeepsPositions ==
  ASSUME OneHandler, ~CacheTurns, TypeInv, DeferInv, TxScans, Positions, [Next]_vars
  PROVE  Positions'
<1>1. CASE Operation /\ UNCHANGED useCache
  BY <1>1, OperationKeepsPositions
<1>2. CASE SetCache
  <2>1. ~InTransaction'
    BY <1>2 DEF SetCache, InTransaction
  <2> QED
    BY <2>1, NoPositions
<1>3. CASE UNCHANGED vars
  BY <1>3, PositionsKept DEF vars
<1> QED
  BY <1>1, <1>2, <1>3 DEF Next

LEMMA PositionsGive == TypeInv /\ Positions => PositionsHold
<1> SUFFICES ASSUME TypeInv, Positions, useCache, InTransaction, NEW h \in Handler,
                    NEW ref \in heard[h].saved
             PROVE  FindRow(h, ref.index) # EndOfFile /\ FindRow(h, ref.index).key = ref.key
  BY DEF PositionsHold
<1>1. PICK i \in Nat : i = ref.index
  BY HeardFields, RefFields DEF TypeInv, ScansOk
<1>2. PICK row : row = FindRow(h, i)
  OBVIOUS
<1>3. i + 1 \in 1..Len(tx.order) /\ tx.order[i + 1] = ref.key
  BY <1>1 DEF Positions, PosOk
<1>4. PICK l \in Nat : l = Len(tx.order)
  BY InTx, Fields DEF TypeInv
<1>5. row \in Row /\ row.key = tx.order[i + 1]
  BY <1>2, <1>3, <1>4, FindRowIs DEF TypeInv
<1> QED
  BY <1>1, <1>2, <1>3, <1>5, RowFields

\* position and rnd_pos: with the cache, all through a pass over stored positions
\* each of them gives the row for which it was stored, although the pass updates
\* and deletes rows on the way.
THEOREM StoredPositions == ASSUME OneHandler, ~CacheTurns PROVE Spec => []PositionsHold
<1> DEFINE Inv == TypeInv /\ DeferInv /\ TxScans /\ Positions
<1>1. Init => Inv
  BY InitTypes, InitDefers, InitScans, InitPositions
<1>2. Inv /\ [Next]_vars => Inv'
  BY NextKeepsTypes, NextDefers, NextKeepsScans, NextKeepsPositions
<1>3. Inv => PositionsHold
  BY PositionsGive
<1> QED
  BY <1>1, <1>2, <1>3, PTL DEF Spec

-----------------------------------------------------------------------------
(***************************************************************************)
(* The cache, the statements and what the transaction was told.            *)
(***************************************************************************)
CellOk(x, s, told, k) ==
  /\ ~Reinserts => /\ In(s, k) => told = Own(s, k)
                   /\ In(s, k) /\ ~In(x.pending, k) => x.cache[k] = Own(s, k)
  /\ ~In(s, k) /\ told \in Value => x.cache[k] = told

Cells == useCache /\ InTransaction => \A k \in Key : CellOk(tx, stmts, seen[k], k)

\* A step that reads: a key that the transaction wrote, without reinserts, is in
\* the cache as it was written, another one that is in the cache stays there, and what is told is what
\* is in the cache.
ReadsCache ==
  /\ tx' \in Transaction /\ stmts' = stmts
  /\ \A k \in Key :
       /\ ~Reinserts /\ In(stmts, k) /\ ~In(tx'.pending, k) => tx'.cache[k] = Own(stmts, k)
       /\ ~In(stmts, k) /\ tx.cache[k] # Absent => tx'.cache[k] = tx.cache[k]
       /\ seen'[k] = seen[k] \/ (seen'[k] = tx'.cache[k] /\ ~In(tx'.pending, k))

LEMMA CellsNext ==
  ASSUME useCache, InTransaction, Cells, ReadsCache
  PROVE  Cells'
<1>1. ASSUME NEW k \in Key PROVE CellOk(tx', stmts', seen'[k], k)
  BY AbsentAssumption DEF Cells, CellOk, ReadsCache
<1> QED
  BY <1>1 DEF Cells

\* Contents of the cache that the operations were applied to again.
LEMMA Reapplied ==
  ASSUME TypeInv, OpsInv, InTransaction, tx.pending = << >>, NEW m, NEW k \in Key,
         NEW e, e = Effect(m, tx.puts \o tx.removes)
  PROVE  /\ ~Reinserts /\ In(stmts, k) => e[k] = Own(stmts, k)
         /\ ~In(stmts, k) => e[k] = m[k]
<1>1. /\ OpsOk(tx.puts, tx.removes, tx.pending, stmts) /\ stmts \in Seq(Op)
      /\ tx.puts \in Seq(Op) /\ tx.removes \in Seq(Op) /\ tx.pending \in Seq(Op)
  BY InTx, Fields DEF OpsInv, TypeInv, ClientOk
<1>2. PICK p \in Seq(Op) : p = tx.puts
  BY <1>1
<1>3. PICK r \in Seq(Op) : r = tx.removes
  BY <1>1
<1>4. PICK q \in Seq(Op) : q = tx.pending /\ ~In(q, k)
  BY <1>1, NothingIn
<1>5. OpsOk(p, r, q, stmts)
  BY <1>1, <1>2, <1>3, <1>4
<1>6. stmts \in Seq(Op) /\ ~In(q, k)
  BY <1>1, <1>4
<1>7. /\ In(p \o r, k) <=> In(stmts, k)
      /\ ~Reinserts /\ In(stmts, k) => Own(p \o r, k) = Own(stmts, k)
  BY <1>5, <1>6, OpsCommitted
<1>8. e = Effect(m, p \o r)
  BY <1>2, <1>3
<1> QED
  BY <1>7, <1>8, EffectOwn

LEMMA IndexReadReads ==
  ASSUME OneHandler, TypeInv, DeferInv, OpsInv, Cells, useCache,
         NEW h \in Handler, NEW k0 \in Key, IndexRead(h, k0)
  PROVE  ReadsCache
<1>1. PICK v \in Value \cup {Absent} :
        /\ seen' = [seen EXCEPT ![k0] = v]
        /\ \/ v = tx.cache[k0] /\ v # Absent /\ tx'.cache = tx.cache
           \/ v = Absent /\ tx.cache[k0] = Absent /\ tx' = tx
           \/ /\ tx.cache[k0] = Absent /\ v = tx'.cache[k0]
              /\ tx'.cache = Effect([tx.cache EXCEPT ![k0] = chain[k0]], tx.puts \o tx.removes)
  BY IndexReadIs
<1>2. /\ InTransaction /\ AllClosed /\ tx' \in Transaction /\ tx'.pending = tx.pending
      /\ stmts' = stmts
  BY IndexReadIs, Open
<1>3. tx.pending = << >>
  BY <1>2, NoneOpen
<1>4. tx.cache \in Map
  BY <1>2, InTx, Fields DEF TypeInv
<1>5. v = tx'.cache[k0]
  BY <1>1
<1>6. \A k \in Key : seen'[k] = seen[k] \/ (seen'[k] = tx'.cache[k] /\ ~In(tx'.pending, k))
  BY <1>1, <1>2, <1>3, <1>5, NothingIn DEF TypeInv, ClientOk
<1>7. ASSUME NEW k \in Key
      PROVE  /\ ~Reinserts /\ In(stmts, k) => tx'.cache[k] = Own(stmts, k)
             /\ ~In(stmts, k) /\ tx.cache[k] # Absent => tx'.cache[k] = tx.cache[k]
  <2>1. CASE tx'.cache = tx.cache
    <3>1. ~Reinserts /\ In(stmts, k) => tx.cache[k] = Own(stmts, k)
      BY <1>2, <1>3, NothingIn DEF Cells, CellOk
    <3> QED
      BY <2>1, <3>1
  <2>2. CASE /\ tx.cache[k0] = Absent
             /\ tx'.cache = Effect([tx.cache EXCEPT ![k0] = chain[k0]], tx.puts \o tx.removes)
    <3>1. PICK m : m = [tx.cache EXCEPT ![k0] = chain[k0]]
      OBVIOUS
    <3>2. PICK e : e = Effect(m, tx.puts \o tx.removes) /\ e = tx'.cache
      BY <2>2, <3>1
    <3>3. /\ ~Reinserts /\ In(stmts, k) => e[k] = Own(stmts, k)
          /\ ~In(stmts, k) => e[k] = m[k]
      BY <1>2, <1>3, <3>2, Reapplied
    <3>4. tx.cache[k] # Absent => m[k] = tx.cache[k]
      BY <1>4, <2>2, <3>1 DEF Map
    <3> QED
      BY <3>2, <3>3, <3>4
  <2> QED
    BY <1>1, <2>1, <2>2
<1> QED
  BY <1>2, <1>6, <1>7 DEF ReadsCache

LEMMA NothingPending ==
  ASSUME OneHandler, TypeInv, DeferInv, InTransaction, NEW h \in Handler, NEW mode, CanInit(h, mode)
  PROVE  tx.pending = << >>
<1>1. CASE ~IsOpen(h)
  BY <1>1, Open, NoneOpen
<1>2. CASE IsOpen(h)
  BY <1>2 DEF CanInit
<1> QED
  BY <1>1, <1>2

LEMMA RndInitReads ==
  ASSUME OneHandler, TypeInv, DeferInv, OpsInv, Cells, useCache,
         NEW h \in Handler, NEW mode \in {"scan", "pos"}, RndInit(h, mode)
  PROVE  ReadsCache
<1>1. /\ InTransaction /\ CanInit(h, mode) /\ tx' \in Transaction /\ tx'.pending = tx.pending
      /\ tx.filled => tx'.cache = tx.cache
      /\ ~tx.filled =>
           \E m \in Map : /\ tx'.cache = Effect(m, tx.puts \o tx.removes)
                          /\ \A k \in Key : tx.cache[k] # Absent => m[k] = tx.cache[k]
      /\ stmts' = stmts /\ seen' = seen
  BY RndInitIs DEF client
<1>2. tx.pending = << >>
  BY <1>1, NothingPending
<1>3. ASSUME NEW k \in Key
      PROVE  /\ ~Reinserts /\ In(stmts, k) => tx'.cache[k] = Own(stmts, k)
             /\ ~In(stmts, k) /\ tx.cache[k] # Absent => tx'.cache[k] = tx.cache[k]
  <2>1. CASE tx.filled
    <3>1. ~Reinserts /\ In(stmts, k) => tx.cache[k] = Own(stmts, k)
      BY <1>1, <1>2, NothingIn DEF Cells, CellOk
    <3> QED
      BY <1>1, <2>1, <3>1
  <2>2. CASE ~tx.filled
    <3>1. PICK m \in Map : /\ tx'.cache = Effect(m, tx.puts \o tx.removes)
                           /\ \A j \in Key : tx.cache[j] # Absent => m[j] = tx.cache[j]
      BY <1>1, <2>2
    <3>2. PICK e : e = Effect(m, tx.puts \o tx.removes) /\ e = tx'.cache
      BY <3>1
    <3>3. /\ ~Reinserts /\ In(stmts, k) => e[k] = Own(stmts, k)
          /\ ~In(stmts, k) => e[k] = m[k]
      BY <1>1, <1>2, <3>2, Reapplied
    <3> QED
      BY <3>1, <3>2, <3>3
  <2> QED
    BY <2>1, <2>2
<1> QED
  BY <1>1, <1>2, <1>3 DEF ReadsCache

\* A row of a scan is told as it is in the cache, unless a remove of it is pending;
\* at the end of a scan the rows that are not in the cache are told not to be there.
LEMMA FetchReads ==
  ASSUME TypeInv, TxScans, Positions, Cells, useCache, InTransaction,
         NEW h \in Handler, RndNext(h) \/ ByPosition(h)
  PROVE  ReadsCache
<1>1. tx' = tx /\ stmts' = stmts
  BY RowScanModes
<1>2. tx \in Transaction /\ tx.order \in Seq(Key) /\ tx.cache \in Map
      /\ Range(tx.order) = Keys(tx.cache) /\ Distinct(tx.order)
  BY InTx, Fields DEF TypeInv, Enumerates, Distinct
<1>3. ScanOk(tx, cursor[h], heard[h])
  BY DEF TxScans
<1>4. PICK l \in Nat : l = Len(tx.order) /\ DOMAIN tx.order = 1..l
  BY <1>2
<1>5. PICK got \in Seq(Key) : got = heard[h].got
  BY HeardFields DEF TypeInv, ScansOk
<1>6. PICK n \in Nat : n = Len(got) /\ DOMAIN got = 1..n
  BY <1>5
<1>7. SUFFICES \A k \in Key : seen'[k] = seen[k] \/ (seen'[k] = tx.cache[k] /\ ~In(tx.pending, k))
  <2>1. \A k \in Key : ~Reinserts /\ In(stmts, k) /\ ~In(tx.pending, k) => tx.cache[k] = Own(stmts, k)
    BY DEF Cells, CellOk
  <2> QED
    BY <1>1, <1>2, <2>1 DEF ReadsCache
<1>8. CASE RndNext(h)
  <2>1. PICK i \in Nat : i = cursor[h].position + 1
    BY <1>8, RndNextIs
  <2>2. PICK row \in Row \cup {EndOfFile} : Fetched(h, row) /\ row = FindRow(h, i)
    BY <1>8, <2>1, RndNextIs
  <2>3. cursor[h].mode = "scan" /\ heard[h].row # EndOfFile
    BY <1>8, RndNextIs
  <2>4. /\ i = n /\ n <= l /\ \A j \in 1..n : got[j] = tx.order[j]
        /\ \A k \in Key : In(tx.pending, k) => k \in Range(got)
    BY <1>3, <1>4, <1>5, <1>6, <2>1, <2>3 DEF ScanOk, Walk
  <2>5. \/ row = EndOfFile /\ i >= l
        \/ /\ row \in Row /\ i + 1 \in 1..l /\ row.key = tx.order[i + 1]
           /\ row.value = tx.cache[row.key]
    BY <1>4, <2>2, FindRowIs DEF TypeInv
  <2>6. \A k \in Key :
              seen'[k] = IF row # EndOfFile
                         THEN IF k = row.key THEN row.value ELSE seen[k]
                         ELSE IF k \notin Range(got) THEN Absent ELSE seen[k]
    BY <1>5, <2>2, <2>3, FetchedIs DEF TypeInv
  <2>7. CASE row # EndOfFile
    <3>1. row.key \notin Range(got)
      <4>1. ASSUME NEW j \in 1..n PROVE got[j] # row.key
        <5>1. SUFFICES ASSUME got[j] = row.key PROVE FALSE
          OBVIOUS
        <5>2. j \in 1..l /\ n + 1 \in 1..l /\ tx.order[j] = tx.order[n + 1]
          BY <2>4, <2>5, <2>7, <5>1
        <5>3. j = n + 1
          BY <1>2, <1>4, <5>2 DEF Distinct
        <5> QED
          BY <5>3
      <4> QED
        BY <1>6, <4>1 DEF Range
    <3> QED
      BY <2>4, <2>5, <2>6, <2>7, <3>1
  <2>8. CASE row = EndOfFile
    <3>1. n = l
      BY <2>4, <2>5, <2>8, RowFields
    <3>2. Range(got) = Keys(tx.cache)
      BY <1>2, <1>4, <1>6, <2>4, <3>1 DEF Range
    <3>3. \A k \in Key : k \notin Range(got) => tx.cache[k] = Absent
      BY <3>2 DEF Keys
    <3> QED
      BY <2>4, <2>6, <2>8, <3>3
  <2> QED
    BY <2>7, <2>8
<1>9. CASE ByPosition(h)
  <2>1. PICK ref \in heard[h].saved : RndPos(h, ref)
    BY <1>9 DEF ByPosition
  <2>2. PICK i \in Nat : i = ref.index
    BY <2>1, RndPosIs
  <2>3. PICK row \in Row \cup {EndOfFile} : Fetched(h, row) /\ row = FindRow(h, i)
    BY <2>1, <2>2, RndPosIs
  <2>4. cursor[h].mode = "pos" /\ \A j \in DOMAIN tx.pending : tx.pending[j].key # ref.key
    BY <2>1, RndPosIs
  <2>5. ~In(tx.pending, ref.key)
    <3>1. PICK q \in Seq(Op) : q = tx.pending
      BY <1>2, Fields
    <3> QED
      BY <2>4, <3>1 DEF In, Touched
  <2>6. i + 1 \in 1..l /\ tx.order[i + 1] = ref.key
    BY <1>4, <2>2 DEF Positions, PosOk
  <2>7. row \in Row /\ row.key = ref.key /\ row.value = tx.cache[row.key]
    BY <1>4, <2>3, <2>6, FindRowIs DEF TypeInv
  <2>8. \A k \in Key : seen'[k] = IF k = row.key THEN row.value ELSE seen[k]
    BY <2>3, <2>7, RowFields, FetchedIs DEF TypeInv
  <2> QED
    BY <2>5, <2>7, <2>8
<1> QED
  BY <1>8, <1>9

LEMMA PositionReads ==
  ASSUME TypeInv, Cells, useCache, InTransaction, NEW h \in Handler, Position(h)
  PROVE  ReadsCache
<1>1. tx' = tx /\ stmts' = stmts /\ seen' = seen /\ tx \in Transaction
  BY PositionIs, InTx DEF client, TypeInv
<1> QED
  BY <1>1 DEF ReadsCache, Cells, CellOk

LEMMA RndEndReads ==
  ASSUME TypeInv, OpsInv, Cells, useCache, InTransaction, NEW h \in Handler, RndEnd(h)
  PROVE  ReadsCache
<1>1. /\ tx' \in Transaction /\ tx'.pending = << >> /\ tx'.cache = Effect(tx.cache, tx.pending)
      /\ stmts' = stmts /\ seen' = seen
  BY RndEndIs DEF client
<1>2. ASSUME NEW k \in Key
      PROVE  /\ ~Reinserts /\ In(stmts, k) => tx'.cache[k] = Own(stmts, k)
             /\ ~In(stmts, k) => tx'.cache[k] = tx.cache[k]
  <2>1. tx'.cache[k] = IF In(tx.pending, k) THEN Own(tx.pending, k) ELSE tx.cache[k]
    BY <1>1, EffectOwn
  <2>2. In(tx.pending, k) => /\ In(stmts, k) /\ Own(tx.pending, k) = Absent
                             /\ ~Reinserts => Own(stmts, k) = Absent
    BY DEF OpsInv, OpsOk
  <2>3. ~Reinserts /\ In(stmts, k) /\ ~In(tx.pending, k) => tx.cache[k] = Own(stmts, k)
    BY DEF Cells, CellOk
  <2> QED
    BY <2>1, <2>2, <2>3
<1> QED
  BY <1>1, <1>2 DEF ReadsCache

LEMMA NoCells == ASSUME ~InTransaction' PROVE Cells'
BY DEF Cells

LEMMA CellsKept ==
  ASSUME Cells, UNCHANGED <<tx, stmts, seen, useCache>>
  PROVE  Cells'
BY DEF Cells, InTransaction

\* A statement on one row.
LEMMA StatementKeepsCells ==
  ASSUME TypeInv, Cells, useCache, InTransaction, NEW op \in Op, Record(op),
         tx' \in Transaction,
         \/ tx'.pending = tx.pending /\ tx'.cache = Effect(tx.cache, <<op>>)
         \/ tx'.pending = Append(tx.pending, op) /\ tx'.cache = tx.cache
  PROVE  Cells'
<1>1. PICK s \in Seq(Op) : s = stmts
  BY DEF TypeInv, ClientOk
<1>2. PICK q \in Seq(Op) : q = tx.pending
  BY InTx, Fields DEF TypeInv
<1>3. PICK m \in Map : m = tx.cache
  BY InTx, Fields DEF TypeInv
<1>4. /\ stmts' = Append(s, op)
      /\ \A k \in Key : seen'[k] = IF k = op.key THEN Outcome(op) ELSE seen[k]
  BY <1>1, RecordIs DEF TypeInv
<1>5. ASSUME NEW k \in Key PROVE CellOk(tx', stmts', seen'[k], k)
  <2>1. /\ ~Reinserts => /\ In(s, k) => seen[k] = Own(s, k)
                         /\ In(s, k) /\ ~In(q, k) => m[k] = Own(s, k)
        /\ ~In(s, k) /\ seen[k] \in Value => m[k] = seen[k]
    BY <1>1, <1>2, <1>3 DEF Cells, CellOk
  <2>2. /\ In(Append(s, op), k) <=> In(s, k) \/ op.key = k
        /\ op.key = k => Own(Append(s, op), k) = Outcome(op)
        /\ op.key # k /\ In(s, k) => Own(Append(s, op), k) = Own(s, k)
    BY OwnAppend
  <2>3. In(Append(q, op), k) <=> In(q, k) \/ op.key = k
    BY OwnAppend
  <2>4. Effect(m, <<op>>)[k] = IF k = op.key THEN Outcome(op) ELSE m[k]
    BY SingleOp
  <2>5. \/ tx'.pending = q /\ tx'.cache = Effect(m, <<op>>)
        \/ tx'.pending = Append(q, op) /\ tx'.cache = m
    BY <1>2, <1>3
  <2>6. CASE k = op.key
    BY <1>4, <2>2, <2>3, <2>4, <2>5, <2>6 DEF CellOk
  <2>7. CASE k # op.key
    <3>1. /\ In(stmts', k) <=> In(s, k)
          /\ In(s, k) => Own(stmts', k) = Own(s, k)
          /\ seen'[k] = seen[k] /\ tx'.cache[k] = m[k]
          /\ In(tx'.pending, k) <=> In(q, k)
      BY <1>4, <2>2, <2>3, <2>4, <2>5, <2>7
    <3> QED
      BY <2>1, <3>1 DEF CellOk
  <2> QED
    BY <2>6, <2>7
<1> QED
  BY <1>5 DEF Cells

\* The steps of a transaction other than its statements and its end.
ReadStep ==
  \E h \in Handler :
    \/ \E k \in Key : IndexRead(h, k)
    \/ \E mode \in {"scan", "pos"} : RndInit(h, mode)
    \/ RndNext(h) \/ Position(h) \/ ByPosition(h) \/ RndEnd(h)

LEMMA ReadStepReads ==
  ASSUME OneHandler, TypeInv, DeferInv, TxScans, Positions, OpsInv, Cells, useCache, InTransaction, ReadStep
  PROVE  ReadsCache
BY IndexReadReads, RndInitReads, FetchReads, PositionReads, RndEndReads DEF ReadStep

LEMMA OperationKeepsCells ==
  ASSUME OneHandler, TypeInv, DeferInv, TxScans, Positions, OpsInv, Cells, Operation,
         UNCHANGED useCache
  PROVE  Cells'
<1>1. SUFFICES ASSUME useCache PROVE Cells'
  BY DEF Cells
<1>2. ASSUME NEW op \in Op, OtherWrites(op) PROVE Cells'
  BY <1>2, CellsKept DEF OtherWrites, client
<1>3. ASSUME NEW k \in Key, NEW v \in Value, WriteRow(k, v) PROVE Cells'
  BY <1>1, <1>3, WriteRowIs, StatementKeepsCells
<1>4. ASSUME NEW k \in Key, DeleteRow(k) PROVE Cells'
  BY <1>1, <1>4, DeleteRowIs, StatementKeepsCells
<1>5. ASSUME NEW op \in Op, WriteThrough(op) PROVE Cells'
  <2>1. ~InTransaction'
    BY <1>5 DEF WriteThrough, InTransaction
  <2> QED
    BY <2>1, NoCells
<1>6. ASSUME Begin PROVE Cells'
  <2>1. stmts' = << >> /\ \A k \in Key : seen'[k] = Unread
    BY <1>6 DEF Begin, DeferInv, client
  <2> QED
    BY <2>1, NothingIn, UnreadAssumption DEF Cells, CellOk
<1>7. ASSUME tx' = NoTx PROVE Cells'
  BY <1>7 DEF Cells, InTransaction
<1>8. CASE ReadStep /\ InTransaction
  BY <1>1, <1>8, ReadStepReads, CellsNext
<1>9. CASE ReadStep /\ ~InTransaction
  <2>1. tx' = tx
    BY <1>9, IndexReadIs, RndInitIs, RndEndIs, RowScanModes DEF ReadStep
  <2> QED
    BY <1>9, <2>1, NoCells DEF InTransaction
<1>10. ASSUME NEW h \in Handler, NEW mode \in {"scan", "pos"}, AutoRndInit(h, mode) PROVE Cells'
  BY <1>10, AutoRndInitIs, CellsKept DEF client
<1>11. CASE ReadStep
  BY <1>8, <1>9, <1>11
<1> QED
  BY <1>2, <1>3, <1>4, <1>5, <1>6, <1>7, <1>10, <1>11, OpTypes
     DEF Operation, Commit, Rollback, ReadStep, ByPosition

CacheInv == TypeInv /\ DeferInv /\ TxScans /\ Positions /\ OpsInv /\ Cells

LEMMA InitCache == Init => CacheInv
BY InitTypes, InitDefers, InitScans, InitPositions DEF CacheInv, Init, OpsInv, Cells, InTransaction

LEMMA NextKeepsCache ==
  ASSUME OneHandler, ~CacheTurns, CacheInv, [Next]_vars
  PROVE  CacheInv'
<1>1. Cells'
  <2>1. CASE Operation /\ UNCHANGED useCache
    BY <2>1, OperationKeepsCells DEF CacheInv
  <2>2. CASE SetCache
    <3>1. ~InTransaction'
      BY <2>2 DEF SetCache, InTransaction
    <3> QED
      BY <3>1, NoCells
  <2>3. CASE UNCHANGED vars
    BY <2>3, CellsKept DEF vars, client, CacheInv
  <2> QED
    BY <2>1, <2>2, <2>3 DEF Next
<1> QED
  BY <1>1, NextKeepsTypes, NextDefers, NextKeepsScans, NextKeepsPositions, NextKeepsOps
     DEF CacheInv

LEMMA CacheInvariant ==
  ASSUME OneHandler, ~CacheTurns
  PROVE  Spec => []CacheInv
BY InitCache, NextKeepsCache, PTL DEF Spec

LEMMA CellsReadOwn == ASSUME ~Reinserts PROVE CacheInv => OwnWritesRead
<1> SUFFICES ASSUME CacheInv, useCache, NEW k \in Key, Touched(stmts, Len(stmts), k)
             PROVE  seen[k] = Outcome(stmts[LastTouch(stmts, Len(stmts), k)])
  BY DEF OwnWritesRead
<1>1. CASE InTransaction
  BY <1>1 DEF CacheInv, Cells, CellOk, In, Own
<1>2. CASE ~InTransaction
  BY <1>2, NothingIn DEF CacheInv, DeferInv, In
<1> QED
  BY <1>1, <1>2

\* find_row, rnd_next and rnd_pos: with the cache, a transaction reads each row that
\* it wrote or removed as its own last statement left it.
THEOREM OwnWrites ==
  ASSUME OneHandler, ~CacheTurns, ~Reinserts
  PROVE  Spec => []OwnWritesRead
BY CacheInvariant, CellsReadOwn, PTL

LEMMA RndInitOwn ==
  ASSUME OneHandler, ~Reinserts, CacheInv, NEW h \in Handler, NEW mode \in {"scan", "pos"}, RndInit(h, mode),
         NEW k \in Key, In(stmts, k)
  PROVE  tx'.cache[k] = Own(stmts, k)
<1> USE DEF CacheInv
<1>1. /\ InTransaction /\ CanInit(h, mode)
      /\ ~(useCache /\ tx.filled) => \E m \in Map : tx'.cache = Effect(m, tx.puts \o tx.removes)
      /\ tx'.pending = tx.pending
  BY RndInitIs
<1>2. tx.pending = << >>
  BY <1>1, NothingPending
<1>3. CASE useCache
  BY <1>1, <1>2, <1>3, RndInitReads, NothingIn DEF ReadsCache
<1>4. CASE ~useCache
  <2>1. PICK m \in Map : tx'.cache = Effect(m, tx.puts \o tx.removes)
    BY <1>1, <1>4
  <2>2. PICK e : e = Effect(m, tx.puts \o tx.removes) /\ e = tx'.cache
    BY <2>1
  <2>3. TypeInv /\ OpsInv /\ InTransaction /\ tx.pending = << >>
    BY <1>1, <1>2
  <2>4. In(stmts, k) => e[k] = Own(stmts, k)
    BY <2>2, <2>3, Reapplied
  <2> QED
    BY <2>2, <2>4
<1> QED
  BY <1>3, <1>4

\* rnd_init: with or without the cache, the rows that a scan starts with are as the
\* transaction's own statements left them, whether the node answered or not.
THEOREM ScanStarts ==
  ASSUME OneHandler, ~CacheTurns, ~Reinserts
  PROVE  Spec => ScanStartsWithOwnWrites
<1> DEFINE Starts ==
      (\E h \in Handler, mode \in {"scan", "pos"} : RndInit(h, mode)) =>
       \A k \in Key : Touched(stmts, Len(stmts), k) =>
         tx'.cache[k] = Outcome(stmts[LastTouch(stmts, Len(stmts), k)])
<1>1. CacheInv /\ [Next]_vars => Starts
  BY RndInitOwn DEF In, Own
<1>2. Spec => [][Starts]_vars
  <2> HIDE DEF Starts
  <2> QED
    BY <1>1, CacheInvariant, PTL DEF Spec
<1> QED
  BY <1>2 DEF ScanStartsWithOwnWrites

LEMMA ReadAgain ==
  ASSUME OneHandler, CacheInv, [Next]_vars, useCache, InTransaction, tx' # NoTx,
         NEW k \in Key, seen[k] \in Value, ~In(stmts', k)
  PROVE  seen'[k] = seen[k]
<1> USE DEF CacheInv
<1>1. ASSUME NEW op \in Op, Record(op) PROVE seen'[k] = seen[k]
  <2>1. PICK s \in Seq(Op) : s = stmts
    BY DEF TypeInv, ClientOk
  <2>2. k # op.key
    <3>1. In(Append(s, op), k) <=> In(s, k) \/ op.key = k
      BY OwnAppend
    <3>2. stmts' = Append(s, op)
      BY <1>1, <2>1, RecordIs DEF TypeInv
    <3> QED
      BY <3>1, <3>2
  <2> QED
    BY <1>1, <2>2, RecordIs DEF TypeInv
<1>2. ASSUME NEW j \in Key, NEW v \in Value, WriteRow(j, v) PROVE seen'[k] = seen[k]
  BY <1>1, <1>2, WriteRowIs
<1>3. ASSUME NEW j \in Key, DeleteRow(j) PROVE seen'[k] = seen[k]
  BY <1>1, <1>3, DeleteRowIs
<1>4. CASE ReadStep
  <2>1. ReadsCache
    BY <1>4, ReadStepReads
  <2>2. tx.cache[k] = seen[k]
    BY <2>1 DEF Cells, CellOk, ReadsCache
  <2> QED
    BY <2>1, <2>2, AbsentAssumption DEF ReadsCache
<1>5. ASSUME seen' = seen PROVE seen'[k] = seen[k]
  BY <1>5
<1>6. CASE Operation
  BY <1>2, <1>3, <1>4, <1>5, <1>6
     DEF Operation, ReadStep, OtherWrites, WriteThrough, Begin, Commit, Rollback, AutoRndInit,
         ByPosition, client
<1>7. CASE SetCache \/ UNCHANGED vars
  BY <1>5, <1>7 DEF SetCache, vars, client
<1> QED
  BY <1>6, <1>7 DEF Next

\* find_row, rnd_next and rnd_pos: with the cache, a row that the transaction has
\* read reads the same until the transaction changes it, whatever others commit.
THEOREM RepeatedReads ==
  ASSUME OneHandler, ~CacheTurns
  PROVE  Spec => ReadsRepeat
<1> DEFINE Repeat == useCache /\ InTransaction /\ tx' # NoTx =>
                       \A k \in Known(Value) : seen'[k] = seen[k]
<1>1. CacheInv /\ [Next]_vars => Repeat
  BY ReadAgain DEF Known, In
<1>2. Spec => [][Repeat]_vars
  <2> HIDE DEF Repeat
  <2> QED
    BY <1>1, CacheInvariant, PTL DEF Spec
<1> QED
  BY <1>2 DEF ReadsRepeat

=============================================================================

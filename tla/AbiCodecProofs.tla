--------------------------- MODULE AbiCodecProofs ---------------------------
(***************************************************************************)
(* Proofs about AbiCodec: the contract takes every call for what the       *)
(* handler meant, the words it stores mirror the rows that MySQL wrote,    *)
(* and a read makes those rows of them again; for words, keys, values and  *)
(* batches of any size.                                                    *)
(*                                                                         *)
(* The module goes from numbers to words, from words to arguments and      *)
(* calls, then to rows and the store, and ends with the invariant of the   *)
(* specification.  Where a recursive function is involved (the bytes and   *)
(* the digits of a number) the lemmas reason about its least argument with *)
(* a wrong value.                                                          *)
(***************************************************************************)
EXTENDS AbiCodec, TLAPS, FiniteSetTheorems, WellFoundedInduction

-----------------------------------------------------------------------------
(***************************************************************************)
(* Numbers.                                                                *)
(***************************************************************************)
LEMMA Sizes ==
  /\ WordSize \in Nat /\ WordSize >= 1 /\ KeySize \in Nat /\ KeySize >= 1
  /\ NullBytes \in Nat /\ ValueSize \in Nat /\ MaxBatch \in Nat
  /\ RecordSize \in Nat /\ RecordSize = NullBytes + KeySize + ValueSize
  /\ WordSize \div 2 \in Nat /\ WordSize = 2 * (WordSize \div 2)
<1>1. /\ WordSize \in Nat /\ WordSize # 0 /\ KeySize \in Nat /\ KeySize # 0
      /\ NullBytes \in Nat /\ ValueSize \in Nat /\ MaxBatch \in Nat /\ WordSize % 2 = 0
  BY SizeAssumption
<1>2. WordSize \div 2 \in Nat /\ WordSize = 2 * (WordSize \div 2)
  BY <1>1
<1> QED
  BY <1>1, <1>2 DEF RecordSize

\* A set of numbers has a least one.
LEMMA Least ==
  ASSUME NEW S \in SUBSET Nat, S # {}
  PROVE  \E n \in S : \A m \in S : n <= m
<1>1. PICK n \in S : \A m \in S : ~(<<m, n>> \in OpToRel(<, Nat))
  BY NatLessThanWellFounded, WFMin, Zenon
<1>2. \A m \in S : ~(m < n)
  BY <1>1 DEF OpToRel
<1> QED
  BY <1>2

\* Multiplication keeps the order.
LEMMA Times ==
  ASSUME NEW w \in Nat, NEW a \in Nat, NEW b \in Nat, a <= b
  PROVE  w * a \in Nat /\ w * a <= w * b
<1>1. PICK c \in Nat : b = a + c
  <2>1. b - a \in Nat /\ b = a + (b - a)
    OBVIOUS
  <2> QED
    BY <2>1
<1>2. w * b = w * a + w * c
  BY <1>1
<1>3. w * a \in Nat /\ w * c \in Nat
  OBVIOUS
<1> QED
  BY <1>2, <1>3

\* Byte r of word q.
LEMMA Division ==
  ASSUME NEW w \in Nat, w >= 1, NEW q \in Nat, NEW r \in 0 .. w - 1
  PROVE  (w * q + r) \div w = q /\ (w * q + r) % w = r
<1>1. PICK n \in Nat : n = w * q + r
  <2>1. w * q \in Nat
    OBVIOUS
  <2> QED
    BY <2>1
<1>2. PICK d \in Int : d = n \div w
  BY <1>1
<1>3. PICK m \in Int : m = n % w
  BY <1>1
<1>4. n = w * d + m /\ m \in 0 .. w - 1
  BY <1>1, <1>2, <1>3
<1>5. d = q
  <2>1. CASE d < q
    <3>1. w * q = w * d + w * (q - d) /\ q - d \in Nat /\ q - d >= 1
      BY <2>1
    <3>2. w * (q - d) >= w
      <4>1. w * 1 <= w * (q - d)
        BY <3>1, Times
      <4> QED
        BY <4>1
    <3> QED
      BY <1>1, <1>4, <3>1, <3>2
  <2>2. CASE q < d
    <3>1. w * d = w * q + w * (d - q) /\ d - q \in Nat /\ d - q >= 1
      BY <2>2
    <3>2. w * (d - q) >= w
      <4>1. w * 1 <= w * (d - q)
        BY <3>1, Times
      <4> QED
        BY <4>1
    <3> QED
      BY <1>1, <1>4, <3>1, <3>2
  <2> QED
    BY <2>1, <2>2
<1> QED
  BY <1>1, <1>2, <1>3, <1>4, <1>5

\* A byte of the n-th word, counted from 0.
LEMMA Place ==
  ASSUME NEW w \in Nat, w >= 1, NEW l \in Nat, NEW n \in 1 .. w * l
  PROVE  /\ ((n - 1) \div w) + 1 \in 1 .. l
         /\ ((n - 1) % w) + 1 \in 1 .. w
<1>1. PICK d \in Int : d = (n - 1) \div w
  OBVIOUS
<1>2. PICK m \in Int : m = (n - 1) % w
  OBVIOUS
<1>3. n - 1 = w * d + m /\ m \in 0 .. w - 1 /\ n - 1 \in Nat /\ n - 1 < w * l
  BY <1>1, <1>2
<1>4. d >= 0
  <2>1. SUFFICES ASSUME d < 0 PROVE FALSE
    OBVIOUS
  <2>2. 0 - d \in Nat /\ 1 <= 0 - d
    BY <2>1
  <2>3. w * 1 <= w * (0 - d)
    BY <2>2, Times
  <2>4. w * (0 - d) = 0 - w * d
    OBVIOUS
  <2> QED
    BY <1>3, <2>3, <2>4
<1>5. d < l
  <2>1. SUFFICES ASSUME l <= d PROVE FALSE
    BY <1>3
  <2>2. w * l <= w * d
    BY <1>4, <2>1, Times
  <2> QED
    BY <1>3, <2>2
<1> QED
  BY <1>1, <1>2, <1>3, <1>4, <1>5

\* The quotients of num by the powers of 256; there is such a function.
IsShifted(num, n, f) == f = [i \in 0 .. n |-> IF i = 0 THEN num ELSE f[i - 1] \div 256]

\* NumericToHex divides by 256 once for each byte.
LEMMA ShiftedExists ==
  ASSUME NEW num, NEW n \in Nat
  PROVE  \E f : IsShifted(num, n, f)
<1> DEFINE Bad == {m \in Nat : ~\E f : IsShifted(num, m, f)}
<1>1. SUFFICES ASSUME Bad # {} PROVE FALSE
  OBVIOUS
<1>2. PICK b \in Bad : \A m \in Bad : b <= m
  <2> Bad \in SUBSET Nat
    OBVIOUS
  <2> HIDE DEF Bad
  <2> QED
    BY <1>1, Least
<1>3. b # 0
  <2>1. IsShifted(num, 0, [i \in 0 .. 0 |-> num])
    BY DEF IsShifted
  <2> QED
    BY <2>1
<1>4. b - 1 \in Nat /\ b - 1 \notin Bad
  BY <1>2, <1>3
<1>5. PICK f : IsShifted(num, b - 1, f)
  BY <1>4
<1> DEFINE g == [i \in 0 .. b |-> IF i = b THEN f[b - 1] \div 256 ELSE f[i]]
<1>6. ASSUME NEW i \in 0 .. b
      PROVE  g[i] = IF i = 0 THEN num ELSE g[i - 1] \div 256
  <2>1. CASE i = 0
    <3>1. f[0] = num
      BY <1>4, <1>5 DEF IsShifted
    <3> QED
      BY <1>3, <2>1, <3>1
  <2>2. CASE i # 0 /\ i # b
    <3>1. i \in 0 .. (b - 1) /\ i - 1 \in 0 .. (b - 1)
      BY <1>4, <2>2
    <3>2. f[i] = f[i - 1] \div 256
      BY <1>5, <2>2, <3>1 DEF IsShifted
    <3>3. g[i] = f[i] /\ g[i - 1] = f[i - 1]
      BY <1>4, <2>2, <3>1
    <3> QED
      BY <2>2, <3>2, <3>3
  <2>3. CASE i = b
    <3>1. g[b] = f[b - 1] \div 256 /\ g[b - 1] = f[b - 1]
      BY <1>4
    <3> QED
      BY <1>3, <2>3, <3>1
  <2> QED
    BY <2>1, <2>2, <2>3
<1>7. IsShifted(num, b, g)
  <2>1. g = [i \in 0 .. b |-> g[i]]
    OBVIOUS
  <2> HIDE DEF g
  <2> QED
    BY <1>6, <2>1 DEF IsShifted
<1> QED
  BY <1>7

\* Each quotient is the one before, divided by 256, and a number.
LEMMA ShiftedIs ==
  ASSUME NEW num \in Nat
  PROVE  /\ Shifted(num)[0] = num
         /\ \A i \in 1 .. WordSize : Shifted(num)[i] = Shifted(num)[i - 1] \div 256
         /\ \A i \in 0 .. WordSize : Shifted(num)[i] \in Nat
<1> DEFINE a == CHOOSE f : IsShifted(num, WordSize, f)
<1>1. IsShifted(num, WordSize, a)
  BY ShiftedExists, Sizes
<1>2. Shifted(num) = a
  BY DEF Shifted, IsShifted
<1>3. PICK f : f = Shifted(num) /\ IsShifted(num, WordSize, f)
  BY <1>1, <1>2
<1> HIDE DEF a
<1>4. f[0] = num /\ \A i \in 1 .. WordSize : f[i] = f[i - 1] \div 256
  <2>1. 0 \in 0 .. WordSize /\ \A i \in 1 .. WordSize : i \in 0 .. WordSize /\ i # 0
    BY Sizes
  <2>2. \A i \in 0 .. WordSize : f[i] = IF i = 0 THEN num ELSE f[i - 1] \div 256
    BY <1>3 DEF IsShifted
  <2> QED
    BY <2>1, <2>2
<1> DEFINE Bad == {i \in Nat : i <= WordSize /\ f[i] \notin Nat}
<1>5. Bad = {}
  <2>1. SUFFICES ASSUME Bad # {} PROVE FALSE
    OBVIOUS
  <2>2. PICK b \in Bad : \A m \in Bad : b <= m
    <3> Bad \in SUBSET Nat
      OBVIOUS
    <3> HIDE DEF Bad
    <3> QED
      BY <2>1, Least
  <2>3. b # 0
    BY <1>4
  <2>4. b - 1 \in Nat /\ b \in 1 .. WordSize /\ f[b - 1] \in Nat
    BY <2>2, <2>3, Sizes
  <2>5. f[b] = f[b - 1] \div 256
    BY <1>4, <2>4
  <2>6. f[b] \in Nat
    BY <2>4, <2>5
  <2> QED
    BY <2>2, <2>6
<1>6. \A i \in 0 .. WordSize : f[i] \in Nat
  BY <1>5, Sizes
<1> QED
  BY <1>3, <1>4, <1>6

Word == [1 .. WordSize -> Byte]

\* A number becomes a word.
LEMMA NumberWord ==
  ASSUME NEW num \in Nat
  PROVE  NumericToHex(num) \in Word
<1>1. \A i \in 1 .. WordSize : WordSize - i \in 0 .. WordSize
  BY Sizes
<1>2. \A i \in 1 .. WordSize : Shifted(num)[WordSize - i] \in Nat
  BY <1>1, ShiftedIs
<1>3. \A i \in 1 .. WordSize : Shifted(num)[WordSize - i] % 256 \in Byte
  BY <1>2 DEF Byte
<1> QED
  BY <1>3 DEF NumericToHex, Word

IsUpTo(word, n, f) == f = [i \in 0 .. n |-> IF i = 0 THEN 0 ELSE 256 * f[i - 1] + word[i]]

\* The number that a word was written for is the number that is read.
LEMMA NumberIs ==
  ASSUME NEW num \in Nat, FitsWord(num)
  PROVE  Number(NumericToHex(num)) = num
<1>1. PICK rest : rest = Shifted(num)
  OBVIOUS
<1>2. /\ rest[0] = num /\ rest[WordSize] = 0
      /\ \A i \in 1 .. WordSize : rest[i] = rest[i - 1] \div 256
      /\ \A i \in 0 .. WordSize : rest[i] \in Nat
  BY <1>1, ShiftedIs DEF FitsWord
<1>3. PICK word : /\ word = NumericToHex(num)
                  /\ \A i \in 1 .. WordSize : word[i] = rest[WordSize - i] % 256
  <2> DEFINE w == [i \in 1 .. WordSize |-> rest[WordSize - i] % 256]
  <2>1. NumericToHex(num) = w
    BY <1>1 DEF NumericToHex
  <2>2. \A i \in 1 .. WordSize : w[i] = rest[WordSize - i] % 256
    OBVIOUS
  <2> QED
    BY <2>1, <2>2
<1> DEFINE g == [i \in 0 .. WordSize |-> rest[WordSize - i]]
<1>4. IsUpTo(word, WordSize, g)
  <2>1. ASSUME NEW i \in 0 .. WordSize
        PROVE  g[i] = IF i = 0 THEN 0 ELSE 256 * g[i - 1] + word[i]
    <3>1. CASE i = 0
      BY <1>2, <3>1, Sizes
    <3>2. CASE i # 0
      <4>1. PICK k \in Nat : k = WordSize - i /\ k + 1 \in 1 .. WordSize /\ k \in 0 .. WordSize
        <5>1. WordSize - i \in Nat /\ (WordSize - i) + 1 \in 1 .. WordSize
          BY <3>2, Sizes
        <5> QED
          BY <5>1, Sizes
      <4>2. rest[k + 1] = rest[k] \div 256 /\ rest[k] \in Nat
        <5>1. (k + 1) - 1 = k
          BY <4>1
        <5> QED
          BY <1>2, <4>1, <5>1
      <4>3. g[i] = rest[k] /\ g[i - 1] = rest[k + 1]
        BY <3>2, <4>1, Sizes
      <4>4. word[i] = rest[k] % 256
        BY <1>3, <3>2, <4>1, Sizes
      <4>5. rest[k] = 256 * (rest[k] \div 256) + (rest[k] % 256)
        BY <4>2
      <4> QED
        BY <3>2, <4>2, <4>3, <4>4, <4>5
    <3> QED
      BY <3>1, <3>2
  <2>2. g = [i \in 0 .. WordSize |-> g[i]]
    OBVIOUS
  <2> HIDE DEF g
  <2> QED
    BY <2>1, <2>2 DEF IsUpTo
<1> DEFINE a == CHOOSE f : IsUpTo(word, WordSize, f)
<1>5. IsUpTo(word, WordSize, a)
  BY <1>4
<1>6. Number(word) = a[WordSize]
  BY DEF Number, IsUpTo
<1>7. PICK f : f = a /\ IsUpTo(word, WordSize, f)
  BY <1>5
<1>8. PICK h : h = g /\ IsUpTo(word, WordSize, h) /\ h[WordSize] = rest[0]
  BY <1>4, Sizes
<1> HIDE DEF a, g
<1> DEFINE Bad == {i \in Nat : i <= WordSize /\ f[i] # h[i]}
<1>9. Bad = {}
  <2>1. SUFFICES ASSUME Bad # {} PROVE FALSE
    OBVIOUS
  <2>2. PICK b \in Bad : \A m \in Bad : b <= m
    <3> Bad \in SUBSET Nat
      OBVIOUS
    <3> HIDE DEF Bad
    <3> QED
      BY <2>1, Least
  <2>3. b # 0
    <3>1. 0 \in 0 .. WordSize
      BY Sizes
    <3>2. f[0] = 0 /\ h[0] = 0
      BY <1>7, <1>8, <3>1 DEF IsUpTo
    <3> QED
      BY <2>2, <3>2
  <2>4. b - 1 \in Nat /\ b \in 0 .. WordSize /\ f[b - 1] = h[b - 1]
    BY <2>2, <2>3, Sizes
  <2>5. f[b] = 256 * f[b - 1] + word[b]
    <3>1. \A i \in 0 .. WordSize : f[i] = IF i = 0 THEN 0 ELSE 256 * f[i - 1] + word[i]
      <4>1. f = [i \in 0 .. WordSize |-> IF i = 0 THEN 0 ELSE 256 * f[i - 1] + word[i]]
        BY <1>7, Zenon DEF IsUpTo
      <4> QED
        BY <4>1, Zenon
    <3> QED
      BY <2>3, <2>4, <3>1
  <2>6. h[b] = 256 * h[b - 1] + word[b]
    <3>1. \A i \in 0 .. WordSize : h[i] = IF i = 0 THEN 0 ELSE 256 * h[i - 1] + word[i]
      <4>1. h = [i \in 0 .. WordSize |-> IF i = 0 THEN 0 ELSE 256 * h[i - 1] + word[i]]
        BY <1>8, Zenon DEF IsUpTo
      <4> QED
        BY <4>1, Zenon
    <3> QED
      BY <2>3, <2>4, <3>1
  <2> QED
    BY <2>2, <2>4, <2>5, <2>6
<1>10. f[WordSize] = h[WordSize]
  BY <1>9, Sizes
<1> QED
  BY <1>2, <1>3, <1>6, <1>7, <1>8, <1>10

\* Smaller numbers fit too.
LEMMA FitsLess ==
  ASSUME NEW num \in Nat, FitsWord(num), NEW less \in Nat, less <= num
  PROVE  FitsWord(less)
<1>1. PICK f : /\ f = Shifted(num) /\ f[0] = num /\ f[WordSize] = 0
               /\ \A i \in 1 .. WordSize : f[i] = f[i - 1] \div 256
               /\ \A i \in 0 .. WordSize : f[i] \in Nat
  BY ShiftedIs DEF FitsWord
<1>2. PICK h : /\ h = Shifted(less) /\ h[0] = less
               /\ \A i \in 1 .. WordSize : h[i] = h[i - 1] \div 256
               /\ \A i \in 0 .. WordSize : h[i] \in Nat
  BY ShiftedIs
<1> DEFINE Bad == {i \in Nat : i <= WordSize /\ ~(h[i] <= f[i])}
<1>3. Bad = {}
  <2>1. SUFFICES ASSUME Bad # {} PROVE FALSE
    OBVIOUS
  <2>2. PICK b \in Bad : \A m \in Bad : b <= m
    <3> Bad \in SUBSET Nat
      OBVIOUS
    <3> HIDE DEF Bad
    <3> QED
      BY <2>1, Least
  <2>3. b # 0
    BY <1>1, <1>2
  <2>4. b - 1 \in Nat /\ b \in 1 .. WordSize /\ b - 1 \in 0 .. WordSize /\ h[b - 1] <= f[b - 1]
    BY <2>2, <2>3, Sizes
  <2>5. h[b] = h[b - 1] \div 256 /\ f[b] = f[b - 1] \div 256
    BY <1>1, <1>2, <2>4
  <2>6. h[b - 1] \in Nat /\ f[b - 1] \in Nat
    BY <1>1, <1>2, <2>4
  <2>7. h[b] <= f[b]
    BY <2>4, <2>5, <2>6
  <2> QED
    BY <2>2, <2>7
<1>4. h[WordSize] <= 0 /\ h[WordSize] \in Nat
  BY <1>1, <1>2, <1>3, Sizes
<1> QED
  BY <1>2, <1>4 DEF FitsWord

\* The decimal digits of size, read as hexadecimal ones.
IsDigits(size, f) ==
  f = [n \in 0 .. size |-> IF n < 10 THEN n ELSE 16 * f[n \div 10] + (n % 10)]

\* The digits of smaller numbers give those of size.
LEMMA DigitsExist ==
  ASSUME NEW size \in Nat
  PROVE  \E f : IsDigits(size, f)
<1> DEFINE Bad == {m \in Nat : ~\E f : IsDigits(m, f)}
<1>1. SUFFICES ASSUME Bad # {} PROVE FALSE
  OBVIOUS
<1>2. PICK b \in Bad : \A m \in Bad : b <= m
  <2> Bad \in SUBSET Nat
    OBVIOUS
  <2> HIDE DEF Bad
  <2> QED
    BY <1>1, Least
<1>3. b # 0
  <2> DEFINE z == [n \in 0 .. 0 |-> n]
  <2>1. z = [n \in 0 .. 0 |-> IF n < 10 THEN n ELSE 16 * z[n \div 10] + (n % 10)]
    OBVIOUS
  <2>2. IsDigits(0, z)
    BY <2>1 DEF IsDigits
  <2> QED
    BY <2>2
<1>4. b - 1 \in Nat /\ b - 1 \notin Bad
  BY <1>2, <1>3
<1>5. PICK f : IsDigits(b - 1, f)
  BY <1>4
<1>6. \A n \in 0 .. (b - 1) : f[n] = IF n < 10 THEN n ELSE 16 * f[n \div 10] + (n % 10)
  BY <1>5 DEF IsDigits
<1> DEFINE g == [n \in 0 .. b |-> IF n < b THEN f[n] ELSE IF b < 10 THEN b
                                                ELSE 16 * f[b \div 10] + (b % 10)]
<1>7. ASSUME NEW n \in 0 .. b
      PROVE  g[n] = IF n < 10 THEN n ELSE 16 * g[n \div 10] + (n % 10)
  <2>1. n \div 10 \in 0 .. n /\ (n >= 10 => n \div 10 < n)
    BY <1>4
  <2>2. CASE n < 10
    <3>1. CASE n < b
      <4>1. n \in 0 .. (b - 1)
        BY <1>4, <3>1
      <4> QED
        BY <1>6, <2>2, <3>1, <4>1
    <3>2. CASE n = b
      BY <2>2, <3>2
    <3> QED
      BY <1>4, <3>1, <3>2
  <2>3. CASE n >= 10
    <3>1. PICK k \in 0 .. b : k = n \div 10 /\ k < n
      BY <1>4, <2>1, <2>3
    <3>2. g[k] = f[k]
      BY <1>4, <3>1
    <3>3. CASE n < b
      <4>1. n \in 0 .. (b - 1)
        BY <1>4, <3>3
      <4> QED
        BY <1>6, <2>3, <3>1, <3>2, <3>3, <4>1
    <3>4. CASE n = b
      BY <2>3, <3>1, <3>2, <3>4
    <3> QED
      BY <1>4, <3>3, <3>4
  <2> QED
    BY <1>4, <2>2, <2>3
<1>8. IsDigits(b, g)
  <2>1. g = [n \in 0 .. b |-> g[n]]
    OBVIOUS
  <2> HIDE DEF g
  <2> QED
    BY <1>7, <2>1 DEF IsDigits
<1> QED
  BY <1>8

\* The count of a commit is a word, and the right one below ten.
LEMMA SizeWord ==
  ASSUME NEW size \in Nat
  PROVE  /\ SizeToHex(size) \in Word
         /\ size < 10 => SizeToHex(size) = NumericToHex(size)
<1> DEFINE a == CHOOSE f : IsDigits(size, f)
<1>1. IsDigits(size, a)
  BY DigitsExist
<1>2. SizeToHex(size) = NumericToHex(a[size])
  BY DEF SizeToHex, IsDigits
<1>3. PICK f : f = a /\ IsDigits(size, f)
  BY <1>1
<1> HIDE DEF a
<1>4. \A n \in 0 .. size : f[n] = IF n < 10 THEN n ELSE 16 * f[n \div 10] + (n % 10)
  BY <1>3 DEF IsDigits
<1> DEFINE Bad == {n \in Nat : n <= size /\ f[n] \notin Nat}
<1>5. Bad = {}
  <2>1. SUFFICES ASSUME Bad # {} PROVE FALSE
    OBVIOUS
  <2>2. PICK b \in Bad : \A m \in Bad : b <= m
    <3> Bad \in SUBSET Nat
      OBVIOUS
    <3> HIDE DEF Bad
    <3> QED
      BY <2>1, Least
  <2>3. b \in 0 .. size /\ f[b] \notin Nat
    BY <2>2
  <2>4. b >= 10 /\ f[b] = 16 * f[b \div 10] + (b % 10)
    BY <1>4, <2>3
  <2>5. b \div 10 \in Nat /\ b \div 10 < b /\ b \div 10 <= size
    BY <2>3, <2>4
  <2>6. f[b \div 10] \in Nat
    BY <2>2, <2>5
  <2> QED
    BY <2>3, <2>4, <2>6
<1>6. f[size] \in Nat /\ (size < 10 => f[size] = size)
  BY <1>4, <1>5
<1> QED
  BY <1>2, <1>3, <1>6, NumberWord

\* The numbers that are written fit into a word.
LEMMA SmallFits ==
  ASSUME NEW num \in Nat, num < 256
  PROVE  FitsWord(num)
<1>1. PICK f : /\ f = Shifted(num) /\ f[0] = num
               /\ \A i \in 1 .. WordSize : f[i] = f[i - 1] \div 256
               /\ \A i \in 0 .. WordSize : f[i] \in Nat
  BY ShiftedIs
<1> DEFINE Bad == {i \in Nat : i >= 1 /\ i <= WordSize /\ f[i] # 0}
<1>2. Bad = {}
  <2>1. SUFFICES ASSUME Bad # {} PROVE FALSE
    OBVIOUS
  <2>2. PICK b \in Bad : \A m \in Bad : b <= m
    <3> Bad \in SUBSET Nat
      OBVIOUS
    <3> HIDE DEF Bad
    <3> QED
      BY <2>1, Least
  <2>3. b \in 1 .. WordSize /\ b - 1 \in Nat /\ f[b] = f[b - 1] \div 256
    BY <1>1, <2>2, Sizes
  <2>4. f[b - 1] \in Nat /\ f[b - 1] < 256
    <3>1. CASE b = 1
      BY <1>1, <3>1
    <3>2. CASE b # 1
      <4>1. f[b - 1] = 0
        BY <2>2, <2>3, <3>2, Sizes
      <4> QED
        BY <4>1
    <3> QED
      BY <3>1, <3>2
  <2>5. f[b] = 0
    BY <2>3, <2>4
  <2> QED
    BY <2>2, <2>5
<1> QED
  BY <1>1, <1>2, Sizes DEF FitsWord

\* Offsets and counts of a batch fit into a word.
LEMMA OffsetFits ==
  ASSUME NEW n \in Nat, n <= 4 + MaxBatch
  PROVE  WordSize * n \in Nat /\ FitsWord(WordSize * n) /\ FitsWord(n)
<1>1. PICK m \in Nat : m = 4 + MaxBatch
  BY Sizes
<1>2. WordSize * n \in Nat /\ WordSize * n <= WordSize * m /\ WordSize * m \in Nat
  BY <1>1, Times, Sizes
<1>3. FitsWord(WordSize * n)
  BY <1>1, <1>2, FitsLess, NumberAssumption
<1>4. n <= WordSize * n
  <2>1. n * 1 <= n * WordSize
    BY Times, Sizes
  <2>2. n * WordSize = WordSize * n
    BY Sizes
  <2> QED
    BY <2>1, <2>2
<1> QED
  BY <1>2, <1>3, <1>4, FitsLess

-----------------------------------------------------------------------------
(***************************************************************************)
(* Words.                                                                  *)
(***************************************************************************)
\* The bytes after the a-th, up to the b-th.
LEMMA Slice ==
  ASSUME NEW S, NEW d \in Seq(S), NEW a \in Nat, NEW b \in Nat, a <= b, b <= Len(d)
  PROVE  /\ SubSeq(d, a + 1, b) \in Seq(S)
         /\ Len(SubSeq(d, a + 1, b)) = b - a
         /\ \A k \in 1 .. b - a : SubSeq(d, a + 1, b)[k] = d[a + k]
<1>1. PICK s : s = SubSeq(d, a + 1, b)
  OBVIOUS
<1>2. s = [k \in 1 .. (b - (a + 1)) + 1 |-> d[((a + 1) + k) - 1]]
  BY <1>1
<1>3. PICK l \in Nat : l = b - a /\ (b - (a + 1)) + 1 = l
  OBVIOUS
<1>4. \A k \in 1 .. l : s[k] = d[((a + 1) + k) - 1] /\ ((a + 1) + k) - 1 = a + k
  BY <1>2, <1>3
<1>5. \A k \in 1 .. l : a + k \in 1 .. Len(d)
  BY <1>3
<1>6. \A k \in 1 .. l : s[k] \in S
  BY <1>4, <1>5
<1>7. s = [k \in 1 .. l |-> s[k]]
  BY <1>2, <1>3
<1>8. s \in Seq(S) /\ Len(s) = l
  BY <1>6, <1>7
<1> QED
  BY <1>1, <1>3, <1>4, <1>8

\* The elements of two sequences, one behind the other.
LEMMA Concat ==
  ASSUME NEW S, NEW c \in Seq(S), NEW d \in Seq(S)
  PROVE  /\ c \o d \in Seq(S)
         /\ Len(c \o d) = Len(c) + Len(d)
         /\ \A i \in 1 .. Len(c) : (c \o d)[i] = c[i]
         /\ \A i \in 1 .. Len(d) : (c \o d)[Len(c) + i] = d[i]
<1>1. c \o d \in Seq(S) /\ Len(c \o d) = Len(c) + Len(d)
  OBVIOUS
<1>2. \A i \in 1 .. Len(c) : (c \o d)[i] = c[i]
  OBVIOUS
<1>3. ASSUME NEW i \in 1 .. Len(d) PROVE (c \o d)[Len(c) + i] = d[i]
  <2>1. Len(c) + i \in 1 .. Len(c) + Len(d) /\ ~(Len(c) + i <= Len(c)) /\ (Len(c) + i) - Len(c) = i
    OBVIOUS
  <2> QED
    BY <2>1
<1> QED
  BY <1>1, <1>2, <1>3

\* Zeros(n) is n bytes of zero.
LEMMA ZerosAre ==
  ASSUME NEW n \in Int
  PROVE  /\ Zeros(n) \in Seq(Byte)
         /\ Len(Zeros(n)) = IF n >= 0 THEN n ELSE 0
         /\ \A i \in 1 .. n : Zeros(n)[i] = 0
<1>1. 0 \in Byte
  BY DEF Byte
<1>2. CASE n >= 0
  BY <1>1, <1>2 DEF Zeros
<1>3. CASE n < 0
  <2>1. Zeros(n) = << >>
    BY <1>3 DEF Zeros
  <2> QED
    BY <1>3, <2>1
<1> QED
  BY <1>2, <1>3

\* Bytes are followed by zeros.
LEMMA Padded ==
  ASSUME NEW data \in Seq(Byte)
  PROVE  /\ ByteArrayToHex(data) \in Seq(Byte)
         /\ Len(ByteArrayToHex(data)) >= WordSize
         /\ Len(data) <= WordSize => /\ ByteArrayToHex(data) \in Word
                                     /\ SubSeq(ByteArrayToHex(data), 1, Len(data)) = data
<1>1. PICK n \in Nat : n = Len(data) /\ DOMAIN data = 1 .. n
  OBVIOUS
<1>2. PICK z \in Seq(Byte) : z = Zeros(WordSize - n) /\ Len(z) = IF WordSize >= n THEN WordSize - n ELSE 0
  <2>1. PICK m \in Int : m = WordSize - n
    BY Sizes
  <2>2. Zeros(m) \in Seq(Byte) /\ Len(Zeros(m)) = IF m >= 0 THEN m ELSE 0
    BY ZerosAre
  <2> QED
    BY <2>1, <2>2, Sizes
<1>3. PICK p : p = data \o z /\ p = ByteArrayToHex(data)
  BY <1>1, <1>2 DEF ByteArrayToHex
<1>4. p \in Seq(Byte) /\ Len(p) = n + Len(z) /\ \A i \in 1 .. n : p[i] = data[i]
  BY <1>1, <1>2, <1>3
<1>5. Len(p) >= WordSize
  BY <1>2, <1>4, Sizes
<1>6. ASSUME n <= WordSize PROVE p \in Word /\ SubSeq(p, 1, n) = data
  <2>1. Len(p) = WordSize
    BY <1>2, <1>4, <1>6, Sizes
  <2>2. p \in Word
    BY <1>4, <2>1, Sizes DEF Word
  <2>3. SubSeq(p, 1, n) = data
    <3>1. SubSeq(p, 1, n) \in Seq(Byte) /\ Len(SubSeq(p, 1, n)) = n
      BY <1>4, <1>6, <2>1, Sizes
    <3>2. \A i \in 1 .. n : SubSeq(p, 1, n)[i] = data[i]
      BY <1>4, <1>6, <2>1, Sizes
    <3> QED
      BY <1>1, <3>1, <3>2
  <2> QED
    BY <2>2, <2>3
<1> QED
  BY <1>1, <1>3, <1>4, <1>5, <1>6

\* So that different data of one length become different words.
LEMMA PaddedApart ==
  ASSUME NEW c \in Seq(Byte), NEW d \in Seq(Byte), Len(c) = Len(d), Len(c) <= WordSize,
         ByteArrayToHex(c) = ByteArrayToHex(d)
  PROVE  c = d
<1>1. SubSeq(ByteArrayToHex(c), 1, Len(c)) = c
  BY Padded
<1>2. SubSeq(ByteArrayToHex(d), 1, Len(d)) = d
  BY Padded
<1> QED
  BY <1>1, <1>2

\* An address is at the end of its word.
LEMMA AddressWord ==
  ASSUME NEW address \in Seq(Byte), Len(address) <= WordSize
  PROVE  /\ AddressToHex(address) \in Word
         /\ \A i \in 1 .. Len(address) :
              AddressToHex(address)[WordSize - Len(address) + i] = address[i]
<1>1. PICK n \in Nat : n = Len(address) /\ DOMAIN address = 1 .. n
  OBVIOUS
<1>2. PICK m \in Nat : m = WordSize - n
  BY <1>1, Sizes
<1>3. PICK z \in Seq(Byte) : z = Zeros(m) /\ Len(z) = m
  BY ZerosAre
<1>4. PICK p : p = z \o address /\ p = AddressToHex(address)
  BY <1>1, <1>2, <1>3 DEF AddressToHex
<1>5. p \in Seq(Byte) /\ Len(p) = m + n /\ m + n = WordSize
  BY <1>1, <1>2, <1>3, <1>4, Sizes
<1>6. p \in Word
  BY <1>5, Sizes DEF Word
<1>7. ASSUME NEW i \in 1 .. n PROVE p[m + i] = address[i]
  <2>1. \A j \in 1 .. Len(address) : (z \o address)[Len(z) + j] = address[j]
    BY Concat
  <2> QED
    BY <1>1, <1>3, <1>4, <2>1
<1> QED
  BY <1>1, <1>2, <1>4, <1>6, <1>7

\* Words that are joined are read again one by one.
LEMMA JoinedIs ==
  ASSUME NEW words \in Seq(Seq(Byte)), \A i \in 1 .. Len(words) : Len(words[i]) >= WordSize
  PROVE  /\ Joined(words) \in Seq(Byte)
         /\ Len(Joined(words)) = WordSize * Len(words)
         /\ \A q \in 0 .. Len(words) - 1 : \A k \in 1 .. WordSize :
              Joined(words)[WordSize * q + k] = words[q + 1][k]
<1>1. PICK l \in Nat : l = Len(words)
  OBVIOUS
<1>2. PICK t \in Nat : t = WordSize * l
  BY Sizes
<1> DEFINE D == [n \in 1 .. t |-> words[((n - 1) \div WordSize) + 1][((n - 1) % WordSize) + 1]]
<1>3. Joined(words) = D
  BY <1>1, <1>2, Zenon DEF Joined
<1>4. DOMAIN D = 1 .. t /\ \A n \in 1 .. t :
        D[n] = words[((n - 1) \div WordSize) + 1][((n - 1) % WordSize) + 1]
  BY Zenon
<1>5. PICK d : /\ d = Joined(words) /\ DOMAIN d = 1 .. t /\ d = [n \in 1 .. t |-> d[n]]
               /\ \A n \in 1 .. t : d[n] = words[((n - 1) \div WordSize) + 1][((n - 1) % WordSize) + 1]
  <2>1. D = [n \in 1 .. t |-> D[n]]
    BY Zenon
  <2> HIDE DEF D
  <2> QED
    BY <1>3, <1>4, <2>1, Zenon
<1> HIDE DEF D
<1>6. ASSUME NEW n \in 1 .. t PROVE d[n] \in Byte
  <2>1. PICK i \in 1 .. l : i = ((n - 1) \div WordSize) + 1
    BY <1>2, Place, Sizes
  <2>2. PICK k \in 1 .. WordSize : k = ((n - 1) % WordSize) + 1
    BY <1>2, Place, Sizes
  <2>3. PICK w \in Seq(Byte) : w = words[i] /\ Len(w) >= WordSize
    BY <1>1
  <2>4. w[k] \in Byte
    BY <2>3, Sizes
  <2> QED
    BY <1>5, <2>1, <2>2, <2>3, <2>4
<1>7. d = [n \in 1 .. t |-> d[n]]
  BY <1>5
<1>8. d \in Seq(Byte) /\ Len(d) = t
  BY <1>6, <1>7
<1>9. ASSUME NEW q \in 0 .. l - 1, NEW k \in 1 .. WordSize
      PROVE  d[WordSize * q + k] = words[q + 1][k]
  <2>1. PICK p \in Nat : p = WordSize * q
    BY <1>1, Sizes
  <2>2. p + k \in 1 .. t
    <3>0. q + 1 \in Nat /\ q + 1 <= l
      BY <1>1
    <3>1. WordSize * (q + 1) <= WordSize * l
      BY <3>0, Times, Sizes
    <3>2. WordSize * (q + 1) = p + WordSize
      BY <1>1, <2>1, Sizes
    <3>3. p + WordSize <= t
      BY <1>2, <3>1, <3>2
    <3> QED
      BY <3>3, Sizes
  <2>3. (p + k) - 1 = WordSize * q + (k - 1) /\ k - 1 \in 0 .. WordSize - 1
    BY <2>1, Sizes
  <2>4. ((p + k) - 1) \div WordSize = q /\ ((p + k) - 1) % WordSize = k - 1
    <3>1. PICK r \in 0 .. WordSize - 1 : r = k - 1
      BY <2>3
    <3>2. q \in Nat
      BY <1>1
    <3>3. (WordSize * q + r) \div WordSize = q /\ (WordSize * q + r) % WordSize = r
      BY <3>2, Division, Sizes
    <3> QED
      BY <2>3, <3>1, <3>3
  <2>5. (k - 1) + 1 = k
    BY Sizes
  <2> QED
    BY <1>5, <2>1, <2>2, <2>4, <2>5
<1> QED
  BY <1>1, <1>2, <1>5, <1>8, <1>9

\* Words of the right size become as many bytes.
LEMMA JoinedWords ==
  ASSUME NEW words \in Seq(Word)
  PROVE  Joined(words) \in Seq(Byte) /\ Len(Joined(words)) = WordSize * Len(words)
<1>1. Word \subseteq Seq(Byte) /\ \A w \in Word : Len(w) = WordSize
  BY Sizes DEF Word
<1>2. words \in Seq(Seq(Byte)) /\ \A i \in 1 .. Len(words) : Len(words[i]) >= WordSize
  BY <1>1, Sizes
<1> QED
  BY <1>2, JoinedIs

\* The word behind q words is read from its offset.
LEMMA WordAtIs ==
  ASSUME NEW words \in Seq(Word), NEW q \in 0 .. Len(words) - 1
  PROVE  WordAt(Joined(words), WordSize * q) = words[q + 1]
<1>1. Word \subseteq Seq(Byte) /\ \A w \in Word : Len(w) = WordSize
  BY Sizes DEF Word
<1>2. words \in Seq(Seq(Byte)) /\ \A i \in 1 .. Len(words) : Len(words[i]) >= WordSize
  BY <1>1, Sizes
<1>3. PICK d \in Seq(Byte) :
        /\ d = Joined(words) /\ Len(d) = WordSize * Len(words)
        /\ \A j \in 0 .. Len(words) - 1 : \A k \in 1 .. WordSize :
             d[WordSize * j + k] = words[j + 1][k]
  BY <1>2, JoinedIs
<1>4. PICK p \in Nat : p = WordSize * q
  BY Sizes
<1>5. p + WordSize <= Len(d)
  <2>1. q + 1 \in Nat /\ Len(words) \in Nat /\ q + 1 <= Len(words)
    OBVIOUS
  <2>2. WordSize * (q + 1) <= WordSize * Len(words)
    BY <2>1, Times, Sizes
  <2>3. WordSize * (q + 1) = p + WordSize
    BY <1>4, Sizes
  <2> QED
    BY <1>3, <2>2, <2>3
<1>6. PICK s : s = SubSeq(d, p + 1, p + WordSize)
  OBVIOUS
<1>7. /\ s \in Seq(Byte) /\ Len(s) = WordSize
      /\ \A k \in 1 .. WordSize : s[k] = d[p + k]
  <2>1. PICK b \in Nat : b = p + WordSize /\ p <= b /\ b - p = WordSize
    BY <1>4, Sizes
  <2>2. b <= Len(d)
    BY <1>5, <2>1
  <2>3. s = SubSeq(d, p + 1, b)
    BY <1>6, <2>1
  <2>4. /\ SubSeq(d, p + 1, b) \in Seq(Byte) /\ Len(SubSeq(d, p + 1, b)) = b - p
        /\ \A k \in 1 .. b - p : SubSeq(d, p + 1, b)[k] = d[p + k]
    BY <1>3, <2>1, <2>2, Slice
  <2> QED
    BY <2>1, <2>3, <2>4
<1>8. PICK w \in Word : w = words[q + 1]
  OBVIOUS
<1>9. \A k \in 1 .. WordSize : s[k] = w[k]
  BY <1>3, <1>4, <1>7, <1>8
<1>10. s = w
  BY <1>7, <1>8, <1>9, Sizes DEF Word
<1> QED
  BY <1>3, <1>4, <1>6, <1>8, <1>10 DEF WordAt

-----------------------------------------------------------------------------
(***************************************************************************)
(* Arguments.                                                              *)
(***************************************************************************)
LEMMA ArrayIs ==
  ASSUME NEW words \in Seq(Word), NEW p \in Nat, NEW c \in Nat, p + 1 + c <= Len(words),
         FitsWord(WordSize * p), FitsWord(c), words[p + 1] = NumericToHex(c)
  PROVE  /\ ArrayFits(Joined(words), NumericToHex(WordSize * p))
         /\ ArrayAt(Joined(words), NumericToHex(WordSize * p)) = [i \in 1 .. c |-> words[p + 1 + i]]
<1>1. PICK d : d = Joined(words) /\ d \in Seq(Byte) /\ Len(d) = WordSize * Len(words)
  BY JoinedWords
<1>2. PICK h : h = NumericToHex(WordSize * p)
  OBVIOUS
<1>3. PICK s \in Nat : s = WordSize * p
  BY Sizes
<1>4. Number(h) = s
  BY <1>2, <1>3, NumberIs
<1>5. WordAt(d, s) = NumericToHex(c)
  <2>1. p \in 0 .. Len(words) - 1
    OBVIOUS
  <2> QED
    BY <1>1, <1>3, <2>1, WordAtIs
<1>6. Number(WordAt(d, s)) = c
  BY <1>5, NumberIs
<1>7. WordSize * (p + 1 + c) <= WordSize * Len(words)
  <2>1. p + 1 + c \in Nat /\ Len(words) \in Nat
    OBVIOUS
  <2> QED
    BY <2>1, Times, Sizes
<1>8. WordSize * (p + 1 + c) = s + WordSize * (1 + c)
  BY <1>3, Sizes
<1>9. WordSize <= WordSize * (1 + c)
  <2>1. WordSize * 1 <= WordSize * (1 + c)
    BY Times, Sizes
  <2> QED
    BY <2>1, Sizes
<1>10. WordSize * (1 + c) \in Int
  BY Sizes
<1>11. ArrayFits(d, h)
  <2>1. s + WordSize * (1 + c) <= Len(d)
    BY <1>1, <1>7, <1>8
  <2>2. s + WordSize <= Len(d)
    <3>1. PICK x \in Int : x = WordSize * (1 + c)
      BY <1>10
    <3>2. Len(d) \in Int
      BY <1>1
    <3> QED
      BY <1>9, <2>1, <3>1, <3>2, Sizes
  <2> QED
    BY <1>4, <1>6, <2>1, <2>2 DEF ArrayFits
<1>12. ASSUME NEW i \in 1 .. c PROVE WordAt(d, s + WordSize * i) = words[p + 1 + i]
  <2>1. s + WordSize * i = WordSize * (p + i)
    BY <1>3, Sizes
  <2>2. p + i \in 0 .. Len(words) - 1 /\ (p + i) + 1 = p + 1 + i
    OBVIOUS
  <2>3. WordAt(d, WordSize * (p + i)) = words[(p + i) + 1]
    BY <1>1, <2>2, WordAtIs
  <2> QED
    BY <2>1, <2>2, <2>3
<1>13. ArrayAt(d, h) = [i \in 1 .. c |-> WordAt(d, s + WordSize * i)]
  BY <1>4, <1>6 DEF ArrayAt
<1>14. ArrayAt(d, h) = [i \in 1 .. c |-> words[p + 1 + i]]
  BY <1>12, <1>13, Zenon
<1> QED
  BY <1>1, <1>2, <1>11, <1>14

\* The head word of the i-th parameter.
LEMMA HeadIs ==
  ASSUME NEW words \in Seq(Word), NEW i \in 1 .. Len(words)
  PROVE  WordAt(Joined(words), WordSize * (i - 1)) = words[i]
<1>1. PICK q \in 0 .. Len(words) - 1 : q = i - 1 /\ q + 1 = i
  OBVIOUS
<1> QED
  BY <1>1, WordAtIs

\* What the contract makes of a word of the head.
Decoded(type, data, word) ==
  CASE type = "bytes32"   -> word
    [] type = "bytes16"   -> SubSeq(word, 1, WordSize \div 2)
    [] type = "bytes32[]" -> ArrayAt(data, word)
    [] type = "address[]" -> ArrayAt(data, word)

\* Data with as many words as parameters, whose arrays fit, are decoded.
DecodedAs(got, function, types, words) ==
  /\ got.function = function
  /\ Len(got.args) = Len(types) /\ DOMAIN got.args = DOMAIN types
  /\ \A i \in DOMAIN types : got.args[i] = Decoded(types[i], Joined(words), words[i])

\* The decoder accepts the data and reads each parameter from its word.
LEMMA DecodeIs ==
  ASSUME NEW words \in Seq(Word), NEW c, c.data = Joined(words), NEW types,
         types = Parameters(c.function, c.hasTx),
         \E n \in Nat : DOMAIN types = 1 .. n /\ Len(types) = n /\ n <= Len(words),
         \A i \in DOMAIN types : IsArray(types[i]) => ArrayFits(Joined(words), words[i])
  PROVE  DecodedAs(Decode(c), c.function, types, words)
<1>1. PICK n \in Nat : DOMAIN types = 1 .. n /\ Len(types) = n /\ n <= Len(words)
  OBVIOUS
<1>2. PICK d : d = Joined(words) /\ d = c.data /\ Len(d) = WordSize * Len(words)
  BY JoinedWords
<1>3. \A i \in 1 .. n : WordAt(d, WordSize * (i - 1)) = words[i]
  <2>1. \A i \in 1 .. n : i \in 1 .. Len(words)
    BY <1>1
  <2> QED
    BY <1>2, <2>1, HeadIs
<1>4. Readable(types, d)
  <2>1. WordSize * n <= WordSize * Len(words)
    BY <1>1, Times, Sizes
  <2>2. \A i \in DOMAIN types : IsArray(types[i]) => ArrayFits(d, WordAt(d, WordSize * (i - 1)))
    BY <1>1, <1>2, <1>3
  <2>3. Len(d) >= WordSize * Len(types)
    BY <1>1, <1>2, <2>1
  <2> QED
    BY <2>2, <2>3 DEF Readable
<1> DEFINE A == [i \in 1 .. n |-> Argument(types[i], d, i)]
<1>5. Decode(c) = [function |-> c.function, args |-> A]
  BY <1>1, <1>2, <1>4 DEF Decode
<1>6. Decode(c).function = c.function /\ Decode(c).args = A
  BY <1>5
<1>7. \A i \in 1 .. n : A[i] = Argument(types[i], d, i)
  OBVIOUS
<1>8. \A i \in 1 .. n : Argument(types[i], d, i) = Decoded(types[i], d, words[i])
  BY <1>3, Zenon DEF Argument, Decoded
<1>9. Len(A) = n /\ DOMAIN A = 1 .. n
  BY <1>1
<1> QED
  <2> HIDE DEF A
  <2> QED
    BY <1>1, <1>2, <1>6, <1>7, <1>8, <1>9 DEF DecodedAs

\* Data that a word can hold, and identifiers of transactions.
Datum == {d \in Seq(Byte) : Len(d) <= WordSize}
Tx    == [1 .. WordSize \div 2 -> Byte]

Call(r) == [function |-> r.function, hasTx |-> r.tx # NilId, data |-> Data(r)]

\* The first half of the word of an identifier is the identifier.
LEMMA TxIs ==
  ASSUME NEW tx \in Tx
  PROVE  /\ tx \in Datum /\ ByteArrayToHex(tx) \in Word
         /\ SubSeq(ByteArrayToHex(tx), 1, WordSize \div 2) = tx
<1>1. PICK m \in Nat : m = WordSize \div 2 /\ m <= WordSize
  BY Sizes
<1>2. tx \in Seq(Byte) /\ Len(tx) = m
  BY <1>1 DEF Tx
<1> QED
  BY <1>1, <1>2, Padded DEF Datum

\* The empty identifier has the form of one.
LEMMA NilTx == NilId \in Tx
<1>1. WordSize \div 2 \in Int
  BY Sizes
<1>2. 0 \in Byte
  BY DEF Byte
<1> QED
  BY <1>1, <1>2 DEF NilId, Zeros, Tx

\* Each datum of an array becomes a word.
LEMMA ElementsAre ==
  ASSUME NEW data \in Seq(Datum)
  PROVE  /\ Elements(data) \in Seq(Word) /\ Len(Elements(data)) = Len(data)
         /\ Elements(data) = [i \in 1 .. Len(data) |-> ByteArrayToHex(data[i])]
         /\ \A i \in 1 .. Len(data) : Elements(data)[i] = ByteArrayToHex(data[i])
<1>1. PICK n \in Nat : n = Len(data) /\ DOMAIN data = 1 .. n
  OBVIOUS
<1>2. \A i \in 1 .. n : data[i] \in Datum
  BY <1>1
<1>3. \A i \in 1 .. n : ByteArrayToHex(data[i]) \in Word
  BY <1>2, Padded DEF Datum
<1>4. Elements(data) = [i \in 1 .. n |-> ByteArrayToHex(data[i])]
  BY <1>1 DEF Elements
<1> QED
  BY <1>1, <1>3, <1>4

\* An array is its length and the words of its data.
LEMMA CountedIs ==
  ASSUME NEW data \in Seq(Datum)
  PROVE  /\ Counted(data) \in Seq(Word) /\ Len(Counted(data)) = 1 + Len(data)
         /\ Counted(data)[1] = NumericToHex(Len(data))
         /\ \A i \in 1 .. Len(data) : Counted(data)[1 + i] = ByteArrayToHex(data[i])
<1>1. PICK e \in Seq(Word) :
        /\ e = Elements(data) /\ Len(e) = Len(data)
        /\ \A i \in 1 .. Len(data) : e[i] = ByteArrayToHex(data[i])
  BY ElementsAre
<1>2. PICK w \in Word : w = NumericToHex(Len(data))
  BY NumberWord
<1>3. PICK s \in Seq(Word) : s = <<w>> /\ Len(s) = 1 /\ s[1] = w
  <2> HIDE <1>1, <1>2
  <2>1. <<w>> \in Seq(Word) /\ Len(<<w>>) = 1 /\ <<w>>[1] = w
    OBVIOUS
  <2> QED
    BY <2>1
<1>4. /\ s \o e \in Seq(Word) /\ Len(s \o e) = 1 + Len(e) /\ (s \o e)[1] = w
      /\ \A i \in 1 .. Len(e) : (s \o e)[1 + i] = e[i]
  BY <1>3, Concat
<1>5. Counted(data) = s \o e
  BY <1>1, <1>2, <1>3 DEF Counted
<1> QED
  BY <1>1, <1>2, <1>4, <1>5

\* The word of an identifier, when there is one.
LEMMA TxWordIs ==
  ASSUME NEW tx \in Tx
  PROVE  /\ TxWord(tx) \in Seq(Word)
         /\ tx = NilId => Len(TxWord(tx)) = 0
         /\ tx # NilId => Len(TxWord(tx)) = 1 /\ TxWord(tx)[1] = ByteArrayToHex(tx)
BY TxIs DEF TxWord

-----------------------------------------------------------------------------
(***************************************************************************)
(* Calls, function by function.                                            *)
(***************************************************************************)
Plain == {"put", "remove", "get", "tableScan", "clean"}

Arity(function) ==
  CASE function \in {"put", "putBatch"} -> 2
    [] function \in {"remove", "get", "removeBatch"} -> 1
    [] OTHER -> 0

Types == {"bytes32", "bytes16", "bytes32[]", "address[]"}

LEMMA Tuples ==
  ASSUME NEW T, NEW a \in T, NEW b \in T
  PROVE  /\ <<>> \in Seq(T) /\ Len(<<>>) = 0
         /\ <<a>> \in Seq(T) /\ Len(<<a>>) = 1 /\ <<a>>[1] = a
         /\ <<a, b>> \in Seq(T) /\ Len(<<a, b>>) = 2 /\ <<a, b>>[1] = a /\ <<a, b>>[2] = b
OBVIOUS

LEMMA Triples ==
  ASSUME NEW T, NEW a \in T, NEW b \in T, NEW c \in T
  PROVE  /\ <<a, b, c>> \in Seq(T) /\ Len(<<a, b, c>>) = 3
         /\ <<a, b, c>>[1] = a /\ <<a, b, c>>[2] = b /\ <<a, b, c>>[3] = c
OBVIOUS

LEMMA Appended ==
  ASSUME NEW T, NEW own \in Seq(T), NEW x \in T
  PROVE  /\ Append(own, x) \in Seq(T) /\ Len(Append(own, x)) = Len(own) + 1
         /\ Append(own, x)[Len(own) + 1] = x
         /\ \A i \in 1 .. Len(own) : Append(own, x)[i] = own[i]
OBVIOUS

\* The identifier is the parameter behind a function's own.
LEMMA TypesAre ==
  ASSUME NEW own \in Seq(Types), NEW m \in Nat, m = Len(own), NEW hasTx \in BOOLEAN, NEW types,
         types = IF hasTx THEN Append(own, "bytes16") ELSE own
  PROVE  LET n == IF hasTx THEN m + 1 ELSE m
         IN  /\ DOMAIN types = 1 .. n /\ Len(types) = n /\ n \in Nat
             /\ \A i \in 1 .. m : types[i] = own[i]
             /\ hasTx => types[m + 1] = "bytes16"
<1>1. CASE hasTx
  <2>1. "bytes16" \in Types
    BY DEF Types
  <2>2. /\ types \in Seq(Types) /\ Len(types) = m + 1 /\ types[m + 1] = "bytes16"
        /\ \A i \in 1 .. m : types[i] = own[i]
    BY <1>1, <2>1, Appended
  <2> QED
    BY <1>1, <2>2
<1>2. CASE ~hasTx
  BY <1>2
<1> QED
  BY <1>1, <1>2

\* The parameters of a call whose arguments are words.
LEMMA PlainTypes ==
  ASSUME NEW function \in Plain, NEW hasTx \in BOOLEAN
  PROVE  LET types == Parameters(function, hasTx)
             m == Arity(function)
             n == IF hasTx THEN m + 1 ELSE m
         IN  /\ m \in Nat /\ n \in Nat /\ DOMAIN types = 1 .. n /\ Len(types) = n
             /\ \A i \in 1 .. m : types[i] = "bytes32"
             /\ hasTx => types[m + 1] = "bytes16"
<1>1. PICK own \in Seq(Types) :
        /\ Parameters(function, hasTx) = IF hasTx THEN Append(own, "bytes16") ELSE own
        /\ Len(own) = Arity(function) /\ \A i \in 1 .. Arity(function) : own[i] = "bytes32"
  <2>1. CASE function = "put"
    <3>1. Arity(function) = 2
      BY <2>1 DEF Arity
    <3>2. Parameters(function, hasTx) = IF hasTx THEN Append(<<"bytes32", "bytes32">>, "bytes16") ELSE <<"bytes32", "bytes32">>
      BY <2>1 DEF Parameters
    <3>3. /\ <<"bytes32", "bytes32">> \in Seq(Types)
          /\ Len(<<"bytes32", "bytes32">>) = 2 /\ <<"bytes32", "bytes32">>[1] = "bytes32" /\ <<"bytes32", "bytes32">>[2] = "bytes32"
      <4>1. "bytes32" \in Types
        BY DEF Types
      <4> QED
        BY <4>1, Tuples
    <3>4. \A i \in 1 .. 2 : <<"bytes32", "bytes32">>[i] = "bytes32"
      BY <3>3
    <3> QED
      BY <3>1, <3>2, <3>3, <3>4
  <2>2. CASE function = "remove" \/ function = "get"
    <3>1. Arity(function) = 1
      BY <2>2 DEF Arity
    <3>2. Parameters(function, hasTx) = IF hasTx THEN Append(<<"bytes32">>, "bytes16") ELSE <<"bytes32">>
      BY <2>2 DEF Parameters
    <3>3. /\ <<"bytes32">> \in Seq(Types)
          /\ Len(<<"bytes32">>) = 1 /\ <<"bytes32">>[1] = "bytes32"
      <4>1. "bytes32" \in Types
        BY DEF Types
      <4> QED
        BY <4>1, Tuples
    <3>4. \A i \in 1 .. 1 : <<"bytes32">>[i] = "bytes32"
      BY <3>3
    <3> QED
      BY <3>1, <3>2, <3>3, <3>4
  <2>3. CASE function = "tableScan" \/ function = "clean"
    <3>1. Arity(function) = 0
      BY <2>3 DEF Arity
    <3>2. Parameters(function, hasTx) = IF hasTx THEN Append(<<>>, "bytes16") ELSE <<>>
      BY <2>3 DEF Parameters
    <3>3. /\ <<>> \in Seq(Types)
          /\ Len(<<>>) = 0
      <4>1. "bytes32" \in Types
        BY DEF Types
      <4> QED
        BY <4>1, Tuples
    <3>4. \A i \in 1 .. 0 : <<>>[i] = "bytes32"
      BY <3>3
    <3> QED
      BY <3>1, <3>2, <3>3, <3>4
  <2> QED
    BY <2>1, <2>2, <2>3 DEF Plain
<1>2. Arity(function) \in Nat
  BY DEF Arity
<1>3. PICK m \in Nat : m = Arity(function)
  BY <1>2
<1>4. PICK types : types = Parameters(function, hasTx)
  OBVIOUS
<1>5. LET n == IF hasTx THEN m + 1 ELSE m
      IN  /\ DOMAIN types = 1 .. n /\ Len(types) = n /\ n \in Nat
          /\ \A i \in 1 .. m : types[i] = own[i]
          /\ hasTx => types[m + 1] = "bytes16"
  <2>1. m = Len(own) /\ types = IF hasTx THEN Append(own, "bytes16") ELSE own
    BY <1>1, <1>3, <1>4
  <2> QED
    BY <2>1, TypesAre
<1>6. \A i \in 1 .. m : types[i] = "bytes32"
  BY <1>1, <1>3, <1>5
<1> QED
  BY <1>3, <1>4, <1>5, <1>6

\* The parameters of a batch.
LEMMA BatchTypes ==
  ASSUME NEW function \in {"putBatch", "removeBatch"}, NEW hasTx \in BOOLEAN
  PROVE  LET types == Parameters(function, hasTx)
             m == Arity(function)
             n == IF hasTx THEN m + 1 ELSE m
         IN  /\ m \in Nat /\ n \in Nat /\ DOMAIN types = 1 .. n /\ Len(types) = n
             /\ \A i \in 1 .. m : types[i] = "bytes32[]"
             /\ hasTx => types[m + 1] = "bytes16"
<1>1. PICK own \in Seq(Types) :
        /\ Parameters(function, hasTx) = IF hasTx THEN Append(own, "bytes16") ELSE own
        /\ Len(own) = Arity(function) /\ \A i \in 1 .. Arity(function) : own[i] = "bytes32[]"
  <2>1. CASE function = "putBatch"
    <3>1. Arity(function) = 2
      BY <2>1 DEF Arity
    <3>2. Parameters(function, hasTx) = IF hasTx THEN Append(<<"bytes32[]", "bytes32[]">>, "bytes16") ELSE <<"bytes32[]", "bytes32[]">>
      BY <2>1 DEF Parameters
    <3>3. /\ <<"bytes32[]", "bytes32[]">> \in Seq(Types)
          /\ Len(<<"bytes32[]", "bytes32[]">>) = 2 /\ <<"bytes32[]", "bytes32[]">>[1] = "bytes32[]" /\ <<"bytes32[]", "bytes32[]">>[2] = "bytes32[]"
      <4>1. "bytes32[]" \in Types
        BY DEF Types
      <4> QED
        BY <4>1, Tuples
    <3>4. \A i \in 1 .. 2 : <<"bytes32[]", "bytes32[]">>[i] = "bytes32[]"
      BY <3>3
    <3> QED
      BY <3>1, <3>2, <3>3, <3>4
  <2>2. CASE function = "removeBatch"
    <3>1. Arity(function) = 1
      BY <2>2 DEF Arity
    <3>2. Parameters(function, hasTx) = IF hasTx THEN Append(<<"bytes32[]">>, "bytes16") ELSE <<"bytes32[]">>
      BY <2>2 DEF Parameters
    <3>3. /\ <<"bytes32[]">> \in Seq(Types)
          /\ Len(<<"bytes32[]">>) = 1 /\ <<"bytes32[]">>[1] = "bytes32[]"
      <4>1. "bytes32[]" \in Types
        BY DEF Types
      <4> QED
        BY <4>1, Tuples
    <3>4. \A i \in 1 .. 1 : <<"bytes32[]">>[i] = "bytes32[]"
      BY <3>3
    <3> QED
      BY <3>1, <3>2, <3>3, <3>4
  <2> QED
    BY <2>1, <2>2
<1>2. Arity(function) \in Nat
  BY DEF Arity
<1>3. PICK m \in Nat : m = Arity(function)
  BY <1>2
<1>4. PICK types : types = Parameters(function, hasTx)
  OBVIOUS
<1>5. LET n == IF hasTx THEN m + 1 ELSE m
      IN  /\ DOMAIN types = 1 .. n /\ Len(types) = n /\ n \in Nat
          /\ \A i \in 1 .. m : types[i] = own[i]
          /\ hasTx => types[m + 1] = "bytes16"
  <2>1. m = Len(own) /\ types = IF hasTx THEN Append(own, "bytes16") ELSE own
    BY <1>1, <1>3, <1>4
  <2> QED
    BY <2>1, TypesAre
<1>6. \A i \in 1 .. m : types[i] = "bytes32[]"
  BY <1>1, <1>3, <1>5
<1> QED
  BY <1>3, <1>4, <1>5, <1>6

\* The parameters of a commit.
LEMMA CommitTypes ==
  ASSUME NEW hasTx \in BOOLEAN
  PROVE  Parameters("commitAll", hasTx) = <<"bytes16", "address[]">>
BY DEF Parameters

\* A call of data of a word each, with its identifier behind them.
PlainDecoded(got, function, args, tx) ==
  LET m == Len(args)
      n == IF tx # NilId THEN m + 1 ELSE m
  IN  /\ got.function = function /\ Len(got.args) = n /\ DOMAIN got.args = 1 .. n
      /\ \A i \in 1 .. m : got.args[i] = ByteArrayToHex(args[i])
      /\ tx # NilId => got.args[m + 1] = tx

\* Each argument of such a call is read as its word.
LEMMA DecodePlain ==
  ASSUME NEW function \in Plain, NEW args \in Seq(Datum), Len(args) = Arity(function),
         NEW tx \in Tx
  PROVE  PlainDecoded(Decode(Call([function |-> function, args |-> args, tx |-> tx])),
                      function, args, tx)
<1>1. PICK r : r = [function |-> function, args |-> args, tx |-> tx]
  OBVIOUS
<1>2. PICK c : c = Call(r)
  OBVIOUS
<1>3. PICK m \in Nat : m = Len(args)
  OBVIOUS
<1>4. PICK n \in Nat : n = IF tx # NilId THEN m + 1 ELSE m
  OBVIOUS
<1>5. PICK e \in Seq(Word) : /\ e = Elements(args) /\ Len(e) = m
                             /\ \A i \in 1 .. m : e[i] = ByteArrayToHex(args[i])
  BY <1>3, ElementsAre
<1>6. PICK x \in Seq(Word) : /\ x = TxWord(tx) /\ (tx = NilId => Len(x) = 0)
                             /\ (tx # NilId => Len(x) = 1 /\ x[1] = ByteArrayToHex(tx))
  BY TxWordIs
<1>7. PICK words \in Seq(Word) :
        /\ words = e \o x /\ Len(words) = Len(e) + Len(x)
        /\ \A i \in 1 .. Len(e) : words[i] = e[i]
        /\ \A i \in 1 .. Len(x) : words[Len(e) + i] = x[i]
  <2>1. /\ e \o x \in Seq(Word) /\ Len(e \o x) = Len(e) + Len(x)
        /\ \A i \in 1 .. Len(e) : (e \o x)[i] = e[i]
        /\ \A i \in 1 .. Len(x) : (e \o x)[Len(e) + i] = x[i]
    BY Concat
  <2> QED
    BY <2>1
<1>8. /\ Len(words) = n
      /\ \A i \in 1 .. m : words[i] = ByteArrayToHex(args[i])
      /\ tx # NilId => words[m + 1] = ByteArrayToHex(tx)
  <2>1. \A i \in 1 .. m : words[i] = e[i]
    BY <1>5, <1>7
  <2>2. Len(words) = n
    BY <1>4, <1>5, <1>6, <1>7, SMTT(20)
  <2>3. ASSUME tx # NilId PROVE words[m + 1] = x[1]
    <3>1. 1 \in 1 .. Len(x) /\ Len(e) = m
      <4>1. Len(x) = 1
        BY <1>6, <2>3
      <4> QED
        BY <1>5, <4>1
    <3> QED
      BY <1>7, <3>1
  <2> QED
    BY <1>5, <1>6, <2>1, <2>2, <2>3
<1>9. c.function = function /\ c.hasTx = (tx # NilId) /\ c.data = Joined(words)
  <2>1. Words(r) = words
    BY <1>1, <1>5, <1>6, <1>7 DEF Words, Plain
  <2> QED
    BY <1>1, <1>2, <2>1 DEF Call, Data
<1>10. PICK types : types = Parameters(function, tx # NilId)
  OBVIOUS
<1>11. /\ DOMAIN types = 1 .. n /\ Len(types) = n
       /\ \A i \in 1 .. m : types[i] = "bytes32"
       /\ tx # NilId => types[m + 1] = "bytes16"
  BY <1>3, <1>4, <1>10, PlainTypes
<1>12. \A i \in 1 .. n : types[i] \in {"bytes32", "bytes16"}
  BY <1>4, <1>11
<1>13. \A i \in 1 .. n : ~IsArray(types[i])
  BY <1>12 DEF IsArray
<1>14. /\ Decode(c).function = function
       /\ Len(Decode(c).args) = n /\ DOMAIN Decode(c).args = 1 .. n
       /\ \A i \in 1 .. n : Decode(c).args[i] = Decoded(types[i], Joined(words), words[i])
  <2>1. n <= Len(words) /\ types = Parameters(c.function, c.hasTx) /\ c.data = Joined(words)
    BY <1>8, <1>9, <1>10
  <2>2. \A i \in DOMAIN types : IsArray(types[i]) => ArrayFits(Joined(words), words[i])
    BY <1>11, <1>13
  <2>3. \E k \in Nat : DOMAIN types = 1 .. k /\ Len(types) = k /\ k <= Len(words)
    BY <1>11, <2>1
  <2>4. DecodedAs(Decode(c), c.function, types, words)
    BY <2>1, <2>2, <2>3, DecodeIs
  <2> QED
    BY <1>9, <1>11, <2>4 DEF DecodedAs
<1>15. Len(Decode(c).args) = n /\ DOMAIN Decode(c).args = 1 .. n
  BY <1>14
<1>16. ASSUME NEW i \in 1 .. m PROVE Decode(c).args[i] = ByteArrayToHex(args[i])
  <2>1. i \in 1 .. n /\ types[i] = "bytes32"
    BY <1>4, <1>11
  <2>2. Decoded("bytes32", Joined(words), words[i]) = words[i]
    BY DEF Decoded
  <2> QED
    BY <1>8, <1>14, <2>1, <2>2
<1>17. ASSUME tx # NilId PROVE Decode(c).args[m + 1] = tx
  <2>1. m + 1 \in 1 .. n /\ types[m + 1] = "bytes16"
    BY <1>4, <1>11, <1>17
  <2>2. Decoded("bytes16", Joined(words), words[m + 1]) = SubSeq(words[m + 1], 1, WordSize \div 2)
    BY DEF Decoded
  <2>3. SubSeq(words[m + 1], 1, WordSize \div 2) = tx
    BY <1>8, <1>17, TxIs
  <2> QED
    BY <1>14, <2>1, <2>2, <2>3
<1> QED
  BY <1>1, <1>2, <1>3, <1>4, <1>14, <1>15, <1>16, <1>17 DEF PlainDecoded

\* The elements of three sequences, one behind the other.
LEMMA Concat3 ==
  ASSUME NEW S, NEW c \in Seq(S), NEW d \in Seq(S), NEW e \in Seq(S)
  PROVE  /\ c \o d \o e \in Seq(S)
         /\ Len(c \o d \o e) = Len(c) + Len(d) + Len(e)
         /\ \A i \in 1 .. Len(c) : (c \o d \o e)[i] = c[i]
         /\ \A i \in 1 .. Len(d) : (c \o d \o e)[Len(c) + i] = d[i]
         /\ \A i \in 1 .. Len(e) : (c \o d \o e)[Len(c) + Len(d) + i] = e[i]
<1>1. PICK f \in Seq(S) :
        /\ f = c \o d /\ Len(f) = Len(c) + Len(d)
        /\ \A i \in 1 .. Len(c) : f[i] = c[i]
        /\ \A i \in 1 .. Len(d) : f[Len(c) + i] = d[i]
  <2>1. /\ c \o d \in Seq(S) /\ Len(c \o d) = Len(c) + Len(d)
        /\ \A i \in 1 .. Len(c) : (c \o d)[i] = c[i]
        /\ \A i \in 1 .. Len(d) : (c \o d)[Len(c) + i] = d[i]
    BY Concat
  <2> QED
    BY <2>1
<1>2. PICK g : g = c \o d \o e
  OBVIOUS
<1>3. /\ g \in Seq(S) /\ Len(g) = Len(f) + Len(e)
      /\ \A i \in 1 .. Len(f) : g[i] = f[i]
      /\ \A i \in 1 .. Len(e) : g[Len(f) + i] = e[i]
  BY <1>1, <1>2, Concat
<1>4. \A i \in 1 .. Len(c) : i \in 1 .. Len(f)
  BY <1>1
<1>5. \A i \in 1 .. Len(d) : Len(c) + i \in 1 .. Len(f)
  BY <1>1
<1>6. \A i \in 1 .. Len(c) : g[i] = c[i]
  BY <1>1, <1>3, <1>4
<1>7. \A i \in 1 .. Len(d) : g[Len(c) + i] = d[i]
  BY <1>1, <1>3, <1>5
<1> QED
  BY <1>1, <1>2, <1>3, <1>6, <1>7

\* The head of a batch: as many offsets as arrays, and the identifier.
IsBatchHead(o, n, tx, h) ==
  /\ o \in Seq(Word) /\ Len(o) = h
  /\ o[1] = NumericToHex(WordSize * h) /\ o[2] = NumericToHex(WordSize * (h + 1 + n))
  /\ h = 3 => o[3] = ByteArrayToHex(tx)

\* The offsets of put_batch lead behind the head and behind the keys.
LEMMA BatchOffsetsAre ==
  ASSUME NEW n \in Nat, NEW tx \in Tx
  PROVE  IsBatchHead(BatchOffsets(n, tx), n, tx, IF tx # NilId THEN 3 ELSE 2)
<1> USE DEF IsBatchHead
<1>1. CASE tx # NilId
  <2>1. 4 * WordSize + WordSize * n = WordSize * (3 + 1 + n) /\ 3 * WordSize = WordSize * 3
    BY Sizes
  <2>2. PICK a \in Word : a = NumericToHex(WordSize * 3)
    <3>1. WordSize * 3 \in Nat
      BY Sizes
    <3> QED
      BY <3>1, NumberWord
  <2>3. PICK b \in Word : b = NumericToHex(WordSize * (3 + 1 + n))
    <3>1. WordSize * (3 + 1 + n) \in Nat
      BY Sizes
    <3> QED
      BY <3>1, NumberWord
  <2>4. PICK x \in Word : x = ByteArrayToHex(tx)
    BY TxIs
  <2>5. BatchOffsets(n, tx) = <<a, b, x>>
    BY <1>1, <2>1, <2>2, <2>3, <2>4 DEF BatchOffsets
  <2>6. /\ <<a, b, x>> \in Seq(Word) /\ Len(<<a, b, x>>) = 3
        /\ <<a, b, x>>[1] = a /\ <<a, b, x>>[2] = b /\ <<a, b, x>>[3] = x
    BY Triples
  <2> QED
    BY <1>1, <2>2, <2>3, <2>4, <2>5, <2>6
<1>2. CASE tx = NilId
  <2>1. 3 * WordSize + WordSize * n = WordSize * (2 + 1 + n) /\ 2 * WordSize = WordSize * 2
    BY Sizes
  <2>2. PICK a \in Word : a = NumericToHex(WordSize * 2)
    <3>1. WordSize * 2 \in Nat
      BY Sizes
    <3> QED
      BY <3>1, NumberWord
  <2>3. PICK b \in Word : b = NumericToHex(WordSize * (2 + 1 + n))
    <3>1. WordSize * (2 + 1 + n) \in Nat
      BY Sizes
    <3> QED
      BY <3>1, NumberWord
  <2>4. BatchOffsets(n, tx) = <<a, b>>
    BY <1>2, <2>1, <2>2, <2>3 DEF BatchOffsets
  <2>5. <<a, b>> \in Seq(Word) /\ Len(<<a, b>>) = 2 /\ <<a, b>>[1] = a /\ <<a, b>>[2] = b
    BY Tuples
  <2> QED
    BY <1>2, <2>2, <2>3, <2>4, <2>5
<1> QED
  BY <1>1, <1>2

IsRemoveHead(o, tx, h) ==
  /\ o \in Seq(Word) /\ Len(o) = h /\ o[1] = NumericToHex(WordSize * h)
  /\ h = 2 => o[2] = ByteArrayToHex(tx)

\* The offset of remove_batch leads behind the head.
LEMMA RemoveOffsetIs ==
  ASSUME NEW tx \in Tx
  PROVE  IsRemoveHead(RemoveOffset(tx), tx, IF tx # NilId THEN 2 ELSE 1)
<1> USE DEF IsRemoveHead
<1>1. CASE tx # NilId
  <2>1. PICK a \in Word : a = NumericToHex(WordSize * 2) /\ 2 * WordSize = WordSize * 2
    <3>1. WordSize * 2 \in Nat /\ 2 * WordSize = WordSize * 2
      BY Sizes
    <3> QED
      BY <3>1, NumberWord
  <2>2. PICK x \in Word : x = ByteArrayToHex(tx)
    BY TxIs
  <2>3. RemoveOffset(tx) = <<a, x>>
    BY <1>1, <2>1, <2>2 DEF RemoveOffset
  <2>4. <<a, x>> \in Seq(Word) /\ Len(<<a, x>>) = 2 /\ <<a, x>>[1] = a /\ <<a, x>>[2] = x
    BY Tuples
  <2> QED
    BY <1>1, <2>1, <2>2, <2>3, <2>4
<1>2. CASE tx = NilId
  <2>1. PICK a \in Word : a = NumericToHex(WordSize) /\ WordSize = WordSize * 1
    BY NumberWord, Sizes
  <2>2. RemoveOffset(tx) = <<a>>
    BY <1>2, <2>1 DEF RemoveOffset
  <2>3. <<a>> \in Seq(Word) /\ Len(<<a>>) = 1 /\ <<a>>[1] = a
    BY Tuples
  <2> QED
    BY <1>2, <2>1, <2>2, <2>3
<1> QED
  BY <1>1, <1>2

\* The contract reads the keys and the values of a batch.
LEMMA DecodePutBatch ==
  ASSUME NEW keys \in Seq(Datum), NEW values \in Seq(Datum), Len(keys) = Len(values),
         Len(keys) <= MaxBatch, NEW tx \in Tx
  PROVE  LET got == Decode(Call([function |-> "putBatch", args |-> <<keys, values>>, tx |-> tx]))
             h == IF tx # NilId THEN 3 ELSE 2
         IN  /\ got.function = "putBatch" /\ Len(got.args) = h /\ DOMAIN got.args = 1 .. h
             /\ got.args[1] = Elements(keys) /\ got.args[2] = Elements(values)
             /\ tx # NilId => got.args[3] = tx
<1>1. PICK r : r = [function |-> "putBatch", args |-> <<keys, values>>, tx |-> tx]
  OBVIOUS
<1>2. PICK c : c = Call(r)
  OBVIOUS
<1>3. PICK n \in Nat : n = Len(keys) /\ n = Len(values) /\ n <= MaxBatch
  OBVIOUS
<1>4. PICK h \in Nat : h = IF tx # NilId THEN 3 ELSE 2
  OBVIOUS
<1>5. PICK o \in Seq(Word) : /\ o = BatchOffsets(n, tx) /\ Len(o) = h
                             /\ o[1] = NumericToHex(WordSize * h)
                             /\ o[2] = NumericToHex(WordSize * (h + 1 + n))
                             /\ h = 3 => o[3] = ByteArrayToHex(tx)
  <2>1. IsBatchHead(BatchOffsets(n, tx), n, tx, h)
    BY <1>3, <1>4, BatchOffsetsAre
  <2> QED
    BY <2>1 DEF IsBatchHead
<1>6. PICK k \in Seq(Word) : /\ k = Counted(keys) /\ Len(k) = 1 + n
                             /\ k[1] = NumericToHex(n)
                             /\ \A i \in 1 .. n : k[1 + i] = ByteArrayToHex(keys[i])
  BY <1>3, CountedIs
<1>7. PICK v \in Seq(Word) : /\ v = Counted(values) /\ Len(v) = 1 + n
                             /\ v[1] = NumericToHex(n)
                             /\ \A i \in 1 .. n : v[1 + i] = ByteArrayToHex(values[i])
  BY <1>3, CountedIs
<1>8. PICK words \in Seq(Word) :
        /\ words = o \o k \o v /\ Len(words) = Len(o) + Len(k) + Len(v)
        /\ \A i \in 1 .. Len(o) : words[i] = o[i]
        /\ \A i \in 1 .. Len(k) : words[Len(o) + i] = k[i]
        /\ \A i \in 1 .. Len(v) : words[Len(o) + Len(k) + i] = v[i]
  <2>1. /\ o \o k \o v \in Seq(Word) /\ Len(o \o k \o v) = Len(o) + Len(k) + Len(v)
        /\ \A i \in 1 .. Len(o) : (o \o k \o v)[i] = o[i]
        /\ \A i \in 1 .. Len(k) : (o \o k \o v)[Len(o) + i] = k[i]
        /\ \A i \in 1 .. Len(v) : (o \o k \o v)[Len(o) + Len(k) + i] = v[i]
    BY Concat3
  <2> QED
    BY <2>1
<1>9. c.function = "putBatch" /\ c.hasTx = (tx # NilId) /\ c.data = Joined(words)
  <2>1. Words(r) = words
    BY <1>1, <1>3, <1>5, <1>6, <1>7, <1>8 DEF Words, PutBatchData
  <2> QED
    BY <1>1, <1>2, <2>1 DEF Call, Data
<1>10. /\ Len(words) = h + 2 + n + n /\ words[1] = o[1] /\ words[2] = o[2]
       /\ h = 3 => words[3] = o[3]
       /\ words[h + 1] = NumericToHex(n) /\ words[(h + 1 + n) + 1] = NumericToHex(n)
  <2>1. 1 \in 1 .. Len(o) /\ 2 \in 1 .. Len(o) /\ (h = 3 => 3 \in 1 .. Len(o))
    BY <1>4, <1>5
  <2>2. 1 \in 1 .. Len(k) /\ 1 \in 1 .. Len(v)
    BY <1>6, <1>7
  <2>3. Len(words) = h + 2 + n + n /\ Len(o) + Len(k) + 1 = (h + 1 + n) + 1
    BY <1>5, <1>6, <1>7, <1>8
  <2>4. words[Len(o) + 1] = k[1] /\ words[Len(o) + Len(k) + 1] = v[1]
    BY <1>8, <2>2
  <2> QED
    BY <1>5, <1>6, <1>7, <1>8, <2>1, <2>3, <2>4
<1>11. /\ ArrayFits(Joined(words), words[1])
       /\ ArrayAt(Joined(words), words[1]) = Elements(keys)
  <2>1. FitsWord(WordSize * h) /\ FitsWord(n)
    <3>1. h <= 4 + MaxBatch /\ n <= 4 + MaxBatch
      BY <1>3, <1>4, Sizes
    <3> QED
      BY <3>1, OffsetFits
  <2>2. h + 1 + n <= Len(words) /\ words[h + 1] = NumericToHex(n)
    BY <1>10
  <2>3. /\ ArrayFits(Joined(words), NumericToHex(WordSize * h))
        /\ ArrayAt(Joined(words), NumericToHex(WordSize * h)) = [i \in 1 .. n |-> words[h + 1 + i]]
    BY <2>1, <2>2, ArrayIs
  <2>4. \A i \in 1 .. n : words[h + 1 + i] = ByteArrayToHex(keys[i])
    <3>1. \A i \in 1 .. n : 1 + i \in 1 .. Len(k) /\ Len(o) + (1 + i) = h + 1 + i
      BY <1>5, <1>6
    <3> QED
      BY <1>6, <1>8, <3>1
  <2>5. Elements(keys) = [i \in 1 .. n |-> ByteArrayToHex(keys[i])]
    BY <1>3, ElementsAre
  <2>6. [i \in 1 .. n |-> words[h + 1 + i]] = [i \in 1 .. n |-> ByteArrayToHex(keys[i])]
    BY <2>4, Zenon
  <2> QED
    BY <1>5, <1>10, <2>3, <2>5, <2>6
<1>12. /\ ArrayFits(Joined(words), words[2])
       /\ ArrayAt(Joined(words), words[2]) = Elements(values)
  <2>0. PICK p \in Nat : p = h + 1 + n
    OBVIOUS
  <2>1. FitsWord(WordSize * p) /\ FitsWord(n)
    <3>1. p <= 4 + MaxBatch /\ n <= 4 + MaxBatch
      BY <1>3, <1>4, <2>0, Sizes
    <3> QED
      BY <3>1, OffsetFits
  <2>2. p + 1 + n <= Len(words) /\ words[p + 1] = NumericToHex(n)
    BY <1>10, <2>0
  <2>3. /\ ArrayFits(Joined(words), NumericToHex(WordSize * p))
        /\ ArrayAt(Joined(words), NumericToHex(WordSize * p)) = [i \in 1 .. n |-> words[p + 1 + i]]
    BY <2>1, <2>2, ArrayIs
  <2>4. \A i \in 1 .. n : words[p + 1 + i] = ByteArrayToHex(values[i])
    <3>1. \A i \in 1 .. n : 1 + i \in 1 .. Len(v) /\ Len(o) + Len(k) + (1 + i) = p + 1 + i
      BY <1>5, <1>6, <1>7, <2>0
    <3> QED
      BY <1>7, <1>8, <3>1
  <2>5. Elements(values) = [i \in 1 .. n |-> ByteArrayToHex(values[i])]
    BY <1>3, ElementsAre
  <2>6. [i \in 1 .. n |-> words[p + 1 + i]] = [i \in 1 .. n |-> ByteArrayToHex(values[i])]
    BY <2>4, Zenon
  <2> QED
    BY <1>5, <1>10, <2>0, <2>3, <2>5, <2>6
<1>13. PICK types : types = Parameters("putBatch", tx # NilId)
  OBVIOUS
<1>14. /\ DOMAIN types = 1 .. h /\ Len(types) = h
       /\ types[1] = "bytes32[]" /\ types[2] = "bytes32[]"
       /\ tx # NilId => types[3] = "bytes16"
  <2>1. Arity("putBatch") = 2
    BY DEF Arity
  <2>2. PICK hasTx \in BOOLEAN : hasTx = (tx # NilId)
    OBVIOUS
  <2>3. LET l == IF hasTx THEN 2 + 1 ELSE 2
        IN  /\ DOMAIN types = 1 .. l /\ Len(types) = l
            /\ \A i \in 1 .. 2 : types[i] = "bytes32[]"
            /\ hasTx => types[2 + 1] = "bytes16"
    BY <1>13, <2>1, <2>2, BatchTypes
  <2>4. types[1] = "bytes32[]" /\ types[2] = "bytes32[]"
    BY <2>3
  <2>5. CASE hasTx
    <3>1. DOMAIN types = 1 .. (2 + 1) /\ Len(types) = 2 + 1 /\ types[2 + 1] = "bytes16"
      BY <2>3, <2>5
    <3>0. tx # NilId
      BY <2>2, <2>5, Zenon
    <3>2. 2 + 1 = 3 /\ h = 3
      BY <1>4, <3>0
    <3> QED
      BY <2>4, <3>1, <3>2
  <2>6. CASE ~hasTx
    BY <1>4, <2>2, <2>3, <2>4, <2>6
  <2> QED
    BY <2>2, <2>5, <2>6
<1>15. DecodedAs(Decode(c), "putBatch", types, words)
  <2>1. types = Parameters(c.function, c.hasTx) /\ c.data = Joined(words)
    BY <1>9, <1>13
  <2>2. \A i \in DOMAIN types : IsArray(types[i]) => ArrayFits(Joined(words), words[i])
    <3>1. ~IsArray("bytes16")
      BY DEF IsArray
    <3>2. DOMAIN types \subseteq {1, 2, 3} /\ (3 \in DOMAIN types => tx # NilId)
      BY <1>4, <1>14
    <3> QED
      BY <1>11, <1>12, <1>14, <3>1, <3>2
  <2>3. \E l \in Nat : DOMAIN types = 1 .. l /\ Len(types) = l /\ l <= Len(words)
    BY <1>10, <1>14
  <2> QED
    BY <1>9, <2>1, <2>2, <2>3, DecodeIs
<1>16. /\ Decode(c).function = "putBatch" /\ Len(Decode(c).args) = h
       /\ DOMAIN Decode(c).args = 1 .. h
       /\ \A i \in 1 .. h : Decode(c).args[i] = Decoded(types[i], Joined(words), words[i])
  BY <1>14, <1>15 DEF DecodedAs
<1>17. Decode(c).args[1] = Elements(keys) /\ Decode(c).args[2] = Elements(values)
  <2>1. 1 \in 1 .. h /\ 2 \in 1 .. h
    BY <1>4
  <2>2. \A w : Decoded("bytes32[]", Joined(words), w) = ArrayAt(Joined(words), w)
    BY DEF Decoded
  <2> QED
    BY <1>11, <1>12, <1>14, <1>16, <2>1, <2>2
<1>18. ASSUME tx # NilId PROVE Decode(c).args[3] = tx
  <2>1. 3 \in 1 .. h /\ types[3] = "bytes16" /\ words[3] = ByteArrayToHex(tx)
    BY <1>4, <1>5, <1>10, <1>14, <1>18
  <2>2. Decoded("bytes16", Joined(words), words[3]) = SubSeq(words[3], 1, WordSize \div 2)
    BY DEF Decoded
  <2>3. SubSeq(words[3], 1, WordSize \div 2) = tx
    BY <2>1, TxIs
  <2> QED
    BY <1>16, <2>1, <2>2, <2>3
<1> QED
  BY <1>1, <1>2, <1>4, <1>16, <1>17, <1>18

\* The contract reads the keys of a batch of removals.
LEMMA DecodeRemoveBatch ==
  ASSUME NEW keys \in Seq(Datum), Len(keys) <= MaxBatch, NEW tx \in Tx
  PROVE  LET got == Decode(Call([function |-> "removeBatch", args |-> <<keys>>, tx |-> tx]))
             h == IF tx # NilId THEN 2 ELSE 1
         IN  /\ got.function = "removeBatch" /\ Len(got.args) = h /\ DOMAIN got.args = 1 .. h
             /\ got.args[1] = Elements(keys)
             /\ tx # NilId => got.args[2] = tx
<1>1. PICK r : r = [function |-> "removeBatch", args |-> <<keys>>, tx |-> tx]
  OBVIOUS
<1>2. PICK c : c = Call(r)
  OBVIOUS
<1>3. PICK n \in Nat : n = Len(keys) /\ n <= MaxBatch
  OBVIOUS
<1>4. PICK h \in Nat : h = IF tx # NilId THEN 2 ELSE 1
  OBVIOUS
<1>5. PICK o \in Seq(Word) : /\ o = RemoveOffset(tx) /\ Len(o) = h
                             /\ o[1] = NumericToHex(WordSize * h)
                             /\ h = 2 => o[2] = ByteArrayToHex(tx)
  <2>1. IsRemoveHead(RemoveOffset(tx), tx, h)
    BY <1>4, RemoveOffsetIs
  <2> QED
    BY <2>1 DEF IsRemoveHead
<1>6. PICK k \in Seq(Word) : /\ k = Counted(keys) /\ Len(k) = 1 + n
                             /\ k[1] = NumericToHex(n)
                             /\ \A i \in 1 .. n : k[1 + i] = ByteArrayToHex(keys[i])
  BY <1>3, CountedIs
<1>7. PICK words \in Seq(Word) :
        /\ words = o \o k /\ Len(words) = Len(o) + Len(k)
        /\ \A i \in 1 .. Len(o) : words[i] = o[i]
        /\ \A i \in 1 .. Len(k) : words[Len(o) + i] = k[i]
  <2>1. /\ o \o k \in Seq(Word) /\ Len(o \o k) = Len(o) + Len(k)
        /\ \A i \in 1 .. Len(o) : (o \o k)[i] = o[i]
        /\ \A i \in 1 .. Len(k) : (o \o k)[Len(o) + i] = k[i]
    BY Concat
  <2> QED
    BY <2>1
<1>8. c.function = "removeBatch" /\ c.hasTx = (tx # NilId) /\ c.data = Joined(words)
  <2>1. Words(r) = words
    BY <1>1, <1>5, <1>6, <1>7 DEF Words, RemoveBatchData
  <2> QED
    BY <1>1, <1>2, <2>1 DEF Call, Data
<1>9. /\ Len(words) = h + 1 + n /\ words[1] = o[1] /\ (h = 2 => words[2] = o[2])
      /\ words[h + 1] = NumericToHex(n)
  <2>1. 1 \in 1 .. Len(o) /\ (h = 2 => 2 \in 1 .. Len(o)) /\ 1 \in 1 .. Len(k)
    BY <1>4, <1>5, <1>6
  <2>2. words[1] = o[1] /\ (h = 2 => words[2] = o[2])
    BY <1>7, <2>1
  <2>3. words[Len(o) + 1] = k[1]
    BY <1>7, <2>1
  <2>4. Len(words) = h + 1 + n
    BY <1>3, <1>4, <1>5, <1>6, <1>7
  <2> QED
    BY <1>5, <1>6, <2>2, <2>3, <2>4
<1>10. /\ ArrayFits(Joined(words), words[1])
       /\ ArrayAt(Joined(words), words[1]) = Elements(keys)
  <2>1. FitsWord(WordSize * h) /\ FitsWord(n)
    <3>1. h <= 4 + MaxBatch /\ n <= 4 + MaxBatch
      BY <1>3, <1>4, Sizes
    <3> QED
      BY <3>1, OffsetFits
  <2>2. h + 1 + n <= Len(words) /\ words[h + 1] = NumericToHex(n)
    BY <1>9
  <2>3. /\ ArrayFits(Joined(words), NumericToHex(WordSize * h))
        /\ ArrayAt(Joined(words), NumericToHex(WordSize * h)) = [i \in 1 .. n |-> words[h + 1 + i]]
    BY <2>1, <2>2, ArrayIs
  <2>4. \A i \in 1 .. n : words[h + 1 + i] = ByteArrayToHex(keys[i])
    <3>1. \A i \in 1 .. n : 1 + i \in 1 .. Len(k) /\ Len(o) + (1 + i) = h + 1 + i
      BY <1>5, <1>6
    <3> QED
      BY <1>6, <1>7, <3>1
  <2>5. Elements(keys) = [i \in 1 .. n |-> ByteArrayToHex(keys[i])]
    BY <1>3, ElementsAre
  <2>6. [i \in 1 .. n |-> words[h + 1 + i]] = [i \in 1 .. n |-> ByteArrayToHex(keys[i])]
    BY <2>4, Zenon
  <2> QED
    BY <1>5, <1>9, <2>3, <2>5, <2>6
<1>11. PICK types : types = Parameters("removeBatch", tx # NilId)
  OBVIOUS
<1>12. /\ DOMAIN types = 1 .. h /\ Len(types) = h /\ types[1] = "bytes32[]"
       /\ tx # NilId => types[2] = "bytes16"
  <2>1. Arity("removeBatch") = 1
    BY DEF Arity
  <2>2. PICK hasTx \in BOOLEAN : hasTx = (tx # NilId)
    OBVIOUS
  <2>3. LET l == IF hasTx THEN 1 + 1 ELSE 1
        IN  /\ DOMAIN types = 1 .. l /\ Len(types) = l
            /\ \A i \in 1 .. 1 : types[i] = "bytes32[]"
            /\ hasTx => types[1 + 1] = "bytes16"
    BY <1>11, <2>1, <2>2, BatchTypes
  <2>4. types[1] = "bytes32[]"
    BY <2>3
  <2>5. CASE hasTx
    <3>1. DOMAIN types = 1 .. (1 + 1) /\ Len(types) = 1 + 1 /\ types[1 + 1] = "bytes16"
      BY <2>3, <2>5
    <3>0. tx # NilId
      BY <2>2, <2>5, Zenon
    <3>2. 1 + 1 = 2 /\ h = 2
      BY <1>4, <3>0
    <3> QED
      BY <2>4, <3>1, <3>2
  <2>6. CASE ~hasTx
    BY <1>4, <2>2, <2>3, <2>4, <2>6
  <2> QED
    BY <2>2, <2>5, <2>6
<1>13. DecodedAs(Decode(c), "removeBatch", types, words)
  <2>1. types = Parameters(c.function, c.hasTx) /\ c.data = Joined(words)
    BY <1>8, <1>11
  <2>2. \A i \in DOMAIN types : IsArray(types[i]) => ArrayFits(Joined(words), words[i])
    <3>1. ~IsArray("bytes16")
      BY DEF IsArray
    <3>2. DOMAIN types \subseteq {1, 2} /\ (2 \in DOMAIN types => tx # NilId)
      BY <1>4, <1>12
    <3> QED
      BY <1>10, <1>12, <3>1, <3>2
  <2>3. \E l \in Nat : DOMAIN types = 1 .. l /\ Len(types) = l /\ l <= Len(words)
    BY <1>9, <1>12
  <2> QED
    BY <1>8, <2>1, <2>2, <2>3, DecodeIs
<1>14. /\ Decode(c).function = "removeBatch" /\ Len(Decode(c).args) = h
       /\ DOMAIN Decode(c).args = 1 .. h
       /\ \A i \in 1 .. h : Decode(c).args[i] = Decoded(types[i], Joined(words), words[i])
  BY <1>12, <1>13 DEF DecodedAs
<1>15. Decode(c).args[1] = Elements(keys)
  <2>1. 1 \in 1 .. h
    BY <1>4
  <2>2. \A w : Decoded("bytes32[]", Joined(words), w) = ArrayAt(Joined(words), w)
    BY DEF Decoded
  <2> QED
    BY <1>10, <1>12, <1>14, <2>1, <2>2
<1>16. ASSUME tx # NilId PROVE Decode(c).args[2] = tx
  <2>1. 2 \in 1 .. h /\ types[2] = "bytes16" /\ words[2] = ByteArrayToHex(tx)
    BY <1>4, <1>5, <1>9, <1>12, <1>16
  <2>2. Decoded("bytes16", Joined(words), words[2]) = SubSeq(words[2], 1, WordSize \div 2)
    BY DEF Decoded
  <2>3. SubSeq(words[2], 1, WordSize \div 2) = tx
    BY <2>1, TxIs
  <2> QED
    BY <1>14, <2>1, <2>2, <2>3
<1> QED
  BY <1>1, <1>2, <1>4, <1>14, <1>15, <1>16

\* The words of a commit, whatever the number of its tables.
LEMMA CommitWords ==
  ASSUME NEW tables \in Seq(Datum), NEW tx \in Tx
  PROVE  LET words == AtomicCommitData(tx, tables)
         IN  /\ words \in Seq(Word) /\ Len(words) = 3 + Len(tables)
             /\ words[1] = ByteArrayToHex(tx) /\ words[2] = NumericToHex(WordSize * 2)
             /\ words[3] = SizeToHex(Len(tables))
             /\ \A i \in 1 .. Len(tables) : words[3 + i] = AddressToHex(tables[i])
<1>1. PICK n \in Nat : n = Len(tables) /\ DOMAIN tables = 1 .. n
  OBVIOUS
<1>2. PICK x \in Word : x = ByteArrayToHex(tx)
  BY TxIs
<1>3. PICK o \in Word : o = NumericToHex(WordSize * 2) /\ 2 * WordSize = WordSize * 2
  <2>1. WordSize * 2 \in Nat /\ 2 * WordSize = WordSize * 2
    BY Sizes
  <2> QED
    BY <2>1, NumberWord
<1>4. PICK z \in Word : z = SizeToHex(n)
  BY SizeWord
<1>5. PICK h \in Seq(Word) : h = <<x, o, z>> /\ Len(h) = 3 /\ h[1] = x /\ h[2] = o /\ h[3] = z
  <2>1. /\ <<x, o, z>> \in Seq(Word) /\ Len(<<x, o, z>>) = 3
        /\ <<x, o, z>>[1] = x /\ <<x, o, z>>[2] = o /\ <<x, o, z>>[3] = z
    BY Triples
  <2> QED
    BY <2>1
<1>6. PICK a : a = [i \in 1 .. n |-> AddressToHex(tables[i])]
  OBVIOUS
<1>7. a \in Seq(Word) /\ Len(a) = n /\ \A i \in 1 .. n : a[i] = AddressToHex(tables[i])
  <2>1. \A i \in 1 .. n : tables[i] \in Datum
    BY <1>1
  <2>2. \A i \in 1 .. n : AddressToHex(tables[i]) \in Word
    BY <2>1, AddressWord DEF Datum
  <2> QED
    BY <1>6, <2>2
<1>8. PICK w : w = h \o a
  OBVIOUS
<1>9. /\ w \in Seq(Word) /\ Len(w) = Len(h) + Len(a)
      /\ \A i \in 1 .. Len(h) : w[i] = h[i]
      /\ \A i \in 1 .. Len(a) : w[Len(h) + i] = a[i]
  <2>1. h \in Seq(Word) /\ a \in Seq(Word)
    BY <1>5, <1>7
  <2>2. /\ h \o a \in Seq(Word) /\ Len(h \o a) = Len(h) + Len(a)
        /\ \A i \in 1 .. Len(h) : (h \o a)[i] = h[i]
        /\ \A i \in 1 .. Len(a) : (h \o a)[Len(h) + i] = a[i]
    BY <2>1, Concat
  <2> QED
    BY <1>8, <2>2
<1>10. w = AtomicCommitData(tx, tables)
  BY <1>1, <1>2, <1>3, <1>4, <1>5, <1>6, <1>8 DEF AtomicCommitData
<1>11. 1 \in 1 .. Len(h) /\ 2 \in 1 .. Len(h) /\ 3 \in 1 .. Len(h)
  BY <1>5
<1> QED
  BY <1>1, <1>2, <1>3, <1>4, <1>5, <1>7, <1>9, <1>10, <1>11

\* The contract reads the identifier and the addresses of a commit.
LEMMA DecodeCommit ==
  ASSUME NEW tables \in Seq(Datum), Len(tables) < 10, NEW tx \in Tx
  PROVE  LET got == Decode(Call([function |-> "commitAll", args |-> <<tables>>, tx |-> tx]))
         IN  /\ got.function = "commitAll" /\ Len(got.args) = 2 /\ got.args[1] = tx
             /\ got.args[2] = [i \in 1 .. Len(tables) |-> AddressToHex(tables[i])]
<1>1. PICK r : r = [function |-> "commitAll", args |-> <<tables>>, tx |-> tx]
  OBVIOUS
<1>2. PICK c : c = Call(r)
  OBVIOUS
<1>3. PICK n \in Nat : n = Len(tables) /\ n < 10
  OBVIOUS
<1>4. PICK words : words = AtomicCommitData(tx, tables)
  OBVIOUS
<1>5. /\ words \in Seq(Word) /\ Len(words) = 3 + n
      /\ words[1] = ByteArrayToHex(tx) /\ words[2] = NumericToHex(WordSize * 2)
      /\ words[3] = NumericToHex(n)
      /\ \A i \in 1 .. n : words[3 + i] = AddressToHex(tables[i])
  <2>1. SizeToHex(n) = NumericToHex(n)
    BY <1>3, SizeWord
  <2> QED
    BY <1>3, <1>4, <2>1, CommitWords
<1>6. c.function = "commitAll" /\ c.hasTx = (tx # NilId) /\ c.data = Joined(words)
  <2>1. Words(r) = words
    BY <1>1, <1>4 DEF Words
  <2> QED
    BY <1>1, <1>2, <2>1 DEF Call, Data
<1>7. /\ ArrayFits(Joined(words), words[2])
      /\ ArrayAt(Joined(words), words[2]) = [i \in 1 .. n |-> AddressToHex(tables[i])]
  <2>1. FitsWord(WordSize * 2) /\ FitsWord(n)
    <3>1. 2 <= 4 + MaxBatch
      BY Sizes
    <3>2. n < 256
      BY <1>3
    <3> QED
      BY <1>3, <3>1, <3>2, OffsetFits, SmallFits
  <2>2. 2 + 1 + n <= Len(words) /\ words[2 + 1] = NumericToHex(n)
    <3>1. 2 + 1 = 3
      OBVIOUS
    <3> QED
      BY <1>3, <1>5, <3>1
  <2>3. /\ ArrayFits(Joined(words), NumericToHex(WordSize * 2))
        /\ ArrayAt(Joined(words), NumericToHex(WordSize * 2)) = [i \in 1 .. n |-> words[2 + 1 + i]]
    BY <1>3, <1>5, <2>1, <2>2, ArrayIs
  <2>4. \A i \in 1 .. n : words[2 + 1 + i] = AddressToHex(tables[i])
    <3>1. \A i \in 1 .. n : 2 + 1 + i = 3 + i
      OBVIOUS
    <3> QED
      BY <1>5, <3>1
  <2>5. [i \in 1 .. n |-> words[2 + 1 + i]] = [i \in 1 .. n |-> AddressToHex(tables[i])]
    BY <2>4, Zenon
  <2> QED
    BY <1>5, <2>3, <2>5
<1>8. PICK types : /\ types = Parameters(c.function, c.hasTx)
                   /\ types = <<"bytes16", "address[]">>
  BY <1>6 DEF Parameters
<1>9. DOMAIN types = 1 .. 2 /\ Len(types) = 2 /\ types[1] = "bytes16" /\ types[2] = "address[]"
  <2>1. "bytes16" \in Types /\ "address[]" \in Types
    BY DEF Types
  <2>2. types \in Seq(Types) /\ Len(types) = 2 /\ types[1] = "bytes16" /\ types[2] = "address[]"
    BY <1>8, <2>1, Tuples
  <2> QED
    BY <2>2
<1>10. DecodedAs(Decode(c), "commitAll", types, words)
  <2>1. \A i \in DOMAIN types : IsArray(types[i]) => ArrayFits(Joined(words), words[i])
    <3>1. ~IsArray("bytes16")
      BY DEF IsArray
    <3>2. DOMAIN types = {1, 2}
      BY <1>9
    <3> QED
      BY <1>7, <1>9, <3>1, <3>2
  <2>2. \E l \in Nat : DOMAIN types = 1 .. l /\ Len(types) = l /\ l <= Len(words)
    BY <1>3, <1>5, <1>9
  <2> QED
    BY <1>5, <1>6, <1>8, <2>1, <2>2, DecodeIs
<1>11. /\ Decode(c).function = "commitAll" /\ Len(Decode(c).args) = 2
       /\ Decode(c).args[1] = Decoded("bytes16", Joined(words), words[1])
       /\ Decode(c).args[2] = Decoded("address[]", Joined(words), words[2])
  <2>1. 1 \in DOMAIN types /\ 2 \in DOMAIN types
    BY <1>9
  <2> QED
    BY <1>9, <1>10, <2>1 DEF DecodedAs
<1>12. Decode(c).args[1] = tx
  <2>1. Decoded("bytes16", Joined(words), words[1]) = SubSeq(words[1], 1, WordSize \div 2)
    BY DEF Decoded
  <2> QED
    BY <1>5, <1>11, <2>1, TxIs
<1>13. Decode(c).args[2] = [i \in 1 .. n |-> AddressToHex(tables[i])]
  <2>1. Decoded("address[]", Joined(words), words[2]) = ArrayAt(Joined(words), words[2])
    BY DEF Decoded
  <2> QED
    BY <1>7, <1>11, <2>1
<1> QED
  BY <1>1, <1>2, <1>3, <1>11, <1>12, <1>13

-----------------------------------------------------------------------------
(***************************************************************************)
(* Rows.                                                                   *)
(***************************************************************************)
LEMMA RecordIs ==
  ASSUME NEW w \in Record
  PROVE  /\ w \in Seq(Byte) /\ Len(w) = RecordSize
         /\ ExtractKey(w) \in Seq(Byte) /\ Len(ExtractKey(w)) = KeySize
         /\ \A i \in 1 .. KeySize : ExtractKey(w)[i] = w[NullBytes + i]
         /\ ExtractValue(w) \in Seq(Byte) /\ Len(ExtractValue(w)) = ValueSize
         /\ \A i \in 1 .. ValueSize : ExtractValue(w)[i] = w[NullBytes + KeySize + i]
<1>1. w \in Seq(Byte) /\ Len(w) = RecordSize
  BY RecordAssumption, Sizes
<1>2. PICK k \in Nat : k = NullBytes + KeySize /\ NullBytes <= k /\ k - NullBytes = KeySize
                       /\ k <= RecordSize /\ RecordSize - k = ValueSize
  BY Sizes
<1>3. /\ SubSeq(w, NullBytes + 1, k) \in Seq(Byte) /\ Len(SubSeq(w, NullBytes + 1, k)) = k - NullBytes
      /\ \A i \in 1 .. k - NullBytes : SubSeq(w, NullBytes + 1, k)[i] = w[NullBytes + i]
  <2>1. NullBytes \in Nat /\ k <= Len(w)
    BY <1>1, <1>2, Sizes
  <2> QED
    BY <1>1, <1>2, <2>1, Slice, SMTT(20)
<1>4. /\ SubSeq(w, k + 1, RecordSize) \in Seq(Byte) /\ Len(SubSeq(w, k + 1, RecordSize)) = RecordSize - k
      /\ \A i \in 1 .. RecordSize - k : SubSeq(w, k + 1, RecordSize)[i] = w[k + i]
  <2>1. RecordSize \in Nat /\ RecordSize <= Len(w)
    BY <1>1, Sizes
  <2> QED
    BY <1>1, <1>2, <2>1, Slice, SMTT(20)
<1>5. ExtractKey(w) = SubSeq(w, NullBytes + 1, k) /\ ExtractValue(w) = SubSeq(w, k + 1, RecordSize)
  BY <1>2 DEF ExtractKey, ExtractValue
<1> QED
  BY <1>1, <1>2, <1>3, <1>4, <1>5

\* The row that the handler makes of the key and the value of a row.
Shown(w) == FindRow(ExtractKey(w) \o ExtractValue(w))

\* find_row puts cleared NULL flags before the tuple.
LEMMA FindRowIs ==
  ASSUME NEW tuple \in Seq(Byte), Len(tuple) = KeySize + ValueSize
  PROVE  /\ FindRow(tuple) \in Seq(Byte) /\ Len(FindRow(tuple)) = RecordSize
         /\ \A i \in 1 .. NullBytes : FindRow(tuple)[i] = 0
         /\ \A i \in 1 .. KeySize + ValueSize : FindRow(tuple)[NullBytes + i] = tuple[i]
<1>1. PICK z \in Seq(Byte) : /\ z = Zeros(NullBytes) /\ Len(z) = NullBytes
                             /\ \A i \in 1 .. NullBytes : z[i] = 0
  <2>1. NullBytes \in Int /\ NullBytes >= 0
    BY Sizes
  <2> QED
    BY <2>1, ZerosAre
<1>2. PICK t \in Seq(Byte) : t = tuple
  OBVIOUS
<1>3. /\ z \o t \in Seq(Byte) /\ Len(z \o t) = Len(z) + Len(t)
      /\ \A i \in 1 .. Len(z) : (z \o t)[i] = z[i]
      /\ \A i \in 1 .. Len(t) : (z \o t)[Len(z) + i] = t[i]
  BY Concat
<1>4. FindRow(tuple) = z \o t
  BY <1>1, <1>2 DEF FindRow
<1>5. NullBytes + (KeySize + ValueSize) = RecordSize
  BY Sizes
<1> QED
  BY <1>1, <1>2, <1>3, <1>4, <1>5

\* A row that is shown has the size of a row.
LEMMA ShownIs ==
  ASSUME NEW w \in Record
  PROVE  /\ ExtractKey(w) \o ExtractValue(w) \in Seq(Byte)
         /\ Len(ExtractKey(w) \o ExtractValue(w)) = KeySize + ValueSize
         /\ Shown(w) \in Seq(Byte) /\ Len(Shown(w)) = RecordSize
<1>1. PICK t : t = ExtractKey(w) \o ExtractValue(w)
  OBVIOUS
<1>2. t \in Seq(Byte) /\ Len(t) = KeySize + ValueSize
  <2>1. PICK k \in Seq(Byte) : k = ExtractKey(w) /\ Len(k) = KeySize
    BY RecordIs
  <2>2. PICK v \in Seq(Byte) : v = ExtractValue(w) /\ Len(v) = ValueSize
    BY RecordIs
  <2>3. k \o v \in Seq(Byte) /\ Len(k \o v) = Len(k) + Len(v)
    BY Concat
  <2> QED
    BY <1>1, <2>1, <2>2, <2>3
<1>3. FindRow(t) \in Seq(Byte) /\ Len(FindRow(t)) = RecordSize
  BY <1>2, FindRowIs
<1> QED
  BY <1>1, <1>2, <1>3 DEF Shown

\* The rows of a table without NULL values.
FlagsClear == \A r \in Record : \A i \in 1 .. NullBytes : r[i] = 0

\* It is the row that was written, byte by byte.
LEMMA ShownRow ==
  ASSUME NEW w \in Record, FlagsClear
  PROVE  Shown(w) = w
<1>1. PICK t \in Seq(Byte) :
        /\ t = ExtractKey(w) \o ExtractValue(w) /\ Len(t) = KeySize + ValueSize
        /\ \A i \in 1 .. KeySize : t[i] = ExtractKey(w)[i]
        /\ \A i \in 1 .. ValueSize : t[KeySize + i] = ExtractValue(w)[i]
  <2>1. PICK k \in Seq(Byte) : k = ExtractKey(w) /\ Len(k) = KeySize
    BY RecordIs
  <2>2. PICK v \in Seq(Byte) : v = ExtractValue(w) /\ Len(v) = ValueSize
    BY RecordIs
  <2>3. /\ k \o v \in Seq(Byte) /\ Len(k \o v) = Len(k) + Len(v)
        /\ \A i \in 1 .. Len(k) : (k \o v)[i] = k[i]
        /\ \A i \in 1 .. Len(v) : (k \o v)[Len(k) + i] = v[i]
    BY <2>1, <2>2, Concat
  <2> QED
    BY <2>1, <2>2, <2>3
<1>2. PICK s \in Seq(Byte) :
        /\ s = Shown(w) /\ Len(s) = RecordSize
        /\ \A i \in 1 .. NullBytes : s[i] = 0
        /\ \A i \in 1 .. KeySize + ValueSize : s[NullBytes + i] = t[i]
  <2>1. /\ FindRow(t) \in Seq(Byte) /\ Len(FindRow(t)) = RecordSize
        /\ \A i \in 1 .. NullBytes : FindRow(t)[i] = 0
        /\ \A i \in 1 .. KeySize + ValueSize : FindRow(t)[NullBytes + i] = t[i]
    BY <1>1, FindRowIs
  <2> QED
    BY <1>1, <2>1 DEF Shown
<1>3. w \in Seq(Byte) /\ Len(w) = RecordSize
  BY RecordIs
<1>4. ASSUME NEW j \in 1 .. RecordSize PROVE s[j] = w[j]
  <2>1. CASE j <= NullBytes
    <3>1. j \in 1 .. NullBytes
      BY <2>1, Sizes
    <3> QED
      BY <1>2, <3>1 DEF FlagsClear
  <2>2. CASE NullBytes < j /\ j <= NullBytes + KeySize
    <3>1. PICK i \in 1 .. KeySize : j = NullBytes + i
      <4>1. j - NullBytes \in 1 .. KeySize /\ j = NullBytes + (j - NullBytes)
        BY <2>2, Sizes
      <4> QED
        BY <4>1
    <3>2. i \in 1 .. KeySize + ValueSize
      BY Sizes
    <3>3. ExtractKey(w)[i] = w[NullBytes + i]
      BY RecordIs
    <3> QED
      BY <1>1, <1>2, <3>1, <3>2, <3>3
  <2>3. CASE NullBytes + KeySize < j
    <3>1. PICK i \in 1 .. ValueSize : j = NullBytes + KeySize + i
      <4>1. j - (NullBytes + KeySize) \in 1 .. ValueSize
            /\ j = NullBytes + KeySize + (j - (NullBytes + KeySize))
        BY <2>3, Sizes
      <4> QED
        BY <4>1
    <3>2. KeySize + i \in 1 .. KeySize + ValueSize /\ NullBytes + (KeySize + i) = j
      BY <3>1, Sizes
    <3>3. ExtractValue(w)[i] = w[NullBytes + KeySize + i]
      BY RecordIs
    <3>4. s[NullBytes + (KeySize + i)] = t[KeySize + i]
      BY <1>2, <3>2
    <3> QED
      BY <1>1, <3>1, <3>2, <3>3, <3>4
  <2> QED
    BY <2>1, <2>2, <2>3, Sizes
<1> QED
  BY <1>2, <1>3, <1>4, Sizes

-----------------------------------------------------------------------------
(***************************************************************************)
(* The store of the contract mirrors the rows.                             *)
(***************************************************************************)
KeyWord(w)   == ByteArrayToHex(ExtractKey(w))
ValueWord(w) == ByteArrayToHex(ExtractValue(w))

\* The engine's rows have different keys; the contract holds the words of
\* each key with the words of its value.
Mirror(store, rows) ==
  /\ rows \subseteq Record
  /\ rows # {} => KeySize <= WordSize /\ ValueSize <= WordSize
  /\ \A v, w \in rows : ExtractKey(v) = ExtractKey(w) => v = w
  /\ DOMAIN store = {KeyWord(w) : w \in rows}
  /\ \A w \in rows : store[KeyWord(w)] = ValueWord(w)

\* Different keys have different words.
LEMMA KeysApart ==
  ASSUME KeySize <= WordSize, NEW v \in Record, NEW w \in Record
  PROVE  KeyWord(v) = KeyWord(w) <=> ExtractKey(v) = ExtractKey(w)
BY RecordIs, PaddedApart DEF KeyWord

\* Key and value come out of their words as they went in.
LEMMA RecordWords ==
  ASSUME NEW w \in Record
  PROVE  /\ KeySize <= WordSize => ExtractKey(w) \in Datum /\ KeyWord(w) \in Word
                                   /\ SubSeq(KeyWord(w), 1, KeySize) = ExtractKey(w)
         /\ ValueSize <= WordSize => ExtractValue(w) \in Datum /\ ValueWord(w) \in Word
                                     /\ SubSeq(ValueWord(w), 1, ValueSize) = ExtractValue(w)
BY RecordIs, Padded DEF KeyWord, ValueWord, Datum

\* The last of the places in a batch where something is.
LEMMA LastPlace ==
  ASSUME NEW n \in Nat, NEW S \in SUBSET (1 .. n), S # {}
  PROVE  \E i \in S : \A j \in S : j <= i
<1>1. \A i \in S : i \in Nat /\ n - i \in Nat
  OBVIOUS
<1>2. PICK m \in {n - i : i \in S} : \A l \in {n - i : i \in S} : m <= l
  <2>1. {n - i : i \in S} \subseteq Nat /\ {n - i : i \in S} # {}
    BY <1>1
  <2> QED
    BY <2>1, Least
<1>3. PICK i \in S : m = n - i
  BY <1>2
<1>4. \A j \in S : n - i <= n - j
  BY <1>2, <1>3
<1>5. ASSUME NEW j \in S PROVE j <= i
  <2>1. i \in Nat /\ j \in Nat /\ n - i <= n - j
    BY <1>1, <1>4
  <2> QED
    BY <2>1
<1> QED
  BY <1>5

\* A put of a sequence of rows.  Of several rows with one key the last stays.
Latest(records) ==
  {records[i] : i \in {j \in DOMAIN records :
                  \A l \in DOMAIN records :
                    ExtractKey(records[l]) = ExtractKey(records[j]) => l <= j}}

\* The store and the rows stay alike.
LEMMA MirrorPuts ==
  ASSUME NEW store, NEW rows, Mirror(store, rows), KeySize <= WordSize, ValueSize <= WordSize,
         NEW n \in Nat, NEW records \in [1 .. n -> Record], NEW keys, NEW values,
         DOMAIN keys = 1 .. n,
         \A i \in 1 .. n : keys[i] = KeyWord(records[i]) /\ values[i] = ValueWord(records[i])
  PROVE  Mirror(StorePuts(store, keys, values),
                {w \in rows : ExtractKey(w) \notin {ExtractKey(records[i]) : i \in 1 .. n}}
                  \cup Latest(records))
<1> DEFINE last(k) == CHOOSE i \in DOMAIN keys :
                        keys[i] = k /\ \A j \in DOMAIN keys : keys[j] = k => j <= i
           New == Latest(records)
           Old == {w \in rows : ExtractKey(w) \notin {ExtractKey(records[i]) : i \in 1 .. n}}
<1>1. rows \subseteq Record
  BY DEF Mirror
<1>2. \A i, j \in 1 .. n : keys[i] = keys[j] <=> ExtractKey(records[i]) = ExtractKey(records[j])
  BY KeysApart
<1>3. DOMAIN records = 1 .. n
  OBVIOUS
<1>4. ASSUME NEW k \in ToSet(keys)
      PROVE  /\ last(k) \in 1 .. n /\ keys[last(k)] = k
             /\ \A j \in 1 .. n : keys[j] = k => j <= last(k)
  <2> DEFINE S == {i \in 1 .. n : keys[i] = k}
  <2>1. S # {}
    BY DEF ToSet
  <2>2. PICK i \in S : \A j \in S : j <= i
    BY <2>1, LastPlace
  <2>3. i \in DOMAIN keys /\ keys[i] = k /\ \A j \in DOMAIN keys : keys[j] = k => j <= i
    BY <2>2
  <2>4. /\ last(k) \in DOMAIN keys /\ keys[last(k)] = k
        /\ \A j \in DOMAIN keys : keys[j] = k => j <= last(k)
    BY <2>3
  <2> QED
    BY <2>4
<1>5. PICK final : \A k \in ToSet(keys) :
        /\ final[k] = last(k) /\ final[k] \in 1 .. n /\ keys[final[k]] = k
        /\ \A j \in 1 .. n : keys[j] = k => j <= final[k]
  <2> DEFINE f == [k \in ToSet(keys) |-> last(k)]
  <2>1. \A k \in ToSet(keys) : f[k] = last(k)
    BY Zenon
  <2> HIDE DEF f, last
  <2> QED
    BY <1>4, <2>1
<1>6. PICK s : /\ s = StorePuts(store, keys, values)
               /\ DOMAIN s = DOMAIN store \cup ToSet(keys)
               /\ \A k \in ToSet(keys) : s[k] = values[final[k]]
               /\ \A k \in DOMAIN store \ ToSet(keys) : s[k] = store[k]
  <2> DEFINE f == [k \in DOMAIN store \cup ToSet(keys) |->
                     IF k \in ToSet(keys) THEN values[last(k)] ELSE store[k]]
  <2>1. StorePuts(store, keys, values) = f
    BY Zenon DEF StorePuts
  <2>2. /\ DOMAIN f = DOMAIN store \cup ToSet(keys)
        /\ \A k \in ToSet(keys) : f[k] = values[last(k)]
        /\ \A k \in DOMAIN store \ ToSet(keys) : f[k] = store[k]
    BY Zenon
  <2> HIDE DEF f, last
  <2>3. \A k \in ToSet(keys) : f[k] = values[final[k]]
    BY <1>5, <2>2
  <2> QED
    BY <2>1, <2>2, <2>3, Zenon
<1> HIDE DEF last
<1>7. New \subseteq Record /\ \A w \in New : \E i \in 1 .. n :
        w = records[i] /\ \A l \in 1 .. n : ExtractKey(records[l]) = ExtractKey(records[i]) => l <= i
  BY <1>3 DEF Latest
<1>8. ToSet(keys) = {KeyWord(w) : w \in New}
  <2>1. ASSUME NEW k \in ToSet(keys) PROVE \E w \in New : k = KeyWord(w)
    <3>1. PICK i \in 1 .. n : /\ i = final[k] /\ keys[i] = k
                              /\ \A j \in 1 .. n : keys[j] = k => j <= i
      BY <1>5
    <3>2. \A l \in DOMAIN records : ExtractKey(records[l]) = ExtractKey(records[i]) => l <= i
      BY <1>2, <1>3, <3>1
    <3>3. records[i] \in New
      BY <1>3, <3>2 DEF Latest
    <3> QED
      BY <3>1, <3>3
  <2>2. ASSUME NEW w \in New PROVE KeyWord(w) \in ToSet(keys)
    BY <1>7 DEF ToSet
  <2> HIDE DEF New
  <2> QED
    BY <2>1, <2>2
<1>9. ASSUME NEW w \in New PROVE s[KeyWord(w)] = ValueWord(w)
  <2>1. PICK i \in 1 .. n :
          w = records[i] /\ \A l \in 1 .. n : ExtractKey(records[l]) = ExtractKey(records[i]) => l <= i
    BY <1>7
  <2>2. PICK k \in ToSet(keys) : k = KeyWord(w) /\ keys[i] = k
    BY <2>1 DEF ToSet
  <2>3. final[k] \in 1 .. n /\ keys[final[k]] = k /\ i <= final[k]
    BY <1>5, <2>2
  <2>4. final[k] <= i
    BY <1>2, <2>1, <2>2, <2>3
  <2>5. final[k] = i
    BY <2>3, <2>4
  <2> QED
    BY <1>6, <2>1, <2>2, <2>5
<1>10. \A w \in rows : w \in Old <=> KeyWord(w) \notin ToSet(keys)
  <2>1. ASSUME NEW w \in rows
        PROVE  KeyWord(w) \in ToSet(keys) <=> \E i \in 1 .. n : ExtractKey(w) = ExtractKey(records[i])
    <3>1. KeyWord(w) \in ToSet(keys) <=> \E i \in 1 .. n : keys[i] = KeyWord(w)
      BY DEF ToSet
    <3>2. \A i \in 1 .. n : keys[i] = KeyWord(w) <=> ExtractKey(w) = ExtractKey(records[i])
      BY <1>1, KeysApart
    <3> QED
      BY <3>1, <3>2
  <2> QED
    BY <2>1
<1>11. DOMAIN s = {KeyWord(w) : w \in Old \cup New}
  <2>1. \A k \in DOMAIN store : \E w \in rows : k = KeyWord(w)
    BY DEF Mirror
  <2>2. \A w \in rows : KeyWord(w) \in DOMAIN store
    BY DEF Mirror
  <2>3. Old \subseteq rows
    OBVIOUS
  <2> HIDE DEF Old, New
  <2> QED
    BY <1>6, <1>8, <1>10, <2>1, <2>2, <2>3
<1>12. ASSUME NEW w \in Old PROVE s[KeyWord(w)] = ValueWord(w)
  <2>1. w \in rows /\ KeyWord(w) \notin ToSet(keys)
    BY <1>10
  <2>2. KeyWord(w) \in DOMAIN store /\ store[KeyWord(w)] = ValueWord(w)
    BY <2>1 DEF Mirror
  <2> QED
    BY <1>6, <2>1, <2>2
<1>13. ASSUME NEW v \in Old \cup New, NEW w \in Old \cup New, ExtractKey(v) = ExtractKey(w)
       PROVE  v = w
  <2>1. CASE v \in Old /\ w \in Old
    BY <1>13, <2>1 DEF Mirror
  <2>2. CASE v \in New /\ w \in New
    <3>1. PICK i \in 1 .. n :
            v = records[i] /\ \A l \in 1 .. n : ExtractKey(records[l]) = ExtractKey(records[i]) => l <= i
      BY <1>7, <2>2
    <3>2. PICK j \in 1 .. n :
            w = records[j] /\ \A l \in 1 .. n : ExtractKey(records[l]) = ExtractKey(records[j]) => l <= j
      BY <1>7, <2>2
    <3>3. i <= j /\ j <= i
      BY <1>13, <3>1, <3>2
    <3>4. i = j
      BY <3>3
    <3> QED
      BY <3>1, <3>2, <3>4
  <2>3. ASSUME NEW o \in Old, NEW m \in New PROVE ExtractKey(o) # ExtractKey(m)
    <3>1. PICK i \in 1 .. n : m = records[i]
      BY <1>7
    <3> QED
      BY <3>1
  <2> HIDE DEF Old, New
  <2> QED
    BY <1>13, <2>1, <2>2, <2>3
<1>14. Old \cup New \subseteq Record
  BY <1>1, <1>7
<1> HIDE DEF Old, New
<1>15. Mirror(s, Old \cup New)
  <2>1. \A w \in Old \cup New : s[KeyWord(w)] = ValueWord(w)
    BY <1>9, <1>12
  <2> QED
    BY <1>11, <1>13, <1>14, <2>1 DEF Mirror
<1> QED
  BY <1>6, <1>15 DEF Old, New

\* So they do when keys are removed.
LEMMA MirrorWithout ==
  ASSUME NEW store, NEW rows, Mirror(store, rows), KeySize <= WordSize,
         NEW n \in Nat, NEW records \in [1 .. n -> Record], NEW keys,
         DOMAIN keys = 1 .. n, \A i \in 1 .. n : keys[i] = KeyWord(records[i])
  PROVE  Mirror(StoreWithout(store, keys),
                {w \in rows : ExtractKey(w) \notin {ExtractKey(records[i]) : i \in 1 .. n}})
<1> DEFINE Old == {w \in rows : ExtractKey(w) \notin {ExtractKey(records[i]) : i \in 1 .. n}}
<1>1. rows \subseteq Record
  BY DEF Mirror
<1>2. PICK s : /\ s = StoreWithout(store, keys) /\ DOMAIN s = DOMAIN store \ ToSet(keys)
               /\ \A k \in DOMAIN store \ ToSet(keys) : s[k] = store[k]
  <2> DEFINE f == [k \in DOMAIN store \ ToSet(keys) |-> store[k]]
  <2>1. StoreWithout(store, keys) = f
    BY Zenon DEF StoreWithout
  <2>2. DOMAIN f = DOMAIN store \ ToSet(keys) /\ \A k \in DOMAIN store \ ToSet(keys) : f[k] = store[k]
    BY Zenon
  <2> HIDE DEF f
  <2> QED
    BY <2>1, <2>2, Zenon
<1>3. \A w \in rows : w \in Old <=> KeyWord(w) \notin ToSet(keys)
  <2>1. ASSUME NEW w \in rows
        PROVE  KeyWord(w) \in ToSet(keys) <=> \E i \in 1 .. n : ExtractKey(w) = ExtractKey(records[i])
    <3>1. KeyWord(w) \in ToSet(keys) <=> \E i \in 1 .. n : keys[i] = KeyWord(w)
      BY DEF ToSet
    <3>2. \A i \in 1 .. n : keys[i] = KeyWord(w) <=> ExtractKey(w) = ExtractKey(records[i])
      BY <1>1, KeysApart
    <3> QED
      BY <3>1, <3>2
  <2> QED
    BY <2>1
<1>4. Old \subseteq rows
  OBVIOUS
<1> HIDE DEF Old
<1>5. DOMAIN s = {KeyWord(w) : w \in Old}
  <2>1. \A k \in DOMAIN store : \E w \in rows : k = KeyWord(w)
    BY DEF Mirror
  <2>2. \A w \in rows : KeyWord(w) \in DOMAIN store
    BY DEF Mirror
  <2> QED
    BY <1>2, <1>3, <1>4, <2>1, <2>2
<1>6. ASSUME NEW w \in Old PROVE s[KeyWord(w)] = ValueWord(w)
  <2>1. w \in rows /\ KeyWord(w) \notin ToSet(keys)
    BY <1>3, <1>4
  <2>2. KeyWord(w) \in DOMAIN store /\ store[KeyWord(w)] = ValueWord(w)
    BY <2>1 DEF Mirror
  <2> QED
    BY <1>2, <2>1, <2>2
<1>7. Mirror(s, Old)
  BY <1>4, <1>5, <1>6 DEF Mirror
<1> QED
  BY <1>2, <1>7 DEF Old

-----------------------------------------------------------------------------
(***************************************************************************)
(* What the calls of the handler do to the store, when they fit.           *)
(***************************************************************************)
PutRequest(w, tx) ==
  [function |-> "put", args |-> <<ExtractKey(w), ExtractValue(w)>>, tx |-> tx]
RemoveRequest(w, tx) == [function |-> "remove", args |-> <<ExtractKey(w)>>, tx |-> tx]
PutBatchRequest(b, tx) ==
  [function |-> "putBatch", args |-> <<Keys(b), Values(b)>>, tx |-> tx]
RemoveBatchRequest(b, tx) == [function |-> "removeBatch", args |-> <<Keys(b)>>, tx |-> tx]
CleanRequest(tx)          == [function |-> "clean", args |-> <<>>, tx |-> tx]
CommitRequest(tables, tx) == [function |-> "commitAll", args |-> <<tables>>, tx |-> tx]
GetRequest(w)             == [function |-> "get", args |-> <<ExtractKey(w)>>, tx |-> NilId]
ScanRequest               == [function |-> "tableScan", args |-> <<>>, tx |-> NilId]

\* A row that byte_array_to_hex accepts has a key and a value of a word.
LEMMA PutArgs ==
  ASSUME NEW w \in Record, NEW tx \in Tx, Fits(PutRequest(w, tx))
  PROVE  /\ KeySize <= WordSize /\ ValueSize <= WordSize
         /\ <<ExtractKey(w), ExtractValue(w)>> \in Seq(Datum)
<1>1. PICK k \in Seq(Byte) : k = ExtractKey(w) /\ Len(k) = KeySize
  BY RecordIs
<1>2. PICK v \in Seq(Byte) : v = ExtractValue(w) /\ Len(v) = ValueSize
  BY RecordIs
<1>3. Len(<<k, v>>) = 2 /\ <<k, v>>[1] = k /\ <<k, v>>[2] = v /\ DOMAIN <<k, v>> = 1 .. 2
  OBVIOUS
<1>4. \A i \in DOMAIN <<k, v>> : Len(<<k, v>>[i]) <= WordSize
  BY <1>1, <1>2 DEF Fits, PutRequest
<1>5. Len(k) <= WordSize /\ Len(v) <= WordSize
  BY <1>3, <1>4
<1>6. k \in Datum /\ v \in Datum
  BY <1>5 DEF Datum
<1> QED
  BY <1>1, <1>2, <1>5, <1>6, Tuples

\* A key that byte_array_to_hex accepts has a word.
LEMMA KeyArgs ==
  ASSUME NEW w \in Record, NEW function \in {"remove", "get"}, NEW tx,
         Fits([function |-> function, args |-> <<ExtractKey(w)>>, tx |-> tx])
  PROVE  KeySize <= WordSize /\ <<ExtractKey(w)>> \in Seq(Datum)
<1>1. PICK k \in Seq(Byte) : k = ExtractKey(w) /\ Len(k) = KeySize
  BY RecordIs
<1>2. <<k>>[1] = k /\ DOMAIN <<k>> = 1 .. 1
  OBVIOUS
<1>3. \A i \in DOMAIN <<k>> : Len(<<k>>[i]) <= WordSize
  BY <1>1 DEF Fits
<1>4. Len(k) <= WordSize
  BY <1>2, <1>3
<1>5. k \in Datum
  BY <1>4 DEF Datum
<1> QED
  BY <1>1, <1>4, <1>5, Tuples

\* The keys and the values of a batch, one of each per row.
LEMMA BatchIs ==
  ASSUME NEW b \in Batches
  PROVE  /\ \E n \in Nat : n >= 1 /\ n <= MaxBatch /\ b \in [1 .. n -> Record] /\ Len(b) = n
         /\ DOMAIN Keys(b) = 1 .. Len(b) /\ DOMAIN Values(b) = 1 .. Len(b)
         /\ Keys(b) \in Seq(Seq(Byte)) /\ Values(b) \in Seq(Seq(Byte))
         /\ Len(Keys(b)) = Len(b) /\ Len(Values(b)) = Len(b)
         /\ \A i \in 1 .. Len(b) : /\ b[i] \in Record
                                   /\ Keys(b)[i] = ExtractKey(b[i])
                                   /\ Values(b)[i] = ExtractValue(b[i])
<1>1. PICK n \in 1 .. MaxBatch : b \in [1 .. n -> Record]
  BY DEF Batches
<1>2. n \in Nat /\ n >= 1 /\ n <= MaxBatch /\ Len(b) = n /\ DOMAIN b = 1 .. n
  BY <1>1, Sizes
<1>3. Keys(b) = [i \in 1 .. n |-> ExtractKey(b[i])] /\ Values(b) = [i \in 1 .. n |-> ExtractValue(b[i])]
  BY <1>2 DEF Keys, Values
<1>4. \A i \in 1 .. n : /\ b[i] \in Record /\ ExtractKey(b[i]) \in Seq(Byte)
                        /\ ExtractValue(b[i]) \in Seq(Byte)
  BY <1>1, RecordIs
<1> QED
  BY <1>1, <1>2, <1>3, <1>4

\* The words of the keys of a batch.
LEMMA BatchKeys ==
  ASSUME NEW b \in Batches, KeySize <= WordSize
  PROVE  /\ Keys(b) \in Seq(Datum) /\ DOMAIN Elements(Keys(b)) = 1 .. Len(b)
         /\ \A i \in 1 .. Len(b) : Elements(Keys(b))[i] = KeyWord(b[i])
<1>1. PICK n \in Nat : n = Len(b) /\ DOMAIN Keys(b) = 1 .. n /\ Len(Keys(b)) = n
  BY BatchIs
<1>2. \A i \in 1 .. n : b[i] \in Record /\ Keys(b)[i] = ExtractKey(b[i])
  BY <1>1, BatchIs
<1>3. Keys(b) \in Seq(Datum)
  <2>1. \A i \in 1 .. n : Keys(b)[i] \in Datum
    BY <1>2, RecordWords
  <2>2. Keys(b) \in Seq(Seq(Byte))
    BY BatchIs
  <2> QED
    BY <1>1, <2>1, <2>2
<1>4. Elements(Keys(b)) = [i \in 1 .. n |-> ByteArrayToHex(Keys(b)[i])]
  BY <1>1 DEF Elements
<1> QED
  BY <1>1, <1>2, <1>3, <1>4 DEF KeyWord

\* The words of the values of a batch.
LEMMA BatchValues ==
  ASSUME NEW b \in Batches, ValueSize <= WordSize
  PROVE  /\ Values(b) \in Seq(Datum) /\ DOMAIN Elements(Values(b)) = 1 .. Len(b)
         /\ \A i \in 1 .. Len(b) : Elements(Values(b))[i] = ValueWord(b[i])
<1>1. PICK n \in Nat : n = Len(b) /\ DOMAIN Values(b) = 1 .. n /\ Len(Values(b)) = n
  BY BatchIs
<1>2. \A i \in 1 .. n : b[i] \in Record /\ Values(b)[i] = ExtractValue(b[i])
  BY <1>1, BatchIs
<1>3. Values(b) \in Seq(Datum)
  <2>1. \A i \in 1 .. n : Values(b)[i] \in Datum
    BY <1>2, RecordWords
  <2>2. Values(b) \in Seq(Seq(Byte))
    BY BatchIs
  <2> QED
    BY <1>1, <2>1, <2>2
<1>4. Elements(Values(b)) = [i \in 1 .. n |-> ByteArrayToHex(Values(b)[i])]
  BY <1>1 DEF Elements
<1> QED
  BY <1>1, <1>2, <1>3, <1>4 DEF ValueWord

\* A batch that is sent has keys, and values, of a word.
LEMMA BatchFits ==
  ASSUME NEW b \in Batches, NEW tx
  PROVE  /\ Fits(RemoveBatchRequest(b, tx)) => KeySize <= WordSize
         /\ Fits(PutBatchRequest(b, tx)) => KeySize <= WordSize /\ ValueSize <= WordSize
<1>1. /\ 1 \in DOMAIN Keys(b) /\ 1 \in DOMAIN Values(b)
      /\ Len(Keys(b)[1]) = KeySize /\ Len(Values(b)[1]) = ValueSize
  <2>1. 1 \in 1 .. Len(b)
    BY BatchIs
  <2>2. b[1] \in Record /\ Keys(b)[1] = ExtractKey(b[1]) /\ Values(b)[1] = ExtractValue(b[1])
    BY <2>1, BatchIs
  <2> QED
    BY <2>1, <2>2, BatchIs, RecordIs
<1>2. PICK k : k = Keys(b)
  OBVIOUS
<1>3. PICK v : v = Values(b)
  OBVIOUS
<1>4. <<k>>[1] = k /\ 1 \in DOMAIN <<k>>
  OBVIOUS
<1>5. <<k, v>>[1] = k /\ <<k, v>>[2] = v /\ 1 \in DOMAIN <<k, v>> /\ 2 \in DOMAIN <<k, v>>
  OBVIOUS
<1>6. ASSUME Fits(RemoveBatchRequest(b, tx)) PROVE KeySize <= WordSize
  <2>1. \A i \in DOMAIN <<k>> : \A j \in DOMAIN <<k>>[i] : Len(<<k>>[i][j]) <= WordSize
    BY <1>2, <1>6 DEF Fits, RemoveBatchRequest
  <2> QED
    BY <1>1, <1>2, <1>4, <2>1
<1>7. ASSUME Fits(PutBatchRequest(b, tx)) PROVE KeySize <= WordSize /\ ValueSize <= WordSize
  <2>1. \A i \in DOMAIN <<k, v>> : \A j \in DOMAIN <<k, v>>[i] : Len(<<k, v>>[i][j]) <= WordSize
    BY <1>2, <1>3, <1>7 DEF Fits, PutBatchRequest
  <2> QED
    BY <1>1, <1>2, <1>3, <1>5, <2>1
<1> QED
  BY <1>6, <1>7

\* The calls of one key, and of a key and a value.
LEMMA DecodeOne ==
  ASSUME NEW function \in {"remove", "get"}, NEW k, <<k>> \in Seq(Datum), NEW tx \in Tx
  PROVE  LET got == Decode(Call([function |-> function, args |-> <<k>>, tx |-> tx]))
             n == IF tx # NilId THEN 2 ELSE 1
         IN  /\ got.function = function /\ Len(got.args) = n
             /\ got.args[1] = ByteArrayToHex(k)
             /\ tx # NilId => got.args[2] = tx
<1>1. PICK args \in Seq(Datum) : args = <<k>> /\ Len(args) = 1 /\ args[1] = k
  OBVIOUS
<1>2. PICK got : got = Decode(Call([function |-> function, args |-> args, tx |-> tx]))
  OBVIOUS
<1>3. PlainDecoded(got, function, args, tx)
  <2>1. function \in Plain /\ Len(args) = Arity(function)
    BY <1>1 DEF Arity, Plain
  <2> QED
    BY <1>2, <2>1, DecodePlain
<1>4. /\ got.function = function /\ Len(got.args) = IF tx # NilId THEN 1 + 1 ELSE 1
      /\ \A i \in 1 .. 1 : got.args[i] = ByteArrayToHex(args[i])
      /\ tx # NilId => got.args[1 + 1] = tx
  BY <1>1, <1>3 DEF PlainDecoded
<1> QED
  BY <1>1, <1>2, <1>4

LEMMA DecodeTwo ==
  ASSUME NEW k, NEW v, <<k, v>> \in Seq(Datum), NEW tx \in Tx
  PROVE  LET got == Decode(Call([function |-> "put", args |-> <<k, v>>, tx |-> tx]))
             n == IF tx # NilId THEN 3 ELSE 2
         IN  /\ got.function = "put" /\ Len(got.args) = n
             /\ got.args[1] = ByteArrayToHex(k) /\ got.args[2] = ByteArrayToHex(v)
             /\ tx # NilId => got.args[3] = tx
<1>1. PICK args \in Seq(Datum) : args = <<k, v>> /\ Len(args) = 2 /\ args[1] = k /\ args[2] = v
  OBVIOUS
<1>2. PICK got : got = Decode(Call([function |-> "put", args |-> args, tx |-> tx]))
  OBVIOUS
<1>3. PlainDecoded(got, "put", args, tx)
  <2>1. "put" \in Plain /\ Len(args) = Arity("put")
    BY <1>1 DEF Arity, Plain
  <2> QED
    BY <1>2, <2>1, DecodePlain
<1>4. /\ got.function = "put" /\ Len(got.args) = IF tx # NilId THEN 2 + 1 ELSE 2
      /\ \A i \in 1 .. 2 : got.args[i] = ByteArrayToHex(args[i])
      /\ tx # NilId => got.args[2 + 1] = tx
  BY <1>1, <1>3 DEF PlainDecoded
<1>5. got.args[1] = ByteArrayToHex(args[1]) /\ got.args[2] = ByteArrayToHex(args[2])
  BY <1>4
<1>6. 2 + 1 = 3
  OBVIOUS
<1> QED
  BY <1>1, <1>2, <1>4, <1>5, <1>6

\* One row is put.
LEMMA MirrorPut ==
  ASSUME NEW store, NEW rows, Mirror(store, rows), KeySize <= WordSize, ValueSize <= WordSize,
         NEW w \in Record
  PROVE  Mirror(StorePuts(store, <<KeyWord(w)>>, <<ValueWord(w)>>),
                {x \in rows : ExtractKey(x) \notin {ExtractKey(w)}} \cup Latest(<<w>>))
<1>1. PICK keys : keys = <<KeyWord(w)>> /\ DOMAIN keys = 1 .. 1 /\ keys[1] = KeyWord(w)
  <2>1. PICK a : a = KeyWord(w)
    OBVIOUS
  <2>2. DOMAIN <<a>> = 1 .. 1 /\ <<a>>[1] = a
    OBVIOUS
  <2> QED
    BY <2>1, <2>2
<1>2. PICK values : values = <<ValueWord(w)>> /\ values[1] = ValueWord(w)
  <2>1. PICK a : a = ValueWord(w)
    OBVIOUS
  <2>2. <<a>>[1] = a
    OBVIOUS
  <2> QED
    BY <2>1, <2>2
<1>3. PICK records \in [1 .. 1 -> Record] : records = <<w>> /\ records[1] = w
  <2>1. <<w>> \in [1 .. 1 -> Record] /\ <<w>>[1] = w
    <3>1. <<w>> \in Seq(Record) /\ Len(<<w>>) = 1 /\ <<w>>[1] = w
      OBVIOUS
    <3> QED
      BY <3>1
  <2> QED
    BY <2>1
<1>4. PICK n \in Nat : n = 1
  OBVIOUS
<1>5. /\ DOMAIN keys = 1 .. n /\ records \in [1 .. n -> Record]
      /\ \A i \in 1 .. n : keys[i] = KeyWord(records[i]) /\ values[i] = ValueWord(records[i])
  BY <1>1, <1>2, <1>3, <1>4
<1>6. Mirror(StorePuts(store, keys, values),
             {x \in rows : ExtractKey(x) \notin {ExtractKey(records[i]) : i \in 1 .. n}}
               \cup Latest(records))
  BY <1>5, MirrorPuts
<1>7. {ExtractKey(records[i]) : i \in 1 .. n} = {ExtractKey(w)}
  BY <1>3, <1>4
<1> QED
  BY <1>1, <1>2, <1>3, <1>6, <1>7

\* One key is removed.
LEMMA MirrorRemove ==
  ASSUME NEW store, NEW rows, Mirror(store, rows), KeySize <= WordSize, NEW w \in Record
  PROVE  Mirror(StoreWithout(store, <<KeyWord(w)>>),
                {x \in rows : ExtractKey(x) \notin {ExtractKey(w)}})
<1>1. PICK keys : keys = <<KeyWord(w)>> /\ DOMAIN keys = 1 .. 1 /\ keys[1] = KeyWord(w)
  <2>1. PICK a : a = KeyWord(w)
    OBVIOUS
  <2>2. DOMAIN <<a>> = 1 .. 1 /\ <<a>>[1] = a
    OBVIOUS
  <2> QED
    BY <2>1, <2>2
<1>2. PICK records \in [1 .. 1 -> Record] : records[1] = w
  <2>1. [i \in 1 .. 1 |-> w] \in [1 .. 1 -> Record] /\ [i \in 1 .. 1 |-> w][1] = w
    OBVIOUS
  <2> QED
    BY <2>1
<1>3. PICK n \in Nat : n = 1
  OBVIOUS
<1>4. /\ DOMAIN keys = 1 .. n /\ records \in [1 .. n -> Record]
      /\ \A i \in 1 .. n : keys[i] = KeyWord(records[i])
  BY <1>1, <1>2, <1>3
<1>5. Mirror(StoreWithout(store, keys),
             {x \in rows : ExtractKey(x) \notin {ExtractKey(records[i]) : i \in 1 .. n}})
  BY <1>4, MirrorWithout
<1>6. {ExtractKey(records[i]) : i \in 1 .. n} = {ExtractKey(w)}
  BY <1>2, <1>3
<1> QED
  BY <1>1, <1>5, <1>6

\* put, with an identifier (nothing happens yet) and without.
LEMMA PutMirrors ==
  ASSUME NEW w \in Record, NEW tx \in Tx, Fits(PutRequest(w, tx)), Mirror(stored, written)
  PROVE  Mirror(Stored(stored, Decode(Call(PutRequest(w, tx)))), Written(PutRequest(w, tx), <<w>>))
<1>1. PICK r : r = PutRequest(w, tx)
  OBVIOUS
<1>2. PICK k : k = ExtractKey(w)
  OBVIOUS
<1>3. PICK v : v = ExtractValue(w)
  OBVIOUS
<1>4. KeySize <= WordSize /\ ValueSize <= WordSize /\ <<k, v>> \in Seq(Datum)
  BY <1>2, <1>3, PutArgs
<1>5. r = [function |-> "put", args |-> <<k, v>>, tx |-> tx]
  BY <1>1, <1>2, <1>3 DEF PutRequest
<1>6. Len(<<k, v>>) = 2 /\ <<k, v>>[1] = k /\ <<k, v>>[2] = v
  OBVIOUS
<1>7. PICK got : got = Decode(Call(r))
  OBVIOUS
<1>8. /\ got.function = "put" /\ Len(got.args) = (IF tx # NilId THEN 3 ELSE 2)
      /\ got.args[1] = ByteArrayToHex(k) /\ got.args[2] = ByteArrayToHex(v)
  BY <1>4, <1>5, <1>7, DecodeTwo
<1>9. CASE tx # NilId
  <2>1. Stored(stored, got) = stored
    BY <1>8, <1>9 DEF Stored
  <2>2. Written(r, <<w>>) = written
    BY <1>5, <1>9 DEF Written
  <2> QED
    BY <1>1, <1>7, <2>1, <2>2
<1>10. CASE tx = NilId
  <2>1. PICK a : a = KeyWord(w) /\ a = got.args[1]
    BY <1>2, <1>8 DEF KeyWord
  <2>2. PICK b : b = ValueWord(w) /\ b = got.args[2]
    BY <1>3, <1>8 DEF ValueWord
  <2>3. Stored(stored, got) = StorePuts(stored, <<a>>, <<b>>)
    BY <1>8, <1>10, <2>1, <2>2 DEF Stored
  <2>4. Mirror(StorePuts(stored, <<a>>, <<b>>),
               {x \in written : ExtractKey(x) \notin {k}} \cup Latest(<<w>>))
    BY <1>2, <1>4, <2>1, <2>2, MirrorPut
  <2>7. Written(r, <<w>>) = {x \in written : ExtractKey(x) \notin {k}} \cup Latest(<<w>>)
    <3>1. r.function = "put" /\ r.tx = NilId /\ r.args[1] = k
      BY <1>5, <1>6, <1>10
    <3> QED
      BY <3>1 DEF Written, Latest
  <2> QED
    BY <1>1, <1>7, <2>3, <2>4, <2>7
<1> QED
  BY <1>9, <1>10

\* remove.
LEMMA RemoveMirrors ==
  ASSUME NEW w \in Record, NEW tx \in Tx, Fits(RemoveRequest(w, tx)), Mirror(stored, written)
  PROVE  Mirror(Stored(stored, Decode(Call(RemoveRequest(w, tx)))), Written(RemoveRequest(w, tx), <<>>))
<1>1. PICK r : r = RemoveRequest(w, tx)
  OBVIOUS
<1>2. PICK k : k = ExtractKey(w)
  OBVIOUS
<1>5. r = [function |-> "remove", args |-> <<k>>, tx |-> tx]
  BY <1>1, <1>2 DEF RemoveRequest
<1>4. KeySize <= WordSize /\ <<k>> \in Seq(Datum)
  BY <1>1, <1>2, <1>5, KeyArgs
<1>6. Len(<<k>>) = 1 /\ <<k>>[1] = k
  OBVIOUS
<1>7. PICK got : got = Decode(Call(r))
  OBVIOUS
<1>8. /\ got.function = "remove" /\ Len(got.args) = (IF tx # NilId THEN 2 ELSE 1)
      /\ got.args[1] = ByteArrayToHex(k)
  BY <1>4, <1>5, <1>7, DecodeOne
<1>9. CASE tx # NilId
  <2>1. Stored(stored, got) = stored
    BY <1>8, <1>9 DEF Stored
  <2>2. Written(r, <<>>) = written
    BY <1>5, <1>9 DEF Written
  <2> QED
    BY <1>1, <1>7, <2>1, <2>2
<1>10. CASE tx = NilId
  <2>1. PICK a : a = KeyWord(w) /\ a = got.args[1]
    BY <1>2, <1>8 DEF KeyWord
  <2>3. Stored(stored, got) = StoreWithout(stored, <<a>>)
    BY <1>8, <1>10, <2>1 DEF Stored
  <2>4. Mirror(StoreWithout(stored, <<a>>), {x \in written : ExtractKey(x) \notin {k}})
    <3>1. Mirror(StoreWithout(stored, <<KeyWord(w)>>),
                 {x \in written : ExtractKey(x) \notin {ExtractKey(w)}})
      BY <1>4, MirrorRemove
    <3> QED
      BY <1>2, <2>1, <3>1
  <2>7. Written(r, <<>>) = {x \in written : ExtractKey(x) \notin {k}}
    <3>1. r.function = "remove" /\ r.tx = NilId /\ r.args[1] = k
      BY <1>5, <1>6, <1>10
    <3> QED
      BY <3>1 DEF Written
  <2> QED
    BY <1>1, <1>7, <2>3, <2>4, <2>7
<1> QED
  BY <1>9, <1>10

\* putBatch.
LEMMA PutBatchMirrors ==
  ASSUME NEW b \in Batches, NEW tx \in Tx, Fits(PutBatchRequest(b, tx)), Mirror(stored, written)
  PROVE  Mirror(Stored(stored, Decode(Call(PutBatchRequest(b, tx)))), Written(PutBatchRequest(b, tx), b))
<1>1. PICK r : r = PutBatchRequest(b, tx)
  OBVIOUS
<1>2. PICK ks : ks = Keys(b)
  OBVIOUS
<1>3. PICK vs : vs = Values(b)
  OBVIOUS
<1>4. PICK n \in Nat : n <= MaxBatch /\ b \in [1 .. n -> Record] /\ n = Len(b)
  BY BatchIs
<1>5. KeySize <= WordSize /\ ValueSize <= WordSize
  BY BatchFits
<1>6. /\ ks \in Seq(Datum) /\ vs \in Seq(Datum) /\ Len(ks) = n /\ Len(vs) = n /\ DOMAIN ks = 1 .. n
      /\ \A i \in 1 .. n : ks[i] = ExtractKey(b[i])
  BY <1>2, <1>3, <1>4, <1>5, BatchIs, BatchKeys, BatchValues
<1>7. r = [function |-> "putBatch", args |-> <<ks, vs>>, tx |-> tx]
  BY <1>1, <1>2, <1>3 DEF PutBatchRequest
<1>8. PICK got : got = Decode(Call(r))
  OBVIOUS
<1>9. /\ got.function = "putBatch" /\ Len(got.args) = (IF tx # NilId THEN 3 ELSE 2)
      /\ got.args[1] = Elements(ks) /\ got.args[2] = Elements(vs)
  <2>1. Len(ks) = Len(vs) /\ Len(ks) <= MaxBatch
    BY <1>4, <1>6
  <2> QED
    BY <1>6, <1>7, <1>8, <2>1, DecodePutBatch
<1>10. CASE tx # NilId
  <2>1. Stored(stored, got) = stored
    BY <1>9, <1>10 DEF Stored
  <2>2. Written(r, b) = written
    BY <1>7, <1>10 DEF Written
  <2> QED
    BY <1>1, <1>8, <2>1, <2>2
<1>11. CASE tx = NilId
  <2>1. PICK a : a = Elements(ks)
    OBVIOUS
  <2>2. PICK c : c = Elements(vs)
    OBVIOUS
  <2>3. Stored(stored, got) = StorePuts(stored, a, c)
    BY <1>9, <1>11, <2>1, <2>2 DEF Stored
  <2>4. DOMAIN a = 1 .. n /\ \A i \in 1 .. n : a[i] = KeyWord(b[i]) /\ c[i] = ValueWord(b[i])
    BY <1>2, <1>3, <1>4, <1>5, <2>1, <2>2, BatchKeys, BatchValues
  <2>5. Mirror(StorePuts(stored, a, c),
               {x \in written : ExtractKey(x) \notin {ExtractKey(b[i]) : i \in 1 .. n}} \cup Latest(b))
    BY <1>4, <1>5, <2>4, MirrorPuts
  <2>6. ToSet(ks) = {ExtractKey(b[i]) : i \in 1 .. n}
    BY <1>6 DEF ToSet
  <2>7. Written(r, b) = {x \in written : ExtractKey(x) \notin ToSet(ks)} \cup Latest(b)
    <3>1. r.function = "putBatch" /\ r.tx = NilId /\ r.args[1] = ks
      BY <1>7, <1>11
    <3> QED
      BY <3>1 DEF Written, Latest
  <2> QED
    BY <1>1, <1>8, <2>3, <2>5, <2>6, <2>7
<1> QED
  BY <1>10, <1>11

\* removeBatch.
LEMMA RemoveBatchMirrors ==
  ASSUME NEW b \in Batches, NEW tx \in Tx, Fits(RemoveBatchRequest(b, tx)), Mirror(stored, written)
  PROVE  Mirror(Stored(stored, Decode(Call(RemoveBatchRequest(b, tx)))),
                Written(RemoveBatchRequest(b, tx), <<>>))
<1>1. PICK r : r = RemoveBatchRequest(b, tx)
  OBVIOUS
<1>2. PICK ks : ks = Keys(b)
  OBVIOUS
<1>4. PICK n \in Nat : n <= MaxBatch /\ b \in [1 .. n -> Record] /\ n = Len(b)
  BY BatchIs
<1>5. KeySize <= WordSize
  BY BatchFits
<1>6. /\ ks \in Seq(Datum) /\ Len(ks) = n /\ DOMAIN ks = 1 .. n
      /\ \A i \in 1 .. n : ks[i] = ExtractKey(b[i])
  BY <1>2, <1>4, <1>5, BatchIs, BatchKeys
<1>7. r = [function |-> "removeBatch", args |-> <<ks>>, tx |-> tx]
  BY <1>1, <1>2 DEF RemoveBatchRequest
<1>8. PICK got : got = Decode(Call(r))
  OBVIOUS
<1>9. /\ got.function = "removeBatch" /\ Len(got.args) = (IF tx # NilId THEN 2 ELSE 1)
      /\ got.args[1] = Elements(ks)
  <2>1. Len(ks) <= MaxBatch
    BY <1>4, <1>6
  <2> QED
    BY <1>6, <1>7, <1>8, <2>1, DecodeRemoveBatch
<1>10. CASE tx # NilId
  <2>1. Stored(stored, got) = stored
    BY <1>9, <1>10 DEF Stored
  <2>2. Written(r, <<>>) = written
    BY <1>7, <1>10 DEF Written
  <2> QED
    BY <1>1, <1>8, <2>1, <2>2
<1>11. CASE tx = NilId
  <2>1. PICK a : a = Elements(ks)
    OBVIOUS
  <2>3. Stored(stored, got) = StoreWithout(stored, a)
    BY <1>9, <1>11, <2>1 DEF Stored
  <2>4. DOMAIN a = 1 .. n /\ \A i \in 1 .. n : a[i] = KeyWord(b[i])
    BY <1>2, <1>4, <1>5, <2>1, BatchKeys
  <2>5. Mirror(StoreWithout(stored, a),
               {x \in written : ExtractKey(x) \notin {ExtractKey(b[i]) : i \in 1 .. n}})
    BY <1>4, <1>5, <2>4, MirrorWithout
  <2>6. ToSet(ks) = {ExtractKey(b[i]) : i \in 1 .. n}
    BY <1>6 DEF ToSet
  <2>7. Written(r, <<>>) = {x \in written : ExtractKey(x) \notin ToSet(ks)}
    <3>1. r.function = "removeBatch" /\ r.tx = NilId /\ r.args[1] = ks
      BY <1>7, <1>11
    <3> QED
      BY <3>1 DEF Written
  <2> QED
    BY <1>1, <1>8, <2>3, <2>5, <2>6, <2>7
<1> QED
  BY <1>10, <1>11

\* The other calls leave the store and the rows alone.
LEMMA DecodedFunction ==
  ASSUME NEW c
  PROVE  Decode(c).function \in {c.function, "reverted"}
BY DEF Decode, Reverted

\* Neither the store nor the rows change.
LEMMA OthersMirror ==
  ASSUME NEW r, r.function \in {"clean", "commitAll", "get", "tableScan"}, NEW records,
         Mirror(stored, written)
  PROVE  Mirror(Stored(stored, Decode(Call(r))), Written(r, records))
<1>1. Call(r).function = r.function
  BY DEF Call
<1>2. Decode(Call(r)).function \in {"clean", "commitAll", "get", "tableScan", "reverted"}
  BY <1>1, DecodedFunction
<1>3. Stored(stored, Decode(Call(r))) = stored
  <2>1. PICK c : c = Decode(Call(r))
    OBVIOUS
  <2>2. c.function \notin {"put", "putBatch", "remove", "removeBatch"}
    BY <1>2, <2>1
  <2>3. Stored(stored, c) = stored
    BY <2>2 DEF Stored
  <2> QED
    BY <2>1, <2>3
<1>4. Written(r, records) = written
  BY DEF Written
<1> QED
  BY <1>3, <1>4

-----------------------------------------------------------------------------
(***************************************************************************)
(* Bytes: also a call that does not fit is laid out in bytes.              *)
(***************************************************************************)
LongWord == {w \in Seq(Byte) : Len(w) >= WordSize}

IsRequest(r) ==
  \/ \E w \in Record, tx \in AnyTx : r = PutRequest(w, tx) \/ r = RemoveRequest(w, tx)
  \/ \E b \in Batches, tx \in AnyTx : r = PutBatchRequest(b, tx) \/ r = RemoveBatchRequest(b, tx)
  \/ \E tx \in TxId : r = CleanRequest(tx)
  \/ \E tables \in Addresses, tx \in TxId : r = CommitRequest(tables, tx)
  \/ \E w \in Record : r = GetRequest(w)
  \/ r = ScanRequest

\* Identifiers have the form of identifiers.
LEMMA TxTypes == AnyTx \subseteq Tx /\ TxId \subseteq Tx
BY NilTx, TxIdAssumption DEF AnyTx, Tx

\* The addresses of a commit are data of a word.
LEMMA TablesAre == ASSUME NEW tables \in Addresses PROVE tables \in Seq(Datum)
<1>1. tables \in Seq(Seq(Byte)) /\ \A i \in DOMAIN tables : Len(tables[i]) <= WordSize
  BY AddressAssumption
<1>2. PICK n \in Nat : n = Len(tables) /\ DOMAIN tables = 1 .. n
  BY <1>1
<1>3. ASSUME NEW i \in 1 .. n PROVE tables[i] \in Datum
  <2>1. tables[i] \in Seq(Byte)
    BY <1>1, <1>2
  <2>2. Len(tables[i]) <= WordSize
    BY <1>1, <1>2
  <2> QED
    BY <2>1, <2>2 DEF Datum
<1>4. tables = [i \in 1 .. n |-> tables[i]]
  BY <1>1, <1>2
<1> QED
  BY <1>3, <1>4

\* A word is long enough.
LEMMA WordsAreLong == Word \subseteq LongWord
BY Sizes DEF Word, LongWord

\* So are sequences of words.
LEMMA LongWords == ASSUME NEW words \in Seq(Word) PROVE words \in Seq(LongWord)
BY WordsAreLong

\* Padding never makes a datum shorter than a word.
LEMMA LongElements ==
  ASSUME NEW data \in Seq(Seq(Byte))
  PROVE  Elements(data) \in Seq(LongWord)
<1>1. PICK n \in Nat : n = Len(data) /\ DOMAIN data = 1 .. n
  OBVIOUS
<1>2. \A i \in 1 .. n : data[i] \in Seq(Byte)
  BY <1>1
<1>3. \A i \in 1 .. n : ByteArrayToHex(data[i]) \in LongWord
  BY <1>2, Padded DEF LongWord
<1>4. Elements(data) = [i \in 1 .. n |-> ByteArrayToHex(data[i])]
  BY <1>1 DEF Elements
<1> QED
  BY <1>3, <1>4

\* Arrays of any data.
LEMMA LongCounted ==
  ASSUME NEW data \in Seq(Seq(Byte))
  PROVE  Counted(data) \in Seq(LongWord)
<1>1. PICK e \in Seq(LongWord) : e = Elements(data)
  BY LongElements
<1>2. PICK w \in LongWord : w = NumericToHex(Len(data))
  <2>1. Len(data) \in Nat
    OBVIOUS
  <2> QED
    BY <2>1, NumberWord, WordsAreLong
<1>3. <<w>> \o e \in Seq(LongWord)
  OBVIOUS
<1> QED
  BY <1>1, <1>2, <1>3 DEF Counted

\* The data of a call are bytes of such words.
LEMMA LongBytes ==
  ASSUME NEW words \in Seq(LongWord)
  PROVE  Range(Joined(words)) \subseteq Byte
<1>1. words \in Seq(Seq(Byte)) /\ \A i \in 1 .. Len(words) : Len(words[i]) >= WordSize
  BY DEF LongWord
<1>2. Joined(words) \in Seq(Byte)
  BY <1>1, JoinedIs
<1>3. PICK d \in Seq(Byte) : d = Joined(words)
  BY <1>2
<1>4. \A i \in DOMAIN d : d[i] \in Byte
  OBVIOUS
<1> QED
  BY <1>3, <1>4 DEF Range

\* Whatever the handler asks for is sent in bytes.
LEMMA RequestBytes ==
  ASSUME NEW r, IsRequest(r)
  PROVE  Range(Data(r)) \subseteq Byte
<1>1. SUFFICES Words(r) \in Seq(LongWord)
  BY LongBytes DEF Data
<1>2. ASSUME r.function \in Plain, r.args \in Seq(Seq(Byte)), r.tx \in Tx
      PROVE  Words(r) \in Seq(LongWord)
  <2>1. Elements(r.args) \in Seq(LongWord)
    BY <1>2, LongElements
  <2>2. TxWord(r.tx) \in Seq(LongWord)
    BY <1>2, TxWordIs, LongWords
  <2>3. Words(r) = Elements(r.args) \o TxWord(r.tx)
    BY <1>2 DEF Words, Plain
  <2> QED
    BY <2>1, <2>2, <2>3
<1>3. CASE \E w \in Record, tx \in AnyTx : r = PutRequest(w, tx) \/ r = RemoveRequest(w, tx)
  <2>1. PICK w \in Record, tx \in Tx : r = PutRequest(w, tx) \/ r = RemoveRequest(w, tx)
    BY <1>3, TxTypes
  <2>2. ExtractKey(w) \in Seq(Byte) /\ ExtractValue(w) \in Seq(Byte)
    BY RecordIs
  <2>3. <<ExtractKey(w), ExtractValue(w)>> \in Seq(Seq(Byte)) /\ <<ExtractKey(w)>> \in Seq(Seq(Byte))
    BY <2>2, Tuples
  <2>4. r.function \in Plain /\ r.args \in Seq(Seq(Byte)) /\ r.tx \in Tx
    <3>1. CASE r = PutRequest(w, tx)
      BY <2>3, <3>1 DEF PutRequest, Plain
    <3>2. CASE r = RemoveRequest(w, tx)
      BY <2>3, <3>2 DEF RemoveRequest, Plain
    <3> QED
      BY <2>1, <3>1, <3>2
  <2> QED
    BY <1>2, <2>4
<1>4. CASE \E b \in Batches, tx \in AnyTx : r = PutBatchRequest(b, tx) \/ r = RemoveBatchRequest(b, tx)
  <2>1. PICK b \in Batches, tx \in Tx : r = PutBatchRequest(b, tx) \/ r = RemoveBatchRequest(b, tx)
    BY <1>4, TxTypes
  <2>2. PICK ks \in Seq(Seq(Byte)) : ks = Keys(b)
    BY BatchIs
  <2>3. PICK vs \in Seq(Seq(Byte)) : vs = Values(b)
    BY BatchIs
  <2>4. Counted(ks) \in Seq(LongWord) /\ Counted(vs) \in Seq(LongWord)
    BY LongCounted
  <2>5. BatchOffsets(Len(ks), tx) \in Seq(LongWord)
    <3>1. Len(ks) \in Nat
      OBVIOUS
    <3>2. BatchOffsets(Len(ks), tx) \in Seq(Word)
      BY <3>1, BatchOffsetsAre DEF IsBatchHead
    <3> QED
      BY <3>2, LongWords
  <2>6. RemoveOffset(tx) \in Seq(LongWord)
    <3>1. RemoveOffset(tx) \in Seq(Word)
      BY RemoveOffsetIs DEF IsRemoveHead
    <3> QED
      BY <3>1, LongWords
  <2>7. CASE r = PutBatchRequest(b, tx)
    <3>1. r.function = "putBatch" /\ r.args = <<ks, vs>> /\ r.tx = tx
      BY <2>2, <2>3, <2>7 DEF PutBatchRequest
    <3>2. r.args[1] = ks /\ r.args[2] = vs
      BY <3>1
    <3>3. Words(r) = BatchOffsets(Len(ks), tx) \o Counted(ks) \o Counted(vs)
      BY <3>1, <3>2 DEF Words, PutBatchData
    <3>4. BatchOffsets(Len(ks), tx) \o Counted(ks) \in Seq(LongWord)
      BY <2>4, <2>5
    <3> QED
      BY <2>4, <3>3, <3>4
  <2>8. CASE r = RemoveBatchRequest(b, tx)
    <3>1. r.function = "removeBatch" /\ r.args = <<ks>> /\ r.tx = tx
      BY <2>2, <2>8 DEF RemoveBatchRequest
    <3>2. r.args[1] = ks
      BY <3>1
    <3>3. Words(r) = RemoveOffset(tx) \o Counted(ks)
      BY <3>1, <3>2 DEF Words, RemoveBatchData
    <3> QED
      BY <2>4, <2>6, <3>3
  <2> QED
    BY <2>1, <2>7, <2>8
<1>5. CASE (\E tx \in TxId : r = CleanRequest(tx)) \/ r = ScanRequest
  <2>1. r.function \in Plain /\ r.args \in Seq(Seq(Byte)) /\ r.tx \in Tx
    <3>0. <<>> \in Seq(Seq(Byte))
      OBVIOUS
    <3>1. ASSUME NEW tx \in TxId, r = CleanRequest(tx)
          PROVE  r.function \in Plain /\ r.args \in Seq(Seq(Byte)) /\ r.tx \in Tx
      <4>1. tx \in Tx
        BY TxTypes
      <4> QED
        BY <3>0, <3>1, <4>1 DEF CleanRequest, Plain
    <3>2. CASE r = ScanRequest
      BY <3>0, <3>2, NilTx DEF ScanRequest, Plain
    <3> QED
      BY <1>5, <3>1, <3>2
  <2> QED
    BY <1>2, <2>1
<1>6. CASE \E tables \in Addresses, tx \in TxId : r = CommitRequest(tables, tx)
  <2>1. PICK tables \in Addresses, tx \in Tx : r = CommitRequest(tables, tx)
    BY <1>6, TxTypes
  <2>2. r.function = "commitAll" /\ r.args[1] = tables /\ r.tx = tx
    BY <2>1 DEF CommitRequest
  <2>3. Words(r) = AtomicCommitData(tx, tables)
    BY <2>2 DEF Words
  <2>4. Words(r) \in Seq(Word)
    BY <2>3, TablesAre, CommitWords
  <2> QED
    BY <2>4, LongWords
<1>7. CASE \E w \in Record : r = GetRequest(w)
  <2>1. PICK w \in Record : r = GetRequest(w)
    BY <1>7
  <2>2. ExtractKey(w) \in Seq(Byte)
    BY RecordIs
  <2>3. <<ExtractKey(w)>> \in Seq(Seq(Byte))
    BY <2>2, Tuples
  <2>4. r.function \in Plain /\ r.args \in Seq(Seq(Byte)) /\ r.tx \in Tx
    BY <2>1, <2>3, NilTx DEF GetRequest, Plain
  <2> QED
    BY <1>2, <2>4
<1> QED
  BY <1>3, <1>4, <1>5, <1>6, <1>7 DEF IsRequest

-----------------------------------------------------------------------------
(***************************************************************************)
(* The contract takes a call that fits for what it was meant.              *)
(***************************************************************************)
SentOf(r) ==
  IF r.function = "commitAll" THEN <<r.tx>> \o r.args
  ELSE IF r.tx # NilId THEN Append(r.args, r.tx)
  ELSE r.args

Understood(r, got) ==
  /\ got.function = r.function
  /\ Len(got.args) = Len(SentOf(r))
  /\ \A i \in DOMAIN SentOf(r) :
       Agrees(Parameters(r.function, r.tx # NilId)[i], SentOf(r)[i], got.args[i])

\* A datum is at the front of its word.
LEMMA PrefixIs ==
  ASSUME NEW data \in Datum
  PROVE  IsPrefix(data, ByteArrayToHex(data))
<1>1. data \in Seq(Byte) /\ Len(data) <= WordSize /\ Len(data) \in Nat
  BY DEF Datum
<1>2. PICK p : /\ p = ByteArrayToHex(data) /\ Len(p) >= WordSize
               /\ SubSeq(p, 1, Len(data)) = data /\ p \in Seq(Byte)
  BY <1>1, Padded
<1>3. SubSeq(data, 1, Len(data)) = data
  BY <1>1
<1>4. Len(data) <= Len(p)
  BY <1>1, <1>2, Sizes
<1> QED
  BY <1>2, <1>3, <1>4 DEF IsPrefix

\* An address is at the end of its word.
LEMMA SuffixIs ==
  ASSUME NEW address \in Datum
  PROVE  IsSuffix(address, AddressToHex(address))
<1>1. address \in Seq(Byte) /\ Len(address) <= WordSize
  BY DEF Datum
<1>2. PICK n \in Nat : n = Len(address) /\ n <= WordSize
  BY <1>1
<1>3. PICK word : /\ word = AddressToHex(address) /\ word \in Word
                  /\ \A i \in 1 .. n : word[WordSize - n + i] = address[i]
  BY <1>1, <1>2, AddressWord
<1>4. word \in Seq(Byte) /\ Len(word) = WordSize
  BY <1>3, Sizes DEF Word
<1>5. PICK a \in Seq(Byte) : /\ a = Reverse(address) /\ Len(a) = n
                             /\ \A i \in 1 .. n : a[i] = address[(n - i) + 1]
  <2> DEFINE f == [i \in 1 .. n |-> address[(n - i) + 1]]
  <2>1. Reverse(address) = f
    BY <1>2 DEF Reverse
  <2>2. \A i \in 1 .. n : (n - i) + 1 \in 1 .. n
    OBVIOUS
  <2>3. \A i \in 1 .. n : address[(n - i) + 1] \in Byte
    BY <1>1, <1>2, <2>2
  <2>4. f \in Seq(Byte) /\ Len(f) = n /\ \A i \in 1 .. n : f[i] = address[(n - i) + 1]
    BY <2>3
  <2> QED
    BY <2>1, <2>4
<1>6. PICK w \in Seq(Byte) : /\ w = Reverse(word) /\ Len(w) = WordSize
                             /\ \A i \in 1 .. WordSize : w[i] = word[(WordSize - i) + 1]
  <2> DEFINE f == [i \in 1 .. WordSize |-> word[(WordSize - i) + 1]]
  <2>1. Reverse(word) = f
    BY <1>4 DEF Reverse
  <2>2. \A i \in 1 .. WordSize : (WordSize - i) + 1 \in 1 .. WordSize
    BY Sizes
  <2>3. \A i \in 1 .. WordSize : word[(WordSize - i) + 1] \in Byte
    BY <1>3, <2>2 DEF Word
  <2>4. f \in Seq(Byte) /\ Len(f) = WordSize /\ \A i \in 1 .. WordSize : f[i] = word[(WordSize - i) + 1]
    BY <2>3, Sizes
  <2> QED
    BY <2>1, <2>4
<1>7. ASSUME NEW i \in 1 .. n PROVE a[i] = w[i]
  <2>1. i \in 1 .. WordSize
    BY <1>2, Sizes
  <2>2. PICK j \in 1 .. n : j = (n - i) + 1
    OBVIOUS
  <2>3. WordSize - n + j = (WordSize - i) + 1
    BY <1>2, <2>2, Sizes
  <2>4. w[i] = word[(WordSize - i) + 1]
    BY <1>6, <2>1
  <2>5. word[WordSize - n + j] = address[j]
    BY <1>3
  <2>6. a[i] = address[j]
    BY <1>5, <2>2
  <2> QED
    BY <2>3, <2>4, <2>5, <2>6
<1>8. SubSeq(a, 1, n) = SubSeq(w, 1, n)
  <2>1. SubSeq(a, 1, n) = [i \in 1 .. n |-> a[i]]
    BY <1>5
  <2>2. SubSeq(w, 1, n) = [i \in 1 .. n |-> w[i]]
    BY <1>2, <1>6, Sizes
  <2>3. [i \in 1 .. n |-> a[i]] = [i \in 1 .. n |-> w[i]]
    BY <1>7, Zenon
  <2> QED
    BY <2>1, <2>2, <2>3
<1>9. IsPrefix(a, w)
  BY <1>2, <1>5, <1>6, <1>8 DEF IsPrefix
<1> QED
  BY <1>3, <1>5, <1>6, <1>9 DEF IsSuffix

\* An argument that is one word, one that is an array, and the identifier.
LEMMA AgreesWord ==
  ASSUME NEW data \in Datum
  PROVE  Agrees("bytes32", data, ByteArrayToHex(data))
BY PrefixIs DEF Agrees

LEMMA AgreesTx == ASSUME NEW tx PROVE Agrees("bytes16", tx, tx)
BY DEF Agrees

LEMMA AgreesArray ==
  ASSUME NEW data \in Seq(Datum)
  PROVE  Agrees("bytes32[]", data, Elements(data))
<1>1. PICK n \in Nat : n = Len(data) /\ DOMAIN data = 1 .. n
  OBVIOUS
<1>2. \A i \in 1 .. n : data[i] \in Datum /\ Elements(data)[i] = ByteArrayToHex(data[i])
  BY <1>1, ElementsAre
<1>3. \A i \in 1 .. n : IsPrefix(data[i], Elements(data)[i])
  BY <1>2, PrefixIs
<1>4. Len(Elements(data)) = Len(data)
  BY ElementsAre
<1> QED
  BY <1>1, <1>3, <1>4 DEF Agrees

LEMMA AgreesTables ==
  ASSUME NEW tables \in Seq(Datum)
  PROVE  Agrees("address[]", tables, [i \in 1 .. Len(tables) |-> AddressToHex(tables[i])])
<1>1. PICK n \in Nat : n = Len(tables) /\ DOMAIN tables = 1 .. n
  OBVIOUS
<1>2. PICK a : /\ a = [i \in 1 .. n |-> AddressToHex(tables[i])] /\ Len(a) = n
               /\ \A i \in 1 .. n : a[i] = AddressToHex(tables[i])
  <2> DEFINE f == [i \in 1 .. n |-> AddressToHex(tables[i])]
  <2>1. DOMAIN f = 1 .. n /\ \A i \in 1 .. n : f[i] = AddressToHex(tables[i])
    BY Zenon
  <2>2. Len(f) = n
    OBVIOUS
  <2> HIDE DEF f
  <2>3. \E a : a = f
    OBVIOUS
  <2> QED
    BY <2>1, <2>2, <2>3 DEF f
<1>3. \A i \in 1 .. n : IsSuffix(tables[i], a[i])
  <2>1. \A i \in 1 .. n : tables[i] \in Datum
    BY <1>1
  <2> QED
    BY <1>2, <2>1, SuffixIs
<1>4. Agrees("address[]", tables, a)
  BY <1>1, <1>2, <1>3 DEF Agrees
<1> QED
  BY <1>1, <1>2, <1>4

\* What is sent: the arguments, and behind them the identifier.
LEMMA SentIs ==
  ASSUME NEW r, r.function # "commitAll", NEW S, r.args \in Seq(S), NEW m \in Nat, m = Len(r.args)
  PROVE  /\ Len(SentOf(r)) = IF r.tx # NilId THEN m + 1 ELSE m
         /\ DOMAIN SentOf(r) = 1 .. (IF r.tx # NilId THEN m + 1 ELSE m)
         /\ \A i \in 1 .. m : SentOf(r)[i] = r.args[i]
         /\ r.tx # NilId => SentOf(r)[m + 1] = r.tx
<1>1. PICK args \in Seq(S) : args = r.args /\ Len(args) = m
  OBVIOUS
<1>2. PICK tx : tx = r.tx
  OBVIOUS
<1>3. CASE tx # NilId
  <2>1. SentOf(r) = Append(args, tx)
    BY <1>1, <1>2, <1>3 DEF SentOf
  <2>2. args \in Seq(S \cup {tx}) /\ tx \in S \cup {tx}
    BY <1>1
  <2>3. /\ Append(args, tx) \in Seq(S \cup {tx}) /\ Len(Append(args, tx)) = Len(args) + 1
        /\ Append(args, tx)[Len(args) + 1] = tx
        /\ \A i \in 1 .. Len(args) : Append(args, tx)[i] = args[i]
    BY <2>2, Appended
  <2> QED
    BY <1>1, <1>2, <1>3, <2>1, <2>3
<1>4. CASE tx = NilId
  <2>1. SentOf(r) = args
    BY <1>1, <1>2, <1>4 DEF SentOf
  <2> QED
    BY <1>1, <1>2, <1>4, <2>1
<1> QED
  BY <1>3, <1>4

\* put, remove, get, tableScan and clean are understood.
LEMMA PlainUnderstood ==
  ASSUME NEW r, r.function \in Plain, r.args \in Seq(Datum), Len(r.args) = Arity(r.function),
         r.tx \in Tx,
         r = [function |-> r.function, args |-> r.args, tx |-> r.tx]
  PROVE  Understood(r, Decode(Call(r)))
<1>1. PICK got : got = Decode(Call(r))
  OBVIOUS
<1>2. PICK m \in Nat : m = Len(r.args) /\ m = Arity(r.function)
  OBVIOUS
<1>3. PICK n \in Nat : n = IF r.tx # NilId THEN m + 1 ELSE m
  BY <1>2
<1>4. PlainDecoded(got, r.function, r.args, r.tx)
  BY <1>1, DecodePlain
<1>5. /\ got.function = r.function /\ Len(got.args) = n
      /\ \A i \in 1 .. m : got.args[i] = ByteArrayToHex(r.args[i])
      /\ r.tx # NilId => got.args[m + 1] = r.tx
  BY <1>2, <1>3, <1>4 DEF PlainDecoded
<1>6. PICK sent : /\ sent = SentOf(r) /\ Len(sent) = n /\ DOMAIN sent = 1 .. n
                  /\ \A i \in 1 .. m : sent[i] = r.args[i]
                  /\ r.tx # NilId => sent[m + 1] = r.tx
  <2>1. r.function # "commitAll"
    BY DEF Plain
  <2> QED
    BY <1>2, <1>3, <2>1, SentIs
<1>7. PICK types : /\ types = Parameters(r.function, r.tx # NilId)
                   /\ \A i \in 1 .. m : types[i] = "bytes32"
                   /\ r.tx # NilId => types[m + 1] = "bytes16"
  <2>1. (r.tx # NilId) \in BOOLEAN
    OBVIOUS
  <2>2. /\ \A i \in 1 .. Arity(r.function) : Parameters(r.function, r.tx # NilId)[i] = "bytes32"
        /\ r.tx # NilId => Parameters(r.function, r.tx # NilId)[Arity(r.function) + 1] = "bytes16"
    BY <2>1, PlainTypes
  <2> QED
    BY <1>2, <2>2
<1>8. ASSUME NEW i \in 1 .. n PROVE Agrees(types[i], sent[i], got.args[i])
  <2>1. CASE i \in 1 .. m
    <3>1. r.args[i] \in Datum
      BY <1>2, <2>1
    <3> QED
      BY <1>5, <1>6, <1>7, <2>1, <3>1, AgreesWord
  <2>2. CASE i \notin 1 .. m
    <3>1. r.tx # NilId /\ i = m + 1
      BY <1>2, <1>3, <2>2
    <3> QED
      BY <1>5, <1>6, <1>7, <3>1, AgreesTx
  <2> QED
    BY <2>1, <2>2
<1> QED
  BY <1>1, <1>5, <1>6, <1>7, <1>8 DEF Understood

\* putBatch is understood.
LEMMA PutBatchUnderstood ==
  ASSUME NEW b \in Batches, NEW tx \in Tx, Fits(PutBatchRequest(b, tx))
  PROVE  Understood(PutBatchRequest(b, tx), Decode(Call(PutBatchRequest(b, tx))))
<1>1. PICK r : r = PutBatchRequest(b, tx)
  OBVIOUS
<1>2. PICK got : got = Decode(Call(r))
  OBVIOUS
<1>3. KeySize <= WordSize /\ ValueSize <= WordSize
  BY BatchFits
<1>4. PICK ks \in Seq(Datum) : ks = Keys(b)
  BY <1>3, BatchKeys
<1>5. PICK vs \in Seq(Datum) : vs = Values(b)
  BY <1>3, BatchValues
<1>6. Len(ks) = Len(vs) /\ Len(ks) <= MaxBatch
  BY <1>4, <1>5, BatchIs
<1>7. r = [function |-> "putBatch", args |-> <<ks, vs>>, tx |-> tx]
  BY <1>1, <1>4, <1>5 DEF PutBatchRequest
<1>8. /\ got.function = "putBatch" /\ Len(got.args) = (IF tx # NilId THEN 3 ELSE 2)
      /\ got.args[1] = Elements(ks) /\ got.args[2] = Elements(vs)
      /\ tx # NilId => got.args[3] = tx
  BY <1>2, <1>6, <1>7, DecodePutBatch
<1>9. PICK sent : /\ sent = SentOf(r) /\ Len(sent) = (IF tx # NilId THEN 3 ELSE 2)
                  /\ DOMAIN sent = 1 .. (IF tx # NilId THEN 3 ELSE 2)
                  /\ sent[1] = ks /\ sent[2] = vs /\ (tx # NilId => sent[3] = tx)
  <2>1. r.function # "commitAll" /\ r.args = <<ks, vs>> /\ r.tx = tx
    BY <1>7
  <2>2. <<ks, vs>> \in Seq({ks, vs}) /\ Len(<<ks, vs>>) = 2 /\ <<ks, vs>>[1] = ks /\ <<ks, vs>>[2] = vs
    <3>1. ks \in {ks, vs} /\ vs \in {ks, vs}
      OBVIOUS
    <3> QED
      BY <3>1, Tuples
  <2>3. /\ Len(SentOf(r)) = IF tx # NilId THEN 2 + 1 ELSE 2
        /\ DOMAIN SentOf(r) = 1 .. (IF tx # NilId THEN 2 + 1 ELSE 2)
        /\ \A i \in 1 .. 2 : SentOf(r)[i] = r.args[i]
        /\ tx # NilId => SentOf(r)[2 + 1] = tx
    <3>1. PICK T : r.args \in Seq(T) /\ Len(r.args) = 2
      BY <2>1, <2>2
    <3> QED
      BY <2>1, <3>1, SentIs
  <2>4. 2 + 1 = 3 /\ 1 \in 1 .. 2 /\ 2 \in 1 .. 2
    OBVIOUS
  <2>5. SentOf(r)[1] = ks /\ SentOf(r)[2] = vs
    BY <2>1, <2>2, <2>3, <2>4
  <2> QED
    BY <2>3, <2>4, <2>5
<1>10. PICK types : /\ types = Parameters("putBatch", tx # NilId)
                    /\ types[1] = "bytes32[]" /\ types[2] = "bytes32[]"
                    /\ tx # NilId => types[3] = "bytes16"
  <2>1. (tx # NilId) \in BOOLEAN /\ Arity("putBatch") = 2
    BY DEF Arity
  <2>2. /\ \A i \in 1 .. 2 : Parameters("putBatch", tx # NilId)[i] = "bytes32[]"
        /\ tx # NilId => Parameters("putBatch", tx # NilId)[2 + 1] = "bytes16"
    BY <2>1, BatchTypes
  <2>3. 2 + 1 = 3 /\ 1 \in 1 .. 2 /\ 2 \in 1 .. 2
    OBVIOUS
  <2> QED
    BY <2>2, <2>3
<1>11. /\ Agrees(types[1], sent[1], got.args[1]) /\ Agrees(types[2], sent[2], got.args[2])
       /\ tx # NilId => Agrees(types[3], sent[3], got.args[3])
  BY <1>8, <1>9, <1>10, AgreesArray, AgreesTx
<1>12. \A i \in DOMAIN sent : i = 1 \/ i = 2 \/ (i = 3 /\ tx # NilId)
  BY <1>9
<1>13. r.function = "putBatch" /\ r.tx = tx
  BY <1>7
<1> QED
  BY <1>1, <1>2, <1>8, <1>9, <1>10, <1>11, <1>12, <1>13 DEF Understood

\* removeBatch is understood.
LEMMA RemoveBatchUnderstood ==
  ASSUME NEW b \in Batches, NEW tx \in Tx, Fits(RemoveBatchRequest(b, tx))
  PROVE  Understood(RemoveBatchRequest(b, tx), Decode(Call(RemoveBatchRequest(b, tx))))
<1>1. PICK r : r = RemoveBatchRequest(b, tx)
  OBVIOUS
<1>2. PICK got : got = Decode(Call(r))
  OBVIOUS
<1>3. KeySize <= WordSize
  BY BatchFits
<1>4. PICK ks \in Seq(Datum) : ks = Keys(b)
  BY <1>3, BatchKeys
<1>5. Len(ks) <= MaxBatch
  BY <1>4, BatchIs
<1>6. r = [function |-> "removeBatch", args |-> <<ks>>, tx |-> tx]
  BY <1>1, <1>4 DEF RemoveBatchRequest
<1>7. /\ got.function = "removeBatch" /\ Len(got.args) = (IF tx # NilId THEN 2 ELSE 1)
      /\ got.args[1] = Elements(ks) /\ (tx # NilId => got.args[2] = tx)
  BY <1>2, <1>5, <1>6, DecodeRemoveBatch
<1>8. PICK sent : /\ sent = SentOf(r) /\ Len(sent) = (IF tx # NilId THEN 2 ELSE 1)
                  /\ DOMAIN sent = 1 .. (IF tx # NilId THEN 2 ELSE 1)
                  /\ sent[1] = ks /\ (tx # NilId => sent[2] = tx)
  <2>1. r.function # "commitAll" /\ r.args = <<ks>> /\ r.tx = tx
    BY <1>6
  <2>2. <<ks>> \in Seq({ks}) /\ Len(<<ks>>) = 1 /\ <<ks>>[1] = ks
    <3>1. ks \in {ks}
      OBVIOUS
    <3> QED
      BY <3>1, Tuples
  <2>3. /\ Len(SentOf(r)) = IF tx # NilId THEN 1 + 1 ELSE 1
        /\ DOMAIN SentOf(r) = 1 .. (IF tx # NilId THEN 1 + 1 ELSE 1)
        /\ \A i \in 1 .. 1 : SentOf(r)[i] = r.args[i]
        /\ tx # NilId => SentOf(r)[1 + 1] = tx
    BY <2>1, <2>2, SentIs
  <2>4. 1 + 1 = 2 /\ 1 \in 1 .. 1
    OBVIOUS
  <2>5. SentOf(r)[1] = ks
    BY <2>1, <2>2, <2>3, <2>4
  <2> QED
    BY <2>3, <2>4, <2>5
<1>9. PICK types : /\ types = Parameters("removeBatch", tx # NilId)
                   /\ types[1] = "bytes32[]" /\ (tx # NilId => types[2] = "bytes16")
  <2>1. (tx # NilId) \in BOOLEAN /\ Arity("removeBatch") = 1
    BY DEF Arity
  <2>2. /\ \A i \in 1 .. 1 : Parameters("removeBatch", tx # NilId)[i] = "bytes32[]"
        /\ tx # NilId => Parameters("removeBatch", tx # NilId)[1 + 1] = "bytes16"
    BY <2>1, BatchTypes
  <2>3. 1 + 1 = 2 /\ 1 \in 1 .. 1
    OBVIOUS
  <2> QED
    BY <2>2, <2>3
<1>10. /\ Agrees(types[1], sent[1], got.args[1])
       /\ tx # NilId => Agrees(types[2], sent[2], got.args[2])
  BY <1>7, <1>8, <1>9, AgreesArray, AgreesTx
<1>11. \A i \in DOMAIN sent : i = 1 \/ (i = 2 /\ tx # NilId)
  BY <1>8
<1>12. r.function = "removeBatch" /\ r.tx = tx
  BY <1>6
<1> QED
  BY <1>1, <1>2, <1>7, <1>8, <1>9, <1>10, <1>11, <1>12 DEF Understood

\* commitAll is understood while its count is one digit.
LEMMA CommitUnderstood ==
  ASSUME NEW tables \in Addresses, Len(tables) < 10, NEW tx \in Tx
  PROVE  Understood(CommitRequest(tables, tx), Decode(Call(CommitRequest(tables, tx))))
<1>1. PICK r : r = CommitRequest(tables, tx)
  OBVIOUS
<1>2. PICK got : got = Decode(Call(r))
  OBVIOUS
<1>3. r = [function |-> "commitAll", args |-> <<tables>>, tx |-> tx]
  BY <1>1 DEF CommitRequest
<1>4. tables \in Seq(Datum)
  BY TablesAre
<1>5. /\ got.function = "commitAll" /\ Len(got.args) = 2 /\ got.args[1] = tx
      /\ got.args[2] = [i \in 1 .. Len(tables) |-> AddressToHex(tables[i])]
  BY <1>2, <1>3, <1>4, DecodeCommit
<1>6. PICK sent : /\ sent = SentOf(r) /\ Len(sent) = 2 /\ DOMAIN sent = 1 .. 2
                  /\ sent[1] = tx /\ sent[2] = tables
  <2>1. SentOf(r) = <<tx>> \o <<tables>>
    BY <1>3 DEF SentOf
  <2>2. PICK c \in Seq({tx, tables}) : c = <<tx>> /\ Len(c) = 1 /\ c[1] = tx
    <3>1. <<tx>> \in Seq({tx, tables}) /\ Len(<<tx>>) = 1 /\ <<tx>>[1] = tx
      OBVIOUS
    <3> QED
      BY <3>1
  <2>3. PICK d \in Seq({tx, tables}) : d = <<tables>> /\ Len(d) = 1 /\ d[1] = tables
    <3>1. <<tables>> \in Seq({tx, tables}) /\ Len(<<tables>>) = 1 /\ <<tables>>[1] = tables
      OBVIOUS
    <3> QED
      BY <3>1
  <2>4. /\ c \o d \in Seq({tx, tables}) /\ Len(c \o d) = Len(c) + Len(d)
        /\ \A i \in 1 .. Len(c) : (c \o d)[i] = c[i]
        /\ \A i \in 1 .. Len(d) : (c \o d)[Len(c) + i] = d[i]
    BY Concat
  <2>5. Len(c \o d) = 2 /\ (c \o d)[1] = tx /\ (c \o d)[2] = tables
    <3>1. 1 \in 1 .. Len(c) /\ 1 \in 1 .. Len(d) /\ Len(c) + 1 = 2 /\ Len(c) + Len(d) = 2
      BY <2>2, <2>3
    <3> QED
      BY <2>2, <2>3, <2>4, <3>1
  <2> QED
    BY <2>1, <2>2, <2>3, <2>4, <2>5
<1>7. PICK types : /\ types = Parameters("commitAll", tx # NilId)
                   /\ types[1] = "bytes16" /\ types[2] = "address[]"
  <2>1. Parameters("commitAll", tx # NilId) = <<"bytes16", "address[]">>
    BY DEF Parameters
  <2>2. <<"bytes16", "address[]">>[1] = "bytes16" /\ <<"bytes16", "address[]">>[2] = "address[]"
    OBVIOUS
  <2> QED
    BY <2>1, <2>2
<1>8. Agrees(types[1], sent[1], got.args[1]) /\ Agrees(types[2], sent[2], got.args[2])
  BY <1>4, <1>5, <1>6, <1>7, AgreesTx, AgreesTables
<1>9. \A i \in DOMAIN sent : i = 1 \/ i = 2
  BY <1>6
<1>10. r.function = "commitAll" /\ r.tx = tx
  BY <1>3
<1> QED
  BY <1>1, <1>2, <1>5, <1>6, <1>7, <1>8, <1>9, <1>10 DEF Understood

\* Commits of nine tables at most, the largest count that prints as one digit.
CommitsSmall == \A tables \in Addresses : Len(tables) < 10

\* Every request that fits is understood.
LEMMA RequestUnderstood ==
  ASSUME NEW r, IsRequest(r), Fits(r), CommitsSmall
  PROVE  Understood(r, Decode(Call(r)))
<1>1. ASSUME NEW w \in Record, NEW tx \in Tx, r = PutRequest(w, tx)
      PROVE  Understood(r, Decode(Call(r)))
  <2>1. <<ExtractKey(w), ExtractValue(w)>> \in Seq(Datum)
    BY <1>1, PutArgs
  <2>2. PICK args \in Seq(Datum) : args = <<ExtractKey(w), ExtractValue(w)>> /\ Len(args) = 2
    BY <2>1
  <2>3. r = [function |-> "put", args |-> args, tx |-> tx]
    BY <1>1, <2>2 DEF PutRequest
  <2>4. r.function = "put" /\ r.args = args /\ r.tx = tx
    BY <2>3
  <2>5. "put" \in Plain /\ Arity("put") = 2
    BY DEF Plain, Arity
  <2> QED
    BY <2>2, <2>3, <2>4, <2>5, PlainUnderstood
<1>2. ASSUME NEW w \in Record, NEW tx \in Tx, NEW function \in {"remove", "get"},
             r = [function |-> function, args |-> <<ExtractKey(w)>>, tx |-> tx]
      PROVE  Understood(r, Decode(Call(r)))
  <2>1. <<ExtractKey(w)>> \in Seq(Datum)
    BY <1>2, KeyArgs
  <2>2. PICK args \in Seq(Datum) : args = <<ExtractKey(w)>> /\ Len(args) = 1
    BY <2>1
  <2>3. r = [function |-> function, args |-> args, tx |-> tx]
    BY <1>2, <2>2
  <2>4. r.function = function /\ r.args = args /\ r.tx = tx
    BY <2>3
  <2>5. function \in Plain /\ Arity(function) = 1
    BY DEF Plain, Arity
  <2> QED
    BY <2>2, <2>3, <2>4, <2>5, PlainUnderstood
<1>3. ASSUME NEW tx \in Tx, NEW function \in {"clean", "tableScan"},
             r = [function |-> function, args |-> <<>>, tx |-> tx]
      PROVE  Understood(r, Decode(Call(r)))
  <2>1. PICK args \in Seq(Datum) : args = <<>> /\ Len(args) = 0
    <3>1. <<>> \in Seq(Datum) /\ Len(<<>>) = 0
      OBVIOUS
    <3> QED
      BY <3>1
  <2>2. r = [function |-> function, args |-> args, tx |-> tx]
    BY <1>3, <2>1
  <2>3. r.function = function /\ r.args = args /\ r.tx = tx
    BY <2>2
  <2>4. function \in Plain /\ Arity(function) = 0
    BY DEF Plain, Arity
  <2> QED
    BY <2>1, <2>2, <2>3, <2>4, PlainUnderstood
<1>4. CASE \E w \in Record, tx \in AnyTx : r = PutRequest(w, tx) \/ r = RemoveRequest(w, tx)
  <2>1. PICK w \in Record, tx \in Tx : r = PutRequest(w, tx) \/ r = RemoveRequest(w, tx)
    BY <1>4, TxTypes
  <2> QED
    BY <1>1, <1>2, <2>1 DEF RemoveRequest
<1>5. CASE \E b \in Batches, tx \in AnyTx : r = PutBatchRequest(b, tx) \/ r = RemoveBatchRequest(b, tx)
  <2>1. PICK b \in Batches, tx \in Tx : r = PutBatchRequest(b, tx) \/ r = RemoveBatchRequest(b, tx)
    BY <1>5, TxTypes
  <2> QED
    BY <2>1, PutBatchUnderstood, RemoveBatchUnderstood
<1>6. CASE \E tx \in TxId : r = CleanRequest(tx)
  BY <1>3, <1>6, TxTypes DEF CleanRequest
<1>7. CASE \E tables \in Addresses, tx \in TxId : r = CommitRequest(tables, tx)
  BY <1>7, TxTypes, CommitUnderstood DEF CommitsSmall
<1>8. CASE \E w \in Record : r = GetRequest(w)
  BY <1>2, <1>8, NilTx DEF GetRequest
<1>9. CASE r = ScanRequest
  BY <1>3, <1>9, NilTx DEF ScanRequest
<1> QED
  BY <1>4, <1>5, <1>6, <1>7, <1>8, <1>9 DEF IsRequest

-----------------------------------------------------------------------------
(***************************************************************************)
(* Answers.                                                                *)
(***************************************************************************)
LEMMA SplitIs ==
  ASSUME NEW words \in Seq(Word)
  PROVE  Split(Joined(words)) = words
<1>1. PICK l \in Nat : l = Len(words)
  OBVIOUS
<1>2. PICK d : d = Joined(words) /\ Len(d) = WordSize * l
  BY <1>1, JoinedWords
<1>3. (WordSize * l) \div WordSize = l
  <2>1. 0 \in 0 .. WordSize - 1
    BY Sizes
  <2>2. (WordSize * l + 0) \div WordSize = l
    BY <2>1, Division, Sizes
  <2>3. WordSize * l + 0 = WordSize * l
    BY Sizes
  <2> QED
    BY <2>2, <2>3
<1>4. Split(d) = [i \in 1 .. l |-> WordAt(d, WordSize * (i - 1))]
  BY <1>2, <1>3 DEF Split
<1>5. \A i \in 1 .. l : WordAt(d, WordSize * (i - 1)) = words[i]
  BY <1>1, <1>2, HeadIs
<1>6. [i \in 1 .. l |-> WordAt(d, WordSize * (i - 1))] = [i \in 1 .. l |-> words[i]]
  BY <1>5, Zenon
<1>7. words = [i \in 1 .. l |-> words[i]]
  BY <1>1
<1> QED
  BY <1>2, <1>4, <1>6, <1>7

\* A word is laid out as itself.
LEMMA WordIsDatum ==
  /\ Word \subseteq Datum
  /\ \A w \in Word : ByteArrayToHex(w) = w
<1>1. ASSUME NEW w \in Word PROVE w \in Datum /\ ByteArrayToHex(w) = w
  <2>1. w \in Seq(Byte) /\ Len(w) = WordSize
    BY Sizes DEF Word
  <2>2. w \in Datum
    BY <2>1, Sizes DEF Datum
  <2>3. ByteArrayToHex(w) \in Word /\ SubSeq(ByteArrayToHex(w), 1, WordSize) = w
    BY <2>1, Padded, Sizes
  <2>4. PICK p \in Word : p = ByteArrayToHex(w)
    BY <2>3
  <2>5. SubSeq(p, 1, WordSize) = p
    BY Sizes DEF Word
  <2> QED
    BY <2>2, <2>3, <2>4, <2>5
<1> QED
  BY <1>1

\* The store has as many keys as the table has rows.
LEMMA MirrorFinite ==
  ASSUME NEW store, NEW rows, Mirror(store, rows)
  PROVE  /\ IsFiniteSet(rows) /\ Cardinality(rows) \in Nat
         /\ IsFiniteSet(DOMAIN store) /\ Cardinality(DOMAIN store) = Cardinality(rows)
         /\ FitsWord(Cardinality(rows))
<1>1. rows \in SUBSET Record /\ IsFiniteSet(Record)
  BY RecordAssumption DEF Mirror
<1>2. IsFiniteSet(rows) /\ Cardinality(rows) <= Cardinality(Record)
  BY <1>1, FS_Subset
<1>3. Cardinality(rows) \in Nat /\ Cardinality(Record) \in Nat
  BY <1>1, <1>2, FS_CardinalityType
<1> DEFINE f == [w \in rows |-> KeyWord(w)]
<1>4. f \in Bijection(rows, DOMAIN store)
  <2>1. DOMAIN store = {KeyWord(w) : w \in rows}
    BY DEF Mirror
  <2>2. f \in [rows -> DOMAIN store] /\ \A w \in rows : f[w] = KeyWord(w)
    BY <2>1
  <2>3. ASSUME NEW v \in rows, NEW w \in rows, f[v] = f[w] PROVE v = w
    <3>1. KeySize <= WordSize /\ v \in Record /\ w \in Record
      BY DEF Mirror
    <3>2. KeyWord(v) = KeyWord(w)
      BY <2>2, <2>3
    <3>3. ExtractKey(v) = ExtractKey(w)
      BY <3>1, <3>2, KeysApart
    <3> QED
      BY <3>3 DEF Mirror
  <2>4. \A k \in DOMAIN store : \E w \in rows : f[w] = k
    BY <2>1, <2>2
  <2> HIDE DEF f
  <2> QED
    BY <2>2, <2>3, <2>4 DEF Bijection, Injection, Surjection, IsInjective
<1>5. ExistsBijection(rows, DOMAIN store)
  BY <1>4 DEF ExistsBijection
<1>6. IsFiniteSet(DOMAIN store) /\ Cardinality(DOMAIN store) = Cardinality(rows)
  BY <1>2, <1>5, FS_Bijection
<1>7. FitsWord(Cardinality(rows))
  BY <1>2, <1>3, FitsLess, NumberAssumption
<1> QED
  BY <1>2, <1>3, <1>6, <1>7

\* A scan names every key once.
LEMMA ScanKeys ==
  ASSUME NEW S, IsFiniteSet(S), NEW keys \in SetToSeqs(S)
  PROVE  /\ keys \in [1 .. Cardinality(S) -> S]
         /\ \A k \in S : \E i \in 1 .. Cardinality(S) : keys[i] = k
<1>1. PICK n \in Nat : n = Cardinality(S)
  BY FS_CardinalityType
<1>2. keys \in [1 .. n -> S] /\ \A i, j \in 1 .. n : i # j => keys[i] # keys[j]
  BY <1>1 DEF SetToSeqs
<1>3. keys \in Injection(1 .. n, S)
  <2>1. DOMAIN keys = 1 .. n
    BY <1>2
  <2>2. IsInjective(keys)
    BY <1>2, <2>1 DEF IsInjective
  <2> QED
    BY <1>2, <2>2 DEF Injection
<1>4. IsFiniteSet(1 .. n) /\ Cardinality(1 .. n) = n
  BY FS_Interval
<1>5. keys \in Surjection(1 .. n, S)
  BY <1>1, <1>3, <1>4, FS_Injection
<1> QED
  BY <1>1, <1>2, <1>5 DEF Surjection

\* The words of a scan's answer.
LEMMA ScanWords ==
  ASSUME NEW n \in Nat, NEW keys \in [1 .. n -> Word], NEW values \in [1 .. n -> Word]
  PROVE  LET words == <<NumericToHex(2 * WordSize), NumericToHex(WordSize * (3 + n))>>
                        \o Counted(keys) \o Counted(values)
         IN  /\ words \in Seq(Word) /\ Len(words) = n + n + 4 /\ words[3] = NumericToHex(n)
             /\ \A i \in 1 .. n : words[3 + i] = keys[i] /\ words[4 + n + i] = values[i]
<1>1. PICK a \in Word : a = NumericToHex(2 * WordSize)
  <2>1. 2 * WordSize \in Nat
    BY Sizes
  <2> QED
    BY <2>1, NumberWord
<1>2. PICK b \in Word : b = NumericToHex(WordSize * (3 + n))
  <2>1. WordSize * (3 + n) \in Nat
    BY Sizes
  <2> QED
    BY <2>1, NumberWord
<1>3. PICK o \in Seq(Word) : o = <<a, b>> /\ Len(o) = 2
  <2>1. <<a, b>> \in Seq(Word) /\ Len(<<a, b>>) = 2
    BY Tuples
  <2> QED
    BY <2>1
<1>4. keys \in Seq(Datum) /\ values \in Seq(Datum) /\ Len(keys) = n /\ Len(values) = n
  BY WordIsDatum
<1>5. PICK k \in Seq(Word) : /\ k = Counted(keys) /\ Len(k) = 1 + n
                             /\ k[1] = NumericToHex(n)
                             /\ \A i \in 1 .. n : k[1 + i] = keys[i]
  <2>1. /\ Counted(keys) \in Seq(Word) /\ Len(Counted(keys)) = 1 + Len(keys)
        /\ Counted(keys)[1] = NumericToHex(Len(keys))
        /\ \A i \in 1 .. Len(keys) : Counted(keys)[1 + i] = ByteArrayToHex(keys[i])
    BY <1>4, CountedIs
  <2>2. \A i \in 1 .. n : ByteArrayToHex(keys[i]) = keys[i]
    BY WordIsDatum
  <2>3. \A i \in 1 .. n : Counted(keys)[1 + i] = keys[i]
    BY <1>4, <2>1, <2>2
  <2> QED
    BY <1>4, <2>1, <2>3
<1>6. PICK v \in Seq(Word) : /\ v = Counted(values) /\ Len(v) = 1 + n
                             /\ \A i \in 1 .. n : v[1 + i] = values[i]
  <2>1. /\ Counted(values) \in Seq(Word) /\ Len(Counted(values)) = 1 + Len(values)
        /\ Counted(values)[1] = NumericToHex(Len(values))
        /\ \A i \in 1 .. Len(values) : Counted(values)[1 + i] = ByteArrayToHex(values[i])
    BY <1>4, CountedIs
  <2>2. \A i \in 1 .. n : ByteArrayToHex(values[i]) = values[i]
    BY WordIsDatum
  <2>3. \A i \in 1 .. n : Counted(values)[1 + i] = values[i]
    BY <1>4, <2>1, <2>2
  <2> QED
    BY <1>4, <2>1, <2>3
<1>7. PICK words \in Seq(Word) :
        /\ words = o \o k \o v /\ Len(words) = Len(o) + Len(k) + Len(v)
        /\ \A i \in 1 .. Len(k) : words[Len(o) + i] = k[i]
        /\ \A i \in 1 .. Len(v) : words[Len(o) + Len(k) + i] = v[i]
  <2>1. /\ o \o k \o v \in Seq(Word) /\ Len(o \o k \o v) = Len(o) + Len(k) + Len(v)
        /\ \A i \in 1 .. Len(k) : (o \o k \o v)[Len(o) + i] = k[i]
        /\ \A i \in 1 .. Len(v) : (o \o k \o v)[Len(o) + Len(k) + i] = v[i]
    BY Concat3
  <2> QED
    BY <2>1
<1>8. Len(words) = n + n + 4
  BY <1>3, <1>5, <1>6, <1>7
<1>9. words[3] = NumericToHex(n)
  <2>1. 1 \in 1 .. Len(k) /\ Len(o) + 1 = 3
    BY <1>3, <1>5
  <2> QED
    BY <1>5, <1>7, <2>1
<1>10. ASSUME NEW i \in 1 .. n PROVE words[3 + i] = keys[i]
  <2>1. 1 + i \in 1 .. Len(k) /\ Len(o) + (1 + i) = 3 + i
    BY <1>3, <1>5
  <2> QED
    BY <1>5, <1>7, <2>1
<1>11. ASSUME NEW i \in 1 .. n PROVE words[4 + n + i] = values[i]
  <2>1. 1 + i \in 1 .. Len(v) /\ Len(o) + Len(k) + (1 + i) = 4 + n + i
    BY <1>3, <1>5, <1>6
  <2> QED
    BY <1>6, <1>7, <2>1
<1> QED
  BY <1>1, <1>2, <1>3, <1>5, <1>6, <1>7, <1>8, <1>9, <1>10, <1>11

\* The rows that are read from such words.
LEMMA ScanRowsAre ==
  ASSUME NEW n \in Nat, FitsWord(n), NEW words \in Seq(Word), Len(words) = n + n + 4,
         words[3] = NumericToHex(n)
  PROVE  /\ Len(ScanRows(words)) = n /\ DOMAIN ScanRows(words) = 1 .. n
         /\ \A i \in 1 .. n : ScanRows(words)[i] =
              FindRow(SubSeq(words[3 + i], 1, KeySize) \o SubSeq(words[4 + n + i], 1, ValueSize))
<1>1. ResultsSize(words) = n
  <2>1. Len(words) > 2
    OBVIOUS
  <2>2. words[2 + 1] = NumericToHex(n)
    <3>1. 2 + 1 = 3
      OBVIOUS
    <3> QED
      BY <3>1
  <2>3. Number(words[2 + 1]) = n
    BY <2>2, NumberIs
  <2> QED
    BY <2>1, <2>3 DEF ResultsSize
<1>2. ScanRows(words) = [m \in 1 .. n |-> FindRow(ScanTuple(words, m + 2))]
  BY <1>1 DEF ScanRows
<1>3. ASSUME NEW i \in 1 .. n
      PROVE  ScanTuple(words, i + 2) =
               SubSeq(words[3 + i], 1, KeySize) \o SubSeq(words[4 + n + i], 1, ValueSize)
  <2>1. (i + 2) + 1 = 3 + i /\ ((i + 2) + n + 1) + 1 = 4 + n + i
    OBVIOUS
  <2> QED
    BY <1>1, <2>1 DEF ScanTuple
<1>4. \A i \in 1 .. n : ScanRows(words)[i] =
        FindRow(SubSeq(words[3 + i], 1, KeySize) \o SubSeq(words[4 + n + i], 1, ValueSize))
  <2>1. \A i \in 1 .. n : ScanRows(words)[i] = FindRow(ScanTuple(words, i + 2))
    BY <1>2
  <2> QED
    BY <1>3, <2>1
<1>5. Len(ScanRows(words)) = n /\ DOMAIN ScanRows(words) = 1 .. n
  BY <1>2
<1> QED
  BY <1>4, <1>5

\* A scan of the contract's words shows the rows they mirror.
LEMMA ScanIs ==
  ASSUME NEW store, NEW rows, Mirror(store, rows), NEW keys \in SetToSeqs(DOMAIN store)
  PROVE  LET shown == ScanRows(Split(ScanAnswer(store, keys)))
         IN  /\ Len(shown) = Cardinality(rows) /\ DOMAIN shown = 1 .. Cardinality(rows)
             /\ \A i \in DOMAIN shown : \E w \in rows : shown[i] = Shown(w)
             /\ \A w \in rows : \E i \in DOMAIN shown : shown[i] = Shown(w)
<1>1. PICK n \in Nat : n = Cardinality(rows) /\ n = Cardinality(DOMAIN store) /\ FitsWord(n)
  BY MirrorFinite
<1>2. keys \in [1 .. n -> DOMAIN store] /\ \A k \in DOMAIN store : \E i \in 1 .. n : keys[i] = k
  BY <1>1, MirrorFinite, ScanKeys
<1>3. ASSUME NEW w \in rows
      PROVE  /\ KeyWord(w) \in Word /\ ValueWord(w) \in Word /\ KeyWord(w) \in DOMAIN store
             /\ store[KeyWord(w)] = ValueWord(w)
             /\ SubSeq(KeyWord(w), 1, KeySize) = ExtractKey(w)
             /\ SubSeq(ValueWord(w), 1, ValueSize) = ExtractValue(w)
  <2>1. w \in Record /\ KeySize <= WordSize /\ ValueSize <= WordSize
    BY DEF Mirror
  <2>2. KeyWord(w) \in DOMAIN store /\ store[KeyWord(w)] = ValueWord(w)
    BY DEF Mirror
  <2> QED
    BY <2>1, <2>2, RecordWords
<1>4. \A k \in DOMAIN store : \E w \in rows : k = KeyWord(w)
  BY DEF Mirror
<1>5. PICK values : values = [i \in 1 .. n |-> store[keys[i]]]
  OBVIOUS
<1>6. ASSUME NEW i \in 1 .. n
      PROVE  \E w \in rows : keys[i] = KeyWord(w) /\ values[i] = ValueWord(w)
  <2>1. keys[i] \in DOMAIN store
    BY <1>2
  <2>2. PICK w \in rows : keys[i] = KeyWord(w)
    BY <1>4, <2>1
  <2>3. values[i] = ValueWord(w)
    BY <1>3, <1>5, <2>2
  <2> QED
    BY <2>2, <2>3
<1>7. keys \in [1 .. n -> Word] /\ values \in [1 .. n -> Word]
  <2>1. \A i \in 1 .. n : keys[i] \in Word /\ values[i] \in Word
    BY <1>3, <1>6
  <2> QED
    BY <1>2, <1>5, <2>1
<1>8. PICK words : words = <<NumericToHex(2 * WordSize), NumericToHex(WordSize * (3 + n))>>
                             \o Counted(keys) \o Counted(values)
  OBVIOUS
<1>9. /\ words \in Seq(Word) /\ Len(words) = n + n + 4 /\ words[3] = NumericToHex(n)
      /\ \A i \in 1 .. n : words[3 + i] = keys[i] /\ words[4 + n + i] = values[i]
  <2>1. LET w == <<NumericToHex(2 * WordSize), NumericToHex(WordSize * (3 + n))>>
                   \o Counted(keys) \o Counted(values)
        IN  /\ w \in Seq(Word) /\ Len(w) = n + n + 4 /\ w[3] = NumericToHex(n)
            /\ \A i \in 1 .. n : w[3 + i] = keys[i] /\ w[4 + n + i] = values[i]
    BY <1>7, ScanWords
  <2> QED
    BY <1>8, <2>1
<1>10. ScanAnswer(store, keys) = Joined(words)
  <2>1. Len(keys) = n /\ DOMAIN keys = 1 .. n
    BY <1>2
  <2> QED
    BY <1>5, <1>8, <2>1 DEF ScanAnswer
<1>11. PICK shown : shown = ScanRows(Split(ScanAnswer(store, keys)))
  OBVIOUS
<1>12. shown = ScanRows(words)
  BY <1>9, <1>10, <1>11, SplitIs
<1>13. /\ Len(shown) = n /\ DOMAIN shown = 1 .. n
       /\ \A i \in 1 .. n : shown[i] =
            FindRow(SubSeq(words[3 + i], 1, KeySize) \o SubSeq(words[4 + n + i], 1, ValueSize))
  BY <1>1, <1>9, <1>12, ScanRowsAre
<1>14. ASSUME NEW i \in 1 .. n, NEW w \in rows, keys[i] = KeyWord(w), values[i] = ValueWord(w)
       PROVE  shown[i] = Shown(w)
  <2>1. words[3 + i] = KeyWord(w) /\ words[4 + n + i] = ValueWord(w)
    BY <1>9, <1>14
  <2> QED
    BY <1>3, <1>13, <2>1 DEF Shown
<1>15. \A i \in 1 .. n : \E w \in rows : shown[i] = Shown(w)
  BY <1>6, <1>14
<1>16. ASSUME NEW w \in rows PROVE \E i \in 1 .. n : shown[i] = Shown(w)
  <2>1. PICK i \in 1 .. n : keys[i] = KeyWord(w)
    BY <1>2, <1>3
  <2>2. values[i] = ValueWord(w)
    BY <1>3, <1>5, <2>1
  <2> QED
    BY <1>14, <2>1, <2>2
<1> QED
  BY <1>1, <1>11, <1>13, <1>15, <1>16

\* A lookup shows the row of the key, or zeros.
LEMMA LookupIs ==
  ASSUME NEW store, NEW rows, Mirror(store, rows), NEW v \in Record, KeySize <= WordSize
  PROVE  LET shown == IndexRow(ExtractKey(v), GetAnswer(store, KeyWord(v)))
         IN  /\ \A w \in rows : ExtractKey(w) = ExtractKey(v) => shown = Shown(w)
             /\ (\A w \in rows : ExtractKey(w) # ExtractKey(v)) =>
                  shown = FindRow(Zeros(KeySize + ValueSize))
<1>1. rows \subseteq Record /\ DOMAIN store = {KeyWord(w) : w \in rows}
  BY DEF Mirror
<1>2. \A w \in rows : KeyWord(w) = KeyWord(v) <=> ExtractKey(w) = ExtractKey(v)
  BY <1>1, KeysApart
<1>3. ASSUME NEW w \in rows, ExtractKey(w) = ExtractKey(v)
      PROVE  IndexRow(ExtractKey(v), GetAnswer(store, KeyWord(v))) = Shown(w)
  <2>1. ValueSize <= WordSize /\ w \in Record
    BY <1>1 DEF Mirror
  <2>2. KeyWord(v) \in DOMAIN store /\ store[KeyWord(v)] = ValueWord(w)
    BY <1>1, <1>2, <1>3 DEF Mirror
  <2>3. PICK x \in Word : x = ValueWord(w) /\ SubSeq(x, 1, ValueSize) = ExtractValue(w)
    BY <2>1, RecordWords
  <2>4. PICK y \in Word : y = NumericToHex(1)
    BY NumberWord
  <2>5. PICK a : a = x \o y
    OBVIOUS
  <2>6. GetAnswer(store, KeyWord(v)) = a
    BY <2>2, <2>3, <2>4, <2>5 DEF GetAnswer
  <2>7. x \in Seq(Byte) /\ y \in Seq(Byte) /\ Len(x) = WordSize
    BY Sizes DEF Word
  <2>8. a \in Seq(Byte) /\ Len(a) = Len(x) + Len(y) /\ \A i \in 1 .. Len(x) : a[i] = x[i]
    BY <2>5, <2>7, Concat
  <2>9. a # <<>>
    BY <2>7, <2>8, Sizes
  <2>10. SubSeq(a, 1, ValueSize) = SubSeq(x, 1, ValueSize)
    <3>1. \A i \in 1 .. ValueSize : i \in 1 .. Len(x) /\ a[i] = x[i]
      BY <2>1, <2>7, <2>8, Sizes
    <3>2. SubSeq(a, 1, ValueSize) = [i \in 1 .. ValueSize |-> a[i]]
      BY Sizes
    <3>3. SubSeq(x, 1, ValueSize) = [i \in 1 .. ValueSize |-> x[i]]
      BY Sizes
    <3>4. [i \in 1 .. ValueSize |-> a[i]] = [i \in 1 .. ValueSize |-> x[i]]
      BY <3>1, Zenon
    <3> QED
      BY <3>2, <3>3, <3>4
  <2>11. IndexRow(ExtractKey(v), a) = FindRow(ExtractKey(w) \o ExtractValue(w))
    BY <1>3, <2>3, <2>9, <2>10 DEF IndexRow
  <2> QED
    BY <2>6, <2>11 DEF Shown
<1>4. ASSUME \A w \in rows : ExtractKey(w) # ExtractKey(v)
      PROVE  IndexRow(ExtractKey(v), GetAnswer(store, KeyWord(v))) = FindRow(Zeros(KeySize + ValueSize))
  <2>1. KeyWord(v) \notin DOMAIN store
    BY <1>1, <1>2, <1>4
  <2> QED
    BY <2>1 DEF GetAnswer, IndexRow
<1> QED
  BY <1>3, <1>4

\* The row of zeros that a failed lookup leaves.
LEMMA ZeroRow ==
  /\ FindRow(Zeros(KeySize + ValueSize)) = Zeros(RecordSize)
  /\ Zeros(RecordSize) \in Seq(Byte) /\ Len(Zeros(RecordSize)) = RecordSize
<1>1. PICK m \in Nat : m = KeySize + ValueSize /\ NullBytes + m = RecordSize
  BY Sizes
<1>2. PICK z \in Seq(Byte) : z = Zeros(m) /\ Len(z) = m /\ \A i \in 1 .. m : z[i] = 0
  BY ZerosAre
<1>3. PICK t \in Seq(Byte) : /\ t = Zeros(RecordSize) /\ Len(t) = RecordSize
                             /\ \A i \in 1 .. RecordSize : t[i] = 0
  <2>1. RecordSize \in Int /\ RecordSize >= 0
    BY Sizes
  <2> QED
    BY <2>1, ZerosAre
<1>4. PICK s \in Seq(Byte) : /\ s = FindRow(z) /\ Len(s) = RecordSize
                             /\ \A i \in 1 .. NullBytes : s[i] = 0
                             /\ \A i \in 1 .. m : s[NullBytes + i] = z[i]
  BY <1>1, <1>2, FindRowIs
<1>5. ASSUME NEW j \in 1 .. RecordSize PROVE s[j] = 0
  <2>1. CASE j <= NullBytes
    BY <1>4, <2>1, Sizes
  <2>2. CASE j > NullBytes
    <3>1. PICK i \in 1 .. m : j = NullBytes + i
      <4>1. j - NullBytes \in 1 .. m /\ j = NullBytes + (j - NullBytes)
        BY <1>1, <2>2, Sizes
      <4> QED
        BY <4>1
    <3> QED
      BY <1>2, <1>4, <3>1
  <2> QED
    BY <2>1, <2>2, Sizes
<1>6. s = t
  BY <1>3, <1>4, <1>5, Sizes
<1> QED
  BY <1>1, <1>2, <1>3, <1>4, <1>6

-----------------------------------------------------------------------------
(***************************************************************************)
(* The inductive invariant.                                                *)
(***************************************************************************)
NoCall == [function |-> "none", hasTx |-> FALSE, data |-> <<>>]

PhaseInv == phase \in {"ready", "sent", "answered", "aborted"}

\* What was sent is the call of the request, and the request is one the
\* handler makes.
CallInv ==
  \/ request = Nothing /\ phase = "ready" /\ calldata = NoCall
  \/ /\ IsRequest(request) /\ calldata = Call(request)
     /\ phase # "aborted" => Fits(request)

ReceivedInv ==
  phase \in {"ready", "answered"} /\ request # Nothing =>
    received = Decode(calldata) \/ received = Lost

\* The contract holds a word for each row, or will once the call is received.
StoreInv ==
  /\ written \subseteq Record
  /\ \A k \in DOMAIN stored : k \in Word /\ stored[k] \in Word
  /\ phase \in {"ready", "answered"} => Mirror(stored, written)
  /\ phase = "sent" => Mirror(Stored(stored, Decode(calldata)), written)

IsAnswer(r, got, store, bytes) ==
  IF got = Lost THEN bytes = <<>>
  ELSE IF r.function = "get" THEN bytes = GetAnswer(store, ByteArrayToHex(r.args[1]))
  ELSE \E keys \in SetToSeqs(DOMAIN store) : bytes = ScanAnswer(store, keys)

AnswerInv ==
  /\ phase = "sent" => answer = <<>>
  /\ phase = "answered" => /\ IsRead(request.function)
                           /\ IsAnswer(request, received, stored, answer)

ZeroedRow == Zeros(RecordSize)

RowsShown(rows) == {Shown(w) : w \in rows}

ResultInv == \A i \in DOMAIN result : result[i] \in RowsShown(Record) \cup {ZeroedRow}

\* What a read shows, whatever the NULL flags of the rows were.
IsShown(r, got, rows, shown) ==
  IF got = Lost THEN Range(shown) \subseteq {ZeroedRow}
  ELSE IF r.function = "tableScan"
    THEN Range(shown) = RowsShown(rows) /\ Len(shown) = Cardinality(rows)
    ELSE LET found == {w \in rows : ExtractKey(w) = r.args[1]}
         IN  Range(shown) = IF found = {} THEN {ZeroedRow} ELSE RowsShown(found)

ReadInv == phase = "ready" /\ IsRead(request.function) =>
             IsShown(request, received, written, result)

IInv ==
  /\ PhaseInv
  /\ CallInv
  /\ ReceivedInv
  /\ StoreInv
  /\ AnswerInv
  /\ ResultInv
  /\ ReadInv

-----------------------------------------------------------------------------
\* The contract holds words.
LEMMA MirrorWords ==
  ASSUME NEW store, NEW rows, Mirror(store, rows)
  PROVE  \A k \in DOMAIN store : k \in Word /\ store[k] \in Word
<1>1. ASSUME NEW k \in DOMAIN store PROVE k \in Word /\ store[k] \in Word
  <2>1. PICK w \in rows : k = KeyWord(w)
    BY DEF Mirror
  <2>2. w \in Record /\ KeySize <= WordSize /\ ValueSize <= WordSize /\ store[k] = ValueWord(w)
    BY <2>1 DEF Mirror
  <2> QED
    BY <2>1, <2>2, RecordWords
<1> QED
  BY <1>1

\* What is written are rows.
LEMMA WrittenAreRows ==
  ASSUME NEW r, NEW records, \A i \in DOMAIN records : records[i] \in Record,
         written \subseteq Record
  PROVE  Written(r, records) \subseteq Record
<1>1. Latest(records) \subseteq Record
  BY DEF Latest
<1>2. \/ Written(r, records) = written
      \/ \E S : Written(r, records) = {w \in written : ExtractKey(w) \notin S} \cup Latest(records)
  BY DEF Written, Latest
<1> QED
  BY <1>1, <1>2

\* What the handler sends is a request, and the rows it adds are rows.
SendOk(r, records) ==
  /\ IsRequest(r)
  /\ \A i \in DOMAIN records : records[i] \in Record
  /\ Fits(r) /\ Mirror(stored, written) =>
       Mirror(Stored(stored, Decode(Call(r))), Written(r, records))

\* write_row, update_row and delete_row.
LEMMA PutSends ==
  ASSUME NEW w \in Record, NEW tx \in AnyTx
  PROVE  SendOk(PutRequest(w, tx), <<w>>) /\ SendOk(RemoveRequest(w, tx), <<>>)
<1>1. tx \in Tx
  BY TxTypes
<1>2. IsRequest(PutRequest(w, tx)) /\ IsRequest(RemoveRequest(w, tx))
  BY DEF IsRequest
<1>3. Fits(PutRequest(w, tx)) /\ Mirror(stored, written) =>
        Mirror(Stored(stored, Decode(Call(PutRequest(w, tx)))), Written(PutRequest(w, tx), <<w>>))
  BY <1>1, PutMirrors
<1>4. Fits(RemoveRequest(w, tx)) /\ Mirror(stored, written) =>
        Mirror(Stored(stored, Decode(Call(RemoveRequest(w, tx)))), Written(RemoveRequest(w, tx), <<>>))
  BY <1>1, RemoveMirrors
<1>5. /\ \A i \in DOMAIN <<w>> : <<w>>[i] \in Record
      /\ \A i \in DOMAIN <<>> : <<>>[i] \in Record
  OBVIOUS
<1> QED
  BY <1>2, <1>3, <1>4, <1>5 DEF SendOk

\* The batches of the workers.
LEMMA BatchSends ==
  ASSUME NEW b \in Batches, NEW tx \in AnyTx
  PROVE  SendOk(PutBatchRequest(b, tx), b) /\ SendOk(RemoveBatchRequest(b, tx), <<>>)
<1>1. tx \in Tx
  BY TxTypes
<1>2. IsRequest(PutBatchRequest(b, tx)) /\ IsRequest(RemoveBatchRequest(b, tx))
  BY DEF IsRequest
<1>3. Fits(PutBatchRequest(b, tx)) /\ Mirror(stored, written) =>
        Mirror(Stored(stored, Decode(Call(PutBatchRequest(b, tx)))), Written(PutBatchRequest(b, tx), b))
  BY <1>1, PutBatchMirrors
<1>4. Fits(RemoveBatchRequest(b, tx)) /\ Mirror(stored, written) =>
        Mirror(Stored(stored, Decode(Call(RemoveBatchRequest(b, tx)))),
               Written(RemoveBatchRequest(b, tx), <<>>))
  BY <1>1, RemoveBatchMirrors
<1>5. /\ \A i \in DOMAIN b : b[i] \in Record
      /\ \A i \in DOMAIN <<>> : <<>>[i] \in Record
  BY DEF Batches
<1> QED
  BY <1>2, <1>3, <1>4, <1>5 DEF SendOk

\* The calls that change no row.
LEMMA OtherSends ==
  ASSUME NEW r, IsRequest(r), r.function \in {"clean", "commitAll", "get", "tableScan"}
  PROVE  SendOk(r, <<>>)
<1>1. Mirror(stored, written) => Mirror(Stored(stored, Decode(Call(r))), Written(r, <<>>))
  BY OthersMirror
<1>2. \A i \in DOMAIN <<>> : <<>>[i] \in Record
  OBVIOUS
<1> QED
  BY <1>1, <1>2 DEF SendOk

\* A step sends a request, or receives, loses or reads an answer.
LEMMA NextCases ==
  ASSUME Next
  PROVE  \/ \E r, records : Send(r, records) /\ SendOk(r, records)
         \/ Receive \/ LoseRead \/ Read
<1>1. ASSUME NEW w \in Record, NEW tx \in AnyTx, Put(w, tx)
      PROVE  \E r, records : Send(r, records) /\ SendOk(r, records)
  <2>1. Send(PutRequest(w, tx), <<w>>)
    BY <1>1 DEF Put, PutRequest
  <2> QED
    BY <2>1, PutSends
<1>2. ASSUME NEW w \in Record, NEW tx \in AnyTx, RemoveKey(w, tx)
      PROVE  \E r, records : Send(r, records) /\ SendOk(r, records)
  <2>1. Send(RemoveRequest(w, tx), <<>>)
    BY <1>2 DEF RemoveKey, RemoveRequest
  <2> QED
    BY <2>1, PutSends
<1>3. ASSUME NEW b \in Batches, NEW tx \in AnyTx, PutBatch(b, tx)
      PROVE  \E r, records : Send(r, records) /\ SendOk(r, records)
  <2>1. Send(PutBatchRequest(b, tx), b)
    BY <1>3 DEF PutBatch, PutBatchRequest
  <2> QED
    BY <2>1, BatchSends
<1>4. ASSUME NEW b \in Batches, NEW tx \in AnyTx, RemoveBatch(b, tx)
      PROVE  \E r, records : Send(r, records) /\ SendOk(r, records)
  <2>1. Send(RemoveBatchRequest(b, tx), <<>>)
    BY <1>4 DEF RemoveBatch, RemoveBatchRequest
  <2> QED
    BY <2>1, BatchSends
<1>5. ASSUME NEW tx \in TxId, ClearCommitPrepare(tx)
      PROVE  \E r, records : Send(r, records) /\ SendOk(r, records)
  <2>1. Send(CleanRequest(tx), <<>>)
    BY <1>5 DEF ClearCommitPrepare, CleanRequest
  <2>2. IsRequest(CleanRequest(tx)) /\ CleanRequest(tx).function = "clean"
    BY DEF IsRequest, CleanRequest
  <2> QED
    BY <2>1, <2>2, OtherSends
<1>6. ASSUME NEW tables \in Addresses, NEW tx \in TxId, AtomicCommit(tables, tx)
      PROVE  \E r, records : Send(r, records) /\ SendOk(r, records)
  <2>1. Send(CommitRequest(tables, tx), <<>>)
    BY <1>6 DEF AtomicCommit, CommitRequest
  <2>2. IsRequest(CommitRequest(tables, tx)) /\ CommitRequest(tables, tx).function = "commitAll"
    BY DEF IsRequest, CommitRequest
  <2> QED
    BY <2>1, <2>2, OtherSends
<1>7. ASSUME NEW w \in Record, Get(w)
      PROVE  \E r, records : Send(r, records) /\ SendOk(r, records)
  <2>1. Send(GetRequest(w), <<>>)
    BY <1>7 DEF Get, GetRequest
  <2>2. IsRequest(GetRequest(w)) /\ GetRequest(w).function = "get"
    BY DEF IsRequest, GetRequest
  <2> QED
    BY <2>1, <2>2, OtherSends
<1>8. ASSUME TableScan
      PROVE  \E r, records : Send(r, records) /\ SendOk(r, records)
  <2>1. Send(ScanRequest, <<>>)
    BY <1>8 DEF TableScan, ScanRequest
  <2>2. IsRequest(ScanRequest) /\ ScanRequest.function = "tableScan"
    BY DEF IsRequest, ScanRequest
  <2> QED
    BY <2>1, <2>2, OtherSends
<1> QED
  BY <1>1, <1>2, <1>3, <1>4, <1>5, <1>6, <1>7, <1>8 DEF Next

-----------------------------------------------------------------------------
(***************************************************************************)
(* The invariant holds at first, and every step keeps it.                  *)
(***************************************************************************)
LEMMA RequestFunctions ==
  ASSUME NEW r, IsRequest(r)
  PROVE  /\ r # Nothing
         /\ IsRead(r.function) => (\E w \in Record : r = GetRequest(w)) \/ r = ScanRequest
         /\ Call(r).function = r.function
<1>1. CASE \E w \in Record, tx \in AnyTx : r = PutRequest(w, tx) \/ r = RemoveRequest(w, tx)
  <2>1. r.function \in {"put", "remove"}
    BY <1>1 DEF PutRequest, RemoveRequest
  <2> QED
    BY <2>1 DEF Nothing, IsRead, Call
<1>2. CASE \E b \in Batches, tx \in AnyTx : r = PutBatchRequest(b, tx) \/ r = RemoveBatchRequest(b, tx)
  <2>1. r.function \in {"putBatch", "removeBatch"}
    BY <1>2 DEF PutBatchRequest, RemoveBatchRequest
  <2> QED
    BY <2>1 DEF Nothing, IsRead, Call
<1>3. CASE \E tx \in TxId : r = CleanRequest(tx)
  <2>1. r.function = "clean"
    BY <1>3 DEF CleanRequest
  <2> QED
    BY <2>1 DEF Nothing, IsRead, Call
<1>4. CASE \E tables \in Addresses, tx \in TxId : r = CommitRequest(tables, tx)
  <2>1. r.function = "commitAll"
    BY <1>4 DEF CommitRequest
  <2> QED
    BY <2>1 DEF Nothing, IsRead, Call
<1>5. CASE \E w \in Record : r = GetRequest(w)
  <2>1. r.function = "get"
    BY <1>5 DEF GetRequest
  <2> QED
    BY <1>5, <2>1 DEF Nothing, IsRead, Call
<1>6. CASE r = ScanRequest
  <2>1. r.function = "tableScan"
    BY <1>6 DEF ScanRequest
  <2> QED
    BY <1>6, <2>1 DEF Nothing, IsRead, Call
<1> QED
  BY <1>1, <1>2, <1>3, <1>4, <1>5, <1>6 DEF IsRequest

\* The invariant holds at first.
LEMMA InitIInv == Init => IInv
<1> SUFFICES ASSUME Init PROVE IInv
  OBVIOUS
<1>1. PhaseInv /\ CallInv
  BY DEF Init, PhaseInv, CallInv, NoCall
<1>2. ReceivedInv
  BY DEF Init, ReceivedInv
<1>3. StoreInv
  <2>1. stored = <<>> /\ written = {} /\ phase = "ready"
    BY DEF Init
  <2>2. DOMAIN <<>> = {}
    OBVIOUS
  <2>3. Mirror(<<>>, {})
    BY <2>2 DEF Mirror
  <2> QED
    BY <2>1, <2>2, <2>3 DEF StoreInv
<1>4. AnswerInv
  BY DEF Init, AnswerInv
<1>5. ResultInv
  <2>1. result = <<>>
    BY DEF Init
  <2>2. DOMAIN <<>> = {}
    OBVIOUS
  <2> QED
    BY <2>1, <2>2 DEF ResultInv
<1>6. ReadInv
  <2>1. request.function = "none"
    BY DEF Init, Nothing
  <2> QED
    BY <2>1 DEF ReadInv, IsRead
<1> QED
  BY <1>1, <1>2, <1>3, <1>4, <1>5, <1>6 DEF IInv

\* It holds when a request is sent,
LEMMA SendIInv ==
  ASSUME IInv, NEW r, NEW records, Send(r, records), SendOk(r, records)
  PROVE  IInv'
<1>1. /\ phase = "ready" /\ request' = r /\ stored' = stored /\ answer' = <<>> /\ result' = <<>>
      /\ calldata' = Call(r) /\ phase' = (IF Fits(r) THEN "sent" ELSE "aborted")
      /\ written' = Written(r, records)
  BY DEF Send, Call
<1>2. phase' \in {"sent", "aborted"} /\ (phase' = "sent" => Fits(r))
  BY <1>1
<1>3. IsRequest(r)
  BY DEF SendOk
<1>4. PhaseInv'
  BY <1>2 DEF PhaseInv
<1>5. CallInv'
  <2>1. IsRequest(request)' /\ calldata' = Call(request)'
    BY <1>1, <1>3
  <2>2. (phase # "aborted" => Fits(request))'
    BY <1>1, <1>2
  <2> QED
    BY <2>1, <2>2 DEF CallInv
<1>6. ReceivedInv'
  BY <1>2 DEF ReceivedInv
<1>7. StoreInv'
  <2>1. written \subseteq Record /\ Mirror(stored, written)
    BY <1>1 DEF IInv, StoreInv
  <2>2. written' \subseteq Record
    BY <1>1, <2>1, WrittenAreRows DEF SendOk
  <2>3. (\A k \in DOMAIN stored : k \in Word /\ stored[k] \in Word)'
    BY <1>1 DEF IInv, StoreInv
  <2>4. ASSUME phase' = "sent"
        PROVE  Mirror(Stored(stored, Decode(calldata)), written)'
    <3>1. Mirror(Stored(stored, Decode(Call(r))), Written(r, records))
      BY <1>2, <2>1, <2>4 DEF SendOk
    <3> QED
      BY <1>1, <3>1
  <2> QED
    BY <1>2, <2>2, <2>3, <2>4 DEF StoreInv
<1>8. AnswerInv'
  BY <1>1, <1>2 DEF AnswerInv
<1>9. ResultInv'
  <2>1. DOMAIN <<>> = {}
    OBVIOUS
  <2> QED
    BY <1>1, <2>1 DEF ResultInv
<1>10. ReadInv'
  BY <1>2 DEF ReadInv
<1> QED
  BY <1>4, <1>5, <1>6, <1>7, <1>8, <1>9, <1>10 DEF IInv

\* How the contract takes the two reads.
LEMMA GetDecoded ==
  ASSUME NEW w \in Record, Fits(GetRequest(w))
  PROVE  /\ KeySize <= WordSize
         /\ Decode(Call(GetRequest(w))).function = "get"
         /\ Decode(Call(GetRequest(w))).args[1] = KeyWord(w)
<1>1. KeySize <= WordSize /\ <<ExtractKey(w)>> \in Seq(Datum)
  BY KeyArgs DEF GetRequest
<1>2. PICK k : k = ExtractKey(w)
  OBVIOUS
<1>3. LET got == Decode(Call([function |-> "get", args |-> <<k>>, tx |-> NilId]))
      IN  got.function = "get" /\ got.args[1] = ByteArrayToHex(k)
  BY <1>1, <1>2, NilTx, DecodeOne
<1> QED
  BY <1>1, <1>2, <1>3 DEF GetRequest, KeyWord

\* A scan has no arguments.
LEMMA ScanDecoded == Decode(Call(ScanRequest)).function = "tableScan"
<1>1. <<>> \in Seq(Datum)
  OBVIOUS
<1>2. Len(<<>>) = Arity("tableScan") /\ "tableScan" \in Plain
  BY DEF Arity, Plain
<1>3. PlainDecoded(Decode(Call([function |-> "tableScan", args |-> <<>>, tx |-> NilId])),
                   "tableScan", <<>>, NilId)
  BY <1>1, <1>2, NilTx, DecodePlain
<1> QED
  BY <1>3 DEF PlainDecoded, ScanRequest

\* A read leaves the store alone.
LEMMA ReadsStore ==
  ASSUME NEW got, got.function \in {"get", "tableScan"}, NEW store
  PROVE  Stored(store, got) = store /\ got # Lost
BY DEF Stored, Lost

\* The contract takes either read for what it is.
LEMMA ReadDecoded ==
  ASSUME NEW r, IsRequest(r), IsRead(r.function), Fits(r)
  PROVE  /\ Decode(Call(r)).function = r.function /\ r.function \in {"get", "tableScan"}
         /\ r.function = "get" =>
              Decode(Call(r)).args[1] = ByteArrayToHex(r.args[1])
<1>1. CASE \E w \in Record : r = GetRequest(w)
  <2>1. PICK w \in Record : r = GetRequest(w)
    BY <1>1
  <2>2. r.function = "get" /\ r.args[1] = ExtractKey(w)
    BY <2>1 DEF GetRequest
  <2>3. Decode(Call(r)).function = "get" /\ Decode(Call(r)).args[1] = KeyWord(w)
    BY <2>1, GetDecoded
  <2> QED
    BY <2>2, <2>3 DEF KeyWord
<1>2. CASE r = ScanRequest
  <2>1. r.function = "tableScan"
    BY <1>2 DEF ScanRequest
  <2>2. Decode(Call(r)).function = "tableScan"
    BY <1>2, ScanDecoded
  <2> QED
    BY <2>1, <2>2
<1> QED
  BY <1>1, <1>2, RequestFunctions

\* when the contract receives the call,
LEMMA ReceiveIInv ==
  ASSUME IInv, Receive
  PROVE  IInv'
<1>1. /\ phase = "sent" /\ received' = Decode(calldata)
      /\ stored' = Stored(stored, Decode(calldata))
      /\ request' = request /\ calldata' = calldata /\ result' = result /\ written' = written
      /\ phase' = (IF IsRead(calldata.function) THEN "answered" ELSE "ready")
  BY DEF Receive
<1>2. IsRequest(request) /\ calldata = Call(request) /\ Fits(request)
  BY <1>1 DEF IInv, CallInv
<1>3. calldata.function = request.function
  BY <1>2, RequestFunctions
<1>4. phase' \in {"answered", "ready"} /\ (phase' = "answered" <=> IsRead(request.function))
  BY <1>1, <1>3
<1>5. PhaseInv'
  BY <1>4 DEF PhaseInv
<1>6. CallInv'
  <2>1. (IsRequest(request) /\ calldata = Call(request) /\ Fits(request))'
    BY <1>1, <1>2
  <2> QED
    BY <2>1 DEF CallInv
<1>7. ReceivedInv'
  BY <1>1 DEF ReceivedInv
<1>8. StoreInv'
  <2>1. written \subseteq Record /\ Mirror(Stored(stored, Decode(calldata)), written)
    BY <1>1 DEF IInv, StoreInv
  <2>2. Mirror(stored, written)'
    BY <1>1, <2>1
  <2>3. (\A k \in DOMAIN stored : k \in Word /\ stored[k] \in Word)'
    BY <2>2, MirrorWords
  <2>4. (written \subseteq Record)'
    BY <1>1, <2>1
  <2> QED
    BY <1>4, <2>2, <2>3, <2>4 DEF StoreInv
<1>9. AnswerInv'
  <2> SUFFICES ASSUME phase' = "answered"
               PROVE  IsRead(request.function)' /\ IsAnswer(request, received, stored, answer)'
    BY <1>4 DEF AnswerInv
  <2>1. IsRead(request.function)
    BY <1>4
  <2>2. /\ received'.function = request.function /\ request.function \in {"get", "tableScan"}
        /\ request.function = "get" => received'.args[1] = ByteArrayToHex(request.args[1])
    BY <1>1, <1>2, <2>1, ReadDecoded
  <2>3. stored' = stored /\ received' # Lost
    BY <1>1, <2>2, ReadsStore
  <2>4. CASE request.function = "get"
    <3>1. answer' = GetAnswer(stored, ByteArrayToHex(request.args[1]))
      BY <2>2, <2>4 DEF Receive
    <3> QED
      BY <1>1, <2>1, <2>3, <2>4, <3>1 DEF IsAnswer
  <2>5. CASE request.function = "tableScan"
    <3>1. \E keys \in SetToSeqs(DOMAIN stored) : answer' = ScanAnswer(stored, keys)
      BY <2>2, <2>5 DEF Receive
    <3> QED
      BY <1>1, <2>1, <2>3, <2>5, <3>1 DEF IsAnswer
  <2> QED
    BY <2>2, <2>4, <2>5
<1>10. ResultInv'
  BY <1>1 DEF IInv, ResultInv
<1>11. ReadInv'
  BY <1>1, <1>4 DEF ReadInv
<1> QED
  BY <1>5, <1>6, <1>7, <1>8, <1>9, <1>10, <1>11 DEF IInv

\* and when the answer of a read is lost.
LEMMA LoseReadIInv ==
  ASSUME IInv, LoseRead
  PROVE  IInv'
<1>1. /\ phase = "sent" /\ IsRead(calldata.function) /\ phase' = "answered" /\ received' = Lost
      /\ request' = request /\ calldata' = calldata /\ stored' = stored /\ answer' = answer
      /\ result' = result /\ written' = written
  BY DEF LoseRead
<1>2. IsRequest(request) /\ calldata = Call(request) /\ Fits(request)
  BY <1>1 DEF IInv, CallInv
<1>3. calldata.function = request.function
  BY <1>2, RequestFunctions
<1>4. PhaseInv' /\ ReceivedInv' /\ ReadInv'
  BY <1>1 DEF PhaseInv, ReceivedInv, ReadInv
<1>5. CallInv'
  <2>1. (IsRequest(request) /\ calldata = Call(request) /\ Fits(request))'
    BY <1>1, <1>2
  <2> QED
    BY <2>1 DEF CallInv
<1>6. StoreInv'
  <2>1. PICK got : got = Decode(calldata)
    OBVIOUS
  <2>2. got.function \in {"get", "tableScan"}
    BY <1>1, <1>2, <1>3, <2>1, ReadDecoded
  <2>3. Stored(stored, got) = stored
    BY <2>2, ReadsStore
  <2>4. /\ written \subseteq Record /\ Mirror(Stored(stored, Decode(calldata)), written)
        /\ \A k \in DOMAIN stored : k \in Word /\ stored[k] \in Word
    BY <1>1 DEF IInv, StoreInv
  <2>5. Mirror(stored, written)
    BY <2>1, <2>3, <2>4
  <2>6. Mirror(stored, written)'
    BY <1>1, <2>5
  <2>7. (written \subseteq Record /\ \A k \in DOMAIN stored : k \in Word /\ stored[k] \in Word)'
    BY <1>1, <2>4
  <2> QED
    BY <1>1, <2>6, <2>7 DEF StoreInv
<1>7. AnswerInv'
  <2>1. answer' = <<>> /\ IsRead(request.function)'
    BY <1>1, <1>3 DEF IInv, AnswerInv
  <2> QED
    BY <1>1, <2>1 DEF AnswerInv, IsAnswer
<1>8. ResultInv'
  BY <1>1 DEF IInv, ResultInv
<1> QED
  BY <1>4, <1>5, <1>6, <1>7, <1>8 DEF IInv

-----------------------------------------------------------------------------
\* The rows made of an answer.
ReadRows(r, bytes) ==
  IF r.function = "get" THEN <<IndexRow(r.args[1], bytes)>> ELSE ScanRows(Split(bytes))

\* A result of one row.
LEMMA OneRow ==
  ASSUME NEW x
  PROVE  Range(<<x>>) = {x} /\ DOMAIN <<x>> = {1} /\ <<x>>[1] = x
BY DEF Range

\* Without an answer there is no row, or the row of zeros.
LEMMA LostRows ==
  ASSUME NEW r, r.function \in {"get", "tableScan"}
  PROVE  Range(ReadRows(r, <<>>)) \subseteq {ZeroedRow}
<1>1. CASE r.function = "get"
  <2>1. IndexRow(r.args[1], <<>>) = ZeroedRow
    BY ZeroRow DEF IndexRow, ZeroedRow
  <2>2. ReadRows(r, <<>>) = <<ZeroedRow>>
    BY <1>1, <2>1 DEF ReadRows
  <2> QED
    BY <2>2, OneRow
<1>2. CASE r.function = "tableScan"
  <2>1. Len(<<>>) = 0 /\ 0 \div WordSize = 0
    <3>1. 0 \in 0 .. WordSize - 1 /\ WordSize * 0 + 0 = 0
      BY Sizes
    <3>2. (WordSize * 0 + 0) \div WordSize = 0
      BY <3>1, Division, Sizes
    <3> QED
      BY <3>1, <3>2
  <2>2. Len(Split(<<>>)) = 0
    BY <2>1 DEF Split
  <2>3. ResultsSize(Split(<<>>)) = 0
    BY <2>2 DEF ResultsSize
  <2>4. DOMAIN ScanRows(Split(<<>>)) = {}
    BY <2>3 DEF ScanRows
  <2>5. ReadRows(r, <<>>) = ScanRows(Split(<<>>))
    BY <1>2 DEF ReadRows
  <2> QED
    BY <2>4, <2>5 DEF Range
<1> QED
  BY <1>1, <1>2

\* A lookup shows the row of its key.
LEMMA GetRows ==
  ASSUME NEW w \in Record, KeySize <= WordSize, NEW store, NEW rows, Mirror(store, rows),
         NEW shown, shown = <<IndexRow(ExtractKey(w), GetAnswer(store, KeyWord(w)))>>
  PROVE  LET found == {x \in rows : ExtractKey(x) = ExtractKey(w)}
         IN  Range(shown) = IF found = {} THEN {ZeroedRow} ELSE RowsShown(found)
<1> DEFINE found == {x \in rows : ExtractKey(x) = ExtractKey(w)}
<1>1. PICK s : s = IndexRow(ExtractKey(w), GetAnswer(store, KeyWord(w)))
  OBVIOUS
<1>2. /\ \A x \in rows : ExtractKey(x) = ExtractKey(w) => s = Shown(x)
      /\ (\A x \in rows : ExtractKey(x) # ExtractKey(w)) => s = FindRow(Zeros(KeySize + ValueSize))
  BY <1>1, LookupIs
<1>3. Range(shown) = {s}
  BY <1>1, OneRow
<1>4. CASE found = {}
  <2>1. \A x \in rows : ExtractKey(x) # ExtractKey(w)
    BY <1>4
  <2>2. s = ZeroedRow
    BY <1>2, <2>1, ZeroRow DEF ZeroedRow
  <2> QED
    BY <1>3, <1>4, <2>2
<1>5. CASE found # {}
  <2>1. PICK x \in found : TRUE
    BY <1>5
  <2>2. \A y \in found : s = Shown(y)
    BY <1>2
  <2>3. RowsShown(found) = {s}
    BY <2>1, <2>2 DEF RowsShown
  <2> QED
    BY <1>3, <1>5, <2>3
<1> QED
  BY <1>4, <1>5

\* A scan shows each row once.
LEMMA AllRows ==
  ASSUME NEW store, NEW rows, Mirror(store, rows), NEW keys \in SetToSeqs(DOMAIN store),
         NEW shown, shown = ScanRows(Split(ScanAnswer(store, keys)))
  PROVE  Range(shown) = RowsShown(rows) /\ Len(shown) = Cardinality(rows)
<1>1. /\ Len(shown) = Cardinality(rows)
      /\ \A i \in DOMAIN shown : \E w \in rows : shown[i] = Shown(w)
      /\ \A w \in rows : \E i \in DOMAIN shown : shown[i] = Shown(w)
  BY ScanIs
<1> QED
  BY <1>1 DEF Range, RowsShown

\* Either read shows what is stored.
LEMMA ReadShows ==
  ASSUME NEW r, IsRequest(r), IsRead(r.function), Fits(r), NEW store, NEW rows, Mirror(store, rows),
         NEW got, NEW bytes, IsAnswer(r, got, store, bytes)
  PROVE  /\ IsShown(r, got, rows, ReadRows(r, bytes))
         /\ Range(ReadRows(r, bytes)) \subseteq RowsShown(Record) \cup {ZeroedRow}
<1>1. rows \subseteq Record
  BY DEF Mirror
<1>2. CASE got = Lost
  <2>1. r.function \in {"get", "tableScan"} /\ bytes = <<>>
    BY <1>2 DEF IsRead, IsAnswer
  <2>2. Range(ReadRows(r, bytes)) \subseteq {ZeroedRow}
    BY <2>1, LostRows
  <2> QED
    BY <1>2, <2>2 DEF IsShown
<1>3. CASE got # Lost /\ \E w \in Record : r = GetRequest(w)
  <2>1. PICK w \in Record : r = GetRequest(w)
    BY <1>3
  <2>2. r.function = "get" /\ r.args[1] = ExtractKey(w) /\ KeySize <= WordSize
    BY <2>1, GetDecoded DEF GetRequest
  <2>3. bytes = GetAnswer(store, KeyWord(w))
    BY <1>3, <2>2 DEF IsAnswer, KeyWord
  <2>4. PICK shown : shown = ReadRows(r, bytes)
    OBVIOUS
  <2>5. shown = <<IndexRow(ExtractKey(w), GetAnswer(store, KeyWord(w)))>>
    BY <2>2, <2>3, <2>4 DEF ReadRows
  <2>6. PICK found : found = {x \in rows : ExtractKey(x) = ExtractKey(w)}
    OBVIOUS
  <2>7. Range(shown) = IF found = {} THEN {ZeroedRow} ELSE RowsShown(found)
    BY <2>2, <2>5, <2>6, GetRows
  <2>8. found \subseteq Record
    BY <1>1, <2>6
  <2>9. RowsShown(found) \subseteq RowsShown(Record)
    BY <2>8 DEF RowsShown
  <2>10. IsShown(r, got, rows, shown)
    BY <1>3, <2>2, <2>6, <2>7 DEF IsShown
  <2>11. Range(shown) \subseteq RowsShown(Record) \cup {ZeroedRow}
    BY <2>7, <2>9
  <2> QED
    BY <2>4, <2>10, <2>11
<1>4. CASE got # Lost /\ r = ScanRequest
  <2>1. r.function = "tableScan"
    BY <1>4 DEF ScanRequest
  <2>2. PICK keys \in SetToSeqs(DOMAIN store) : bytes = ScanAnswer(store, keys)
    BY <1>4, <2>1 DEF IsAnswer
  <2>3. PICK shown : shown = ReadRows(r, bytes)
    OBVIOUS
  <2>4. shown = ScanRows(Split(ScanAnswer(store, keys)))
    BY <2>1, <2>2, <2>3 DEF ReadRows
  <2>5. Range(shown) = RowsShown(rows) /\ Len(shown) = Cardinality(rows)
    BY <2>4, AllRows
  <2>6. RowsShown(rows) \subseteq RowsShown(Record)
    BY <1>1 DEF RowsShown
  <2>7. IsShown(r, got, rows, shown)
    BY <1>4, <2>1, <2>5 DEF IsShown
  <2> QED
    BY <2>3, <2>5, <2>6, <2>7
<1> QED
  BY <1>2, <1>3, <1>4, RequestFunctions

\* The invariant holds when the handler reads the answer.
LEMMA ReadIInv ==
  ASSUME IInv, Read
  PROVE  IInv'
<1>1. /\ phase = "answered" /\ result' = ReadRows(request, answer) /\ phase' = "ready"
      /\ request' = request /\ calldata' = calldata /\ received' = received
      /\ stored' = stored /\ answer' = answer /\ written' = written
  BY DEF Read, ReadRows
<1>2. IsRequest(request) /\ calldata = Call(request) /\ Fits(request)
  BY <1>1 DEF IInv, CallInv
<1>3. IsRead(request.function) /\ IsAnswer(request, received, stored, answer)
  BY <1>1 DEF IInv, AnswerInv
<1>4. Mirror(stored, written)
  BY <1>1 DEF IInv, StoreInv
<1>5. /\ IsShown(request, received, written, result')
      /\ Range(result') \subseteq RowsShown(Record) \cup {ZeroedRow}
  BY <1>1, <1>2, <1>3, <1>4, ReadShows
<1>6. PhaseInv' /\ AnswerInv'
  BY <1>1 DEF PhaseInv, AnswerInv
<1>7. CallInv'
  <2>1. (IsRequest(request) /\ calldata = Call(request) /\ Fits(request))'
    BY <1>1, <1>2
  <2> QED
    BY <2>1 DEF CallInv
<1>8. ReceivedInv'
  <2>1. request # Nothing
    BY <1>2, RequestFunctions
  <2> QED
    BY <1>1, <2>1 DEF IInv, ReceivedInv
<1>9. StoreInv'
  <2>1. (/\ written \subseteq Record /\ Mirror(stored, written)
         /\ \A k \in DOMAIN stored : k \in Word /\ stored[k] \in Word)'
    BY <1>1, <1>4 DEF IInv, StoreInv
  <2> QED
    BY <1>1, <2>1 DEF StoreInv
<1>10. ResultInv'
  BY <1>5 DEF ResultInv, Range
<1>11. ReadInv'
  <2>1. IsShown(request, received, written, result)'
    BY <1>1, <1>5
  <2> QED
    BY <2>1 DEF ReadInv
<1> QED
  BY <1>6, <1>7, <1>8, <1>9, <1>10, <1>11 DEF IInv

\* A step that changes no variable.
LEMMA StutterIInv ==
  ASSUME IInv, UNCHANGED vars
  PROVE  IInv'
<1>1. /\ phase' = phase /\ request' = request /\ calldata' = calldata /\ received' = received
      /\ stored' = stored /\ answer' = answer /\ result' = result /\ written' = written
  BY DEF vars
<1>2. PhaseInv' /\ CallInv' /\ ReceivedInv'
  BY <1>1 DEF IInv, PhaseInv, CallInv, ReceivedInv
<1>3. StoreInv' /\ AnswerInv'
  BY <1>1 DEF IInv, StoreInv, AnswerInv
<1>4. ResultInv' /\ ReadInv'
  BY <1>1 DEF IInv, ResultInv, ReadInv
<1> QED
  BY <1>2, <1>3, <1>4 DEF IInv

\* In every reachable state the call sent is the encoding of the request, the
\* contract's store mirrors the rows MySQL wrote, and an answer that is on its
\* way, or was read, shows those rows.
THEOREM Invariance == Spec => []IInv
<1>1. Init => IInv
  BY InitIInv
<1>2. IInv /\ [Next]_vars => IInv'
  <2> SUFFICES ASSUME IInv, [Next]_vars PROVE IInv'
    OBVIOUS
  <2>1. CASE UNCHANGED vars
    BY <2>1, StutterIInv
  <2>2. CASE Next
    <3>1. \/ \E r, records : Send(r, records) /\ SendOk(r, records)
          \/ Receive \/ LoseRead \/ Read
      BY <2>2, NextCases
    <3>2. ASSUME NEW r, NEW records, Send(r, records), SendOk(r, records) PROVE IInv'
      BY <3>2, SendIInv
    <3> QED
      BY <3>1, <3>2, ReceiveIInv, LoseReadIInv, ReadIInv
  <2> QED
    BY <2>1, <2>2
<1> QED
  BY <1>1, <1>2, PTL DEF Spec

-----------------------------------------------------------------------------
\* The invariant gives the types,
LEMMA IInvTypes == IInv => TypeOK
<1> SUFFICES ASSUME IInv PROVE TypeOK
  OBVIOUS
<1>1. phase \in {"ready", "sent", "answered", "aborted"} /\ written \subseteq Record
  BY DEF IInv, PhaseInv, StoreInv
<1>2. ASSUME NEW i \in DOMAIN result
      PROVE  Len(result[i]) = RecordSize /\ Range(result[i]) \subseteq Byte
  <2>1. result[i] \in RowsShown(Record) \cup {ZeroedRow}
    BY DEF IInv, ResultInv
  <2>2. \A row \in RowsShown(Record) : row \in Seq(Byte) /\ Len(row) = RecordSize
    BY ShownIs DEF RowsShown
  <2>3. ZeroedRow \in Seq(Byte) /\ Len(ZeroedRow) = RecordSize
    BY ZeroRow DEF ZeroedRow
  <2>4. PICK row \in Seq(Byte) : row = result[i] /\ Len(row) = RecordSize
    BY <2>1, <2>2, <2>3
  <2>5. Range(row) \subseteq Byte
    BY DEF Range
  <2> QED
    BY <2>4, <2>5
<1>3. ASSUME NEW k \in DOMAIN stored
      PROVE  Len(k) = WordSize /\ Len(stored[k]) = WordSize
  <2>1. k \in Word /\ stored[k] \in Word
    BY DEF IInv, StoreInv
  <2>2. \A w \in Word : Len(w) = WordSize
    BY Sizes DEF Word
  <2> QED
    BY <2>1, <2>2
<1>4. Range(calldata.data) \subseteq Byte
  <2>1. CASE calldata = NoCall
    <3>1. calldata.data = <<>>
      BY <2>1 DEF NoCall
    <3>2. Range(<<>>) = {}
      BY DEF Range
    <3> QED
      BY <3>1, <3>2
  <2>2. CASE IsRequest(request) /\ calldata = Call(request)
    <3>1. calldata.data = Data(request)
      BY <2>2 DEF Call
    <3>2. Range(Data(request)) \subseteq Byte
      BY <2>2, RequestBytes
    <3> QED
      BY <3>1, <3>2
  <2> QED
    BY <2>1, <2>2 DEF IInv, CallInv
<1> QED
  BY <1>1, <1>2, <1>3, <1>4 DEF TypeOK

\* Rows have the size of the table's rows, words the size of words, and what
\* travels are bytes, also in a call that byte_array_to_hex refuses.
THEOREM TypeCorrect == Spec => []TypeOK
<1>1. IInv => TypeOK
  BY IInvTypes
<1> QED
  BY <1>1, Invariance, PTL

\* that calls are understood when commits are small,
LEMMA IInvUnderstood == CommitsSmall /\ IInv => ReceivedAsSent
<1> SUFFICES ASSUME CommitsSmall, IInv,
                    phase \in {"ready", "answered"}, request # Nothing, received # Lost
             PROVE  Understood(request, received)
  BY DEF ReceivedAsSent, Understood, SentOf
<1>1. IsRequest(request) /\ calldata = Call(request) /\ Fits(request)
  BY DEF IInv, CallInv
<1>2. received = Decode(Call(request))
  BY <1>1 DEF IInv, ReceivedInv
<1> QED
  BY <1>1, <1>2, RequestUnderstood

\* The contract decodes every call to the function and the arguments that the
\* handler passed (put to atomic_commit of ethereum.cpp), in every instance
\* whose commits name fewer than ten tables.
THEOREM CallsUnderstood == CommitsSmall => (Spec => []ReceivedAsSent)
<1> SUFFICES ASSUME CommitsSmall PROVE Spec => []ReceivedAsSent
  OBVIOUS
<1>1. IInv => ReceivedAsSent
  BY IInvUnderstood
<1> QED
  BY <1>1, Invariance, PTL

\* and what reads return when NULL flags are clear.
LEMMA IInvReads == FlagsClear /\ IInv => ReadReturnsWritten
<1> SUFFICES ASSUME FlagsClear, IInv, phase = "ready", IsRead(request.function)
             PROVE  IF received = Lost THEN Range(result) \subseteq {Zeros(RecordSize)}
                    ELSE IF request.function = "tableScan"
                      THEN Range(result) = written /\ Len(result) = Cardinality(written)
                      ELSE LET rows == {w \in written : ExtractKey(w) = request.args[1]}
                           IN  Range(result) = IF rows = {} THEN {Zeros(RecordSize)} ELSE rows
  BY DEF ReadReturnsWritten
<1>1. IsShown(request, received, written, result)
  BY DEF IInv, ReadInv
<1>2. written \subseteq Record
  BY DEF IInv, StoreInv
<1>3. ASSUME NEW rows, rows \subseteq Record PROVE RowsShown(rows) = rows
  <2>1. \A w \in rows : Shown(w) = w
    BY <1>3, ShownRow
  <2> QED
    BY <2>1 DEF RowsShown
<1>4. RowsShown(written) = written
  BY <1>2, <1>3
<1>5. PICK found : found = {w \in written : ExtractKey(w) = request.args[1]}
  OBVIOUS
<1>6. found \subseteq Record
  BY <1>2, <1>5
<1>7. RowsShown(found) = found
  BY <1>3, <1>6
<1> QED
  BY <1>1, <1>4, <1>5, <1>7 DEF IsShown, ZeroedRow

\* Scans and lookups return the rows that were written, byte by byte
\* (table_scan_to_vec, get, index_read, find_row), in every instance whose
\* rows have no NULL: the flags in front of a row are not stored.  Invariance
\* says what is returned for other rows: the row with its flags cleared.
THEOREM ReadsReturnRows == FlagsClear => (Spec => []ReadReturnsWritten)
<1> SUFFICES ASSUME FlagsClear PROVE Spec => []ReadReturnsWritten
  OBVIOUS
<1>1. IInv => ReadReturnsWritten
  BY IInvReads
<1> QED
  BY <1>1, Invariance, PTL

-----------------------------------------------------------------------------
\* Ten to ninety-nine tables: two decimal digits, read as hexadecimal ones.
LEMMA TwoDigits ==
  ASSUME NEW size \in 10 .. 99
  PROVE  \E num \in Nat : SizeToHex(size) = NumericToHex(num) /\ num > size /\ num < 256
<1> DEFINE a == CHOOSE f : IsDigits(size, f)
<1>1. IsDigits(size, a)
  BY DigitsExist
<1>2. SizeToHex(size) = NumericToHex(a[size])
  BY DEF SizeToHex, IsDigits
<1>3. PICK f : f = a /\ IsDigits(size, f)
  BY <1>1
<1> HIDE DEF a
<1>4. \A n \in 0 .. size : f[n] = IF n < 10 THEN n ELSE 16 * f[n \div 10] + (n % 10)
  BY <1>3 DEF IsDigits
<1>5. PICK q \in 1 .. 9 : q = size \div 10
  OBVIOUS
<1>6. f[q] = q
  <2>1. q \in 0 .. size /\ q < 10
    OBVIOUS
  <2> QED
    BY <1>4, <2>1
<1>7. f[size] = 16 * q + (size % 10)
  <2>1. size \in 0 .. size /\ ~(size < 10)
    OBVIOUS
  <2> QED
    BY <1>4, <1>5, <1>6, <2>1
<1>8. size = 10 * q + (size % 10) /\ size % 10 \in 0 .. 9
  BY <1>5
<1>9. 16 * q + (size % 10) \in Nat /\ 16 * q + (size % 10) > size /\ 16 * q + (size % 10) < 256
  BY <1>8
<1> QED
  BY <1>2, <1>3, <1>7, <1>9

\* What CommitsSmall is for: the contract rejects the call that a commit of
\* ten to ninety-nine tables makes, for it looks for more addresses than there
\* are (the count that atomic_commit prints, ethereum.cpp line 580).
THEOREM LargeCommitReverts ==
  ASSUME NEW tables \in Addresses, Len(tables) \in 10 .. 99, NEW tx \in Tx
  PROVE  Decode(Call(CommitRequest(tables, tx))) = Reverted
<1>1. PICK c : c = Call(CommitRequest(tables, tx))
  OBVIOUS
<1>2. PICK n \in 10 .. 99 : n = Len(tables)
  OBVIOUS
<1>3. PICK words : words = AtomicCommitData(tx, tables)
  OBVIOUS
<1>4. /\ words \in Seq(Word) /\ Len(words) = 3 + n
      /\ words[2] = NumericToHex(WordSize * 2) /\ words[3] = SizeToHex(n)
  BY <1>2, <1>3, TablesAre, CommitWords
<1>5. c.function = "commitAll" /\ c.data = Joined(words)
  BY <1>1, <1>3 DEF Call, CommitRequest, Data, Words
<1>6. PICK num \in Nat : words[3] = NumericToHex(num) /\ num > n /\ num < 256
  BY <1>4, TwoDigits
<1>7. PICK d : d = Joined(words) /\ Len(d) = WordSize * (3 + n)
  BY <1>4, JoinedWords
<1>8. PICK head : head = NumericToHex(WordSize * 2) /\ Number(head) = WordSize * 2
  <2>1. WordSize * 2 \in Nat /\ FitsWord(WordSize * 2)
    BY OffsetFits, Sizes
  <2> QED
    BY <2>1, NumberIs
<1>9. Number(WordAt(d, WordSize * 2)) = num
  <2>1. 2 \in 0 .. Len(words) - 1 /\ 2 + 1 = 3
    BY <1>4
  <2>2. WordAt(d, WordSize * 2) = words[3]
    BY <1>4, <1>7, <2>1, WordAtIs
  <2>3. Number(NumericToHex(num)) = num
    BY <1>6, SmallFits, NumberIs
  <2> QED
    BY <1>6, <2>2, <2>3
<1>10. ~ArrayFits(d, head)
  <2>1. Number(head) + WordSize * (1 + Number(WordAt(d, Number(head)))) = WordSize * 2 + WordSize * (1 + num)
    BY <1>8, <1>9
  <2>2. WordSize * 2 + WordSize * (1 + num) > WordSize * (3 + n)
    <3>1. 4 + n <= 3 + num
      BY <1>6
    <3>2. WordSize * (4 + n) <= WordSize * (3 + num)
      BY <3>1, Times, Sizes
    <3>3. WordSize * (4 + n) = WordSize * (3 + n) + WordSize
      BY Sizes
    <3>4. WordSize * (3 + num) = WordSize * 2 + WordSize * (1 + num)
      BY Sizes
    <3> QED
      BY <3>2, <3>3, <3>4, Sizes
  <2>3. WordSize * 2 + WordSize * (1 + num) \in Int /\ WordSize * (3 + n) \in Int
    BY Sizes
  <2>4. ~(WordSize * 2 + WordSize * (1 + num) <= WordSize * (3 + n))
    BY <2>2, <2>3
  <2> QED
    BY <1>7, <2>1, <2>4 DEF ArrayFits
<1>11. WordAt(d, WordSize * (2 - 1)) = head
  <2>1. 2 \in 1 .. Len(words)
    BY <1>4
  <2> QED
    BY <1>4, <1>7, <1>8, <2>1, HeadIs
<1>12. PICK types : /\ types = Parameters(c.function, c.hasTx)
                    /\ 2 \in DOMAIN types /\ types[2] = "address[]"
  <2>1. Parameters(c.function, c.hasTx) = <<"bytes16", "address[]">>
    BY <1>5 DEF Parameters
  <2> QED
    BY <2>1
<1>13. ~Readable(types, d)
  <2>1. IsArray(types[2])
    BY <1>12 DEF IsArray
  <2> QED
    BY <1>10, <1>11, <1>12, <2>1 DEF Readable
<1> QED
  BY <1>1, <1>5, <1>7, <1>12, <1>13 DEF Decode

=============================================================================

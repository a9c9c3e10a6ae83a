------------------------------ MODULE AbiCodec ------------------------------
(***************************************************************************)
(* What travels between the handler and the contracts: a row of MySQL      *)
(* becomes a key and a value (extract_key, extract_value), the connector   *)
(* lays the arguments of a call out as ABI words (ethereum.cpp), the       *)
(* contract's dispatcher takes them apart again (Solidity, external), and  *)
(* the answer of a read goes the same way back into a row.                 *)
(*                                                                         *)
(* Data are sequences of bytes.  The connector writes two hexadecimal      *)
(* digits per byte; digits are not modelled, what a number becomes in them *)
(* is.  A word has 32 bytes in the code; its size is a parameter here and  *)
(* the offsets the code writes as 64, 96 + 32 * size and so on are         *)
(* multiples of it.  The calls of this module are sent one after the other *)
(* over one table; how calls interleave is the matter of EthConnector and  *)
(* of CommitProtocol.                                                      *)
(***************************************************************************)
EXTENDS Integers, Sequences, FiniteSets, SequencesExt

CONSTANTS
  WordSize,     \* bytes of a word, 32 in the code
  NullBytes,    \* table->s->null_bytes, the NULL flags in front of a row
  KeySize,      \* field_length of the first field
  ValueSize,    \* the rest of the row
  Record,       \* the rows, sequences of bytes
  TxId,         \* identifiers of transactions, half a word each
  Addresses,    \* what a commit may name: sequences of addresses of contracts
  MaxBatch      \* bound: operations in a batch

RecordSize == NullBytes + KeySize + ValueSize

Byte == 0 .. 255

ASSUME SizeAssumption ==
  /\ {WordSize, KeySize} \subseteq Nat \ {0}
  /\ {NullBytes, ValueSize, MaxBatch} \subseteq Nat
  /\ WordSize % 2 = 0
ASSUME RecordAssumption == Record \subseteq [1 .. RecordSize -> Byte] /\ IsFiniteSet(Record)
ASSUME AddressAssumption ==
  \A tables \in Addresses :
    tables \in Seq(Seq(Byte)) /\ \A i \in DOMAIN tables : Len(tables[i]) <= WordSize
ASSUME TxIdAssumption == TxId \subseteq [1 .. WordSize \div 2 -> Byte]

VARIABLES
  phase,      \* where the call is: "ready", "sent", "answered", "aborted"
  request,    \* what the handler asked of the connector
  calldata,   \* what the connector sent
  received,   \* what the contract took it for
  stored,     \* the words the contract of the table holds, key to value
  answer,     \* the bytes the contract returned
  result,     \* the rows the handler hands to MySQL
  written     \* history: the rows MySQL wrote and did not remove

vars == <<phase, request, calldata, received, stored, answer, result, written>>

Zeros(n) == [i \in 1 .. n |-> 0]
NilId    == Zeros(WordSize \div 2)
Nothing  == [function |-> "none", args |-> <<>>, tx |-> NilId]
Reverted == [function |-> "reverted", args |-> <<>>]
Lost     == [function |-> "lost", args |-> <<>>]

(***************************************************************************)
(* Rows.                                                                   *)
(***************************************************************************)
ExtractKey(record)   == SubSeq(record, NullBytes + 1, NullBytes + KeySize)
ExtractValue(record) == SubSeq(record, NullBytes + KeySize + 1, RecordSize)

\* Mutant of FindRow: the row is handed out without its NULL flags.
FindRowWithoutFlags(tuple) == tuple

\* find_row and index_read clear the NULL flags and copy the rest.
FindRow(tuple) == Zeros(NullBytes) \o tuple

(***************************************************************************)
(* The words the connector writes, one after the other.                    *)
(***************************************************************************)
Joined(words) ==
  [n \in 1 .. WordSize * Len(words) |->
     words[((n - 1) \div WordSize) + 1][((n - 1) % WordSize) + 1]]

ByteArrayToHex(data) == data \o Zeros(WordSize - Len(data))

\* What is left of num without its last n bytes.
Shifted(num) ==
  LET rest[n \in 0 .. WordSize] == IF n = 0 THEN num ELSE rest[n - 1] \div 256
  IN  rest

NumericToHex(num) ==
  LET rest == Shifted(num)
  IN  [i \in 1 .. WordSize |-> rest[WordSize - i] % 256]

FitsWord(num) == Shifted(num)[WordSize] = 0

\* No table has more rows, and no batch is longer, than a word can number.
ASSUME NumberAssumption ==
  FitsWord(WordSize * (4 + MaxBatch)) /\ FitsWord(Cardinality(Record))

\* atomic_commit prints the number of addresses in decimal into the same
\* place; the contract reads those digits as hexadecimal ones.
SizeToHex(size) ==
  LET digits[n \in 0 .. size] ==
        IF n < 10 THEN n ELSE 16 * digits[n \div 10] + (n % 10)
  IN  NumericToHex(digits[size])

AddressToHex(address) == Zeros(WordSize - Len(address)) \o address

Elements(data) == [i \in DOMAIN data |-> ByteArrayToHex(data[i])]

Counted(data) == <<NumericToHex(Len(data))>> \o Elements(data)

TxWord(tx) == IF tx = NilId THEN <<>> ELSE <<ByteArrayToHex(tx)>>

\* Mutant of BatchOffsets: those of the variant without an identifier, always.
BatchOffsetsWithoutTx(size, tx) ==
  <<NumericToHex(2 * WordSize), NumericToHex(3 * WordSize + WordSize * size)>> \o TxWord(tx)

\* The offsets of put_batch: to the keys and to the values.
BatchOffsets(size, tx) ==
  IF tx = NilId
    THEN <<NumericToHex(2 * WordSize), NumericToHex(3 * WordSize + WordSize * size)>>
    ELSE <<NumericToHex(3 * WordSize), NumericToHex(4 * WordSize + WordSize * size),
           ByteArrayToHex(tx)>>

RemoveOffset(tx) ==
  IF tx = NilId THEN <<NumericToHex(WordSize)>>
                ELSE <<NumericToHex(2 * WordSize), ByteArrayToHex(tx)>>

PutBatchData(keys, values, tx) ==
  BatchOffsets(Len(keys), tx) \o Counted(keys) \o Counted(values)

RemoveBatchData(keys, tx) == RemoveOffset(tx) \o Counted(keys)

AtomicCommitData(tx, addresses) ==
  <<ByteArrayToHex(tx), NumericToHex(2 * WordSize), SizeToHex(Len(addresses))>>
    \o [i \in DOMAIN addresses |-> AddressToHex(addresses[i])]

Words(r) ==
  CASE r.function = "putBatch"    -> PutBatchData(r.args[1], r.args[2], r.tx)
    [] r.function = "removeBatch" -> RemoveBatchData(r.args[1], r.tx)
    [] r.function = "commitAll"   -> AtomicCommitData(r.tx, r.args[1])
    [] OTHER -> Elements(r.args) \o TxWord(r.tx)

Data(r) == Joined(Words(r))

(***************************************************************************)
(* The contracts' side, external: the parameters of each function and how  *)
(* the decoder that solc generates reads them.  It rejects an offset or a  *)
(* length that leads out of the data.  A call with an identifier reaches   *)
(* the overloaded function that has one more parameter.                    *)
(***************************************************************************)
Parameters(function, hasTx) ==
  LET own == CASE function = "put"           -> <<"bytes32", "bytes32">>
               [] function = "putBatch"      -> <<"bytes32[]", "bytes32[]">>
               [] function \in {"remove", "get"} -> <<"bytes32">>
               [] function = "removeBatch"   -> <<"bytes32[]">>
               [] OTHER                      -> <<>>
  IN  IF function = "commitAll" THEN <<"bytes16", "address[]">>
      ELSE IF hasTx THEN Append(own, "bytes16")
      ELSE own

WordAt(data, offset) == SubSeq(data, offset + 1, offset + WordSize)

Number(word) ==
  LET upTo[n \in 0 .. WordSize] == IF n = 0 THEN 0 ELSE 256 * upTo[n - 1] + word[n]
  IN  upTo[WordSize]

\* The words of the array whose offset is in the given head word.
ArrayAt(data, head) ==
  LET start == Number(head)
      count == Number(WordAt(data, start))
  IN  [i \in 1 .. count |-> WordAt(data, start + WordSize * i)]

ArrayFits(data, head) ==
  /\ Number(head) + WordSize <= Len(data)
  /\ Number(head) + WordSize * (1 + Number(WordAt(data, Number(head)))) <= Len(data)

IsArray(type) == type \in {"bytes32[]", "address[]"}

Readable(types, data) ==
  /\ Len(data) >= WordSize * Len(types)
  /\ \A i \in DOMAIN types :
       IsArray(types[i]) => ArrayFits(data, WordAt(data, WordSize * (i - 1)))

Argument(type, data, i) ==
  LET head == WordAt(data, WordSize * (i - 1))
  IN  CASE type = "bytes32"   -> head
        [] type = "bytes16"   -> SubSeq(head, 1, WordSize \div 2)
        [] type = "bytes32[]" -> ArrayAt(data, head)
        [] type = "address[]" -> ArrayAt(data, head)

Decode(c) ==
  LET types == Parameters(c.function, c.hasTx)
  IN  IF Readable(types, c.data)
        THEN [function |-> c.function,
              args |-> [i \in DOMAIN types |-> Argument(types[i], c.data, i)]]
        ELSE Reverted

(***************************************************************************)
(* What the contract stores and returns, external: put and remove work on  *)
(* whole words.  KVStore has the bookkeeping of the contract and the order *)
(* of its key list; here a scan returns the rows in some order.            *)
(***************************************************************************)
StorePuts(store, keys, values) ==
  LET last(k) == CHOOSE i \in DOMAIN keys :
                   /\ keys[i] = k
                   /\ \A j \in DOMAIN keys : keys[j] = k => j <= i
  IN  [k \in DOMAIN store \cup ToSet(keys) |->
         IF k \in ToSet(keys) THEN values[last(k)] ELSE store[k]]

StoreWithout(store, keys) ==
  [k \in DOMAIN store \ ToSet(keys) |-> store[k]]

Stored(store, c) ==
  LET a == c.args
  IN  CASE c.function = "put" /\ Len(a) = 2 -> StorePuts(store, <<a[1]>>, <<a[2]>>)
        [] c.function = "putBatch" /\ Len(a) = 2 -> StorePuts(store, a[1], a[2])
        [] c.function = "remove" /\ Len(a) = 1 -> StoreWithout(store, <<a[1]>>)
        [] c.function = "removeBatch" /\ Len(a) = 1 -> StoreWithout(store, a[1])
        [] OTHER -> store

ScanAnswer(store, keys) ==
  Joined(<<NumericToHex(2 * WordSize), NumericToHex(WordSize * (3 + Len(keys)))>>
           \o Counted(keys) \o Counted([i \in DOMAIN keys |-> store[keys[i]]]))

\* get reverts without a row, and returns the block number with the value.
GetAnswer(store, key) ==
  IF key \in DOMAIN store THEN store[key] \o NumericToHex(1) ELSE <<>>

(***************************************************************************)
(* What the connector reads from an answer.  The words of the answer are   *)
(* numbered from 0 in the code.                                            *)
(***************************************************************************)
Split(bytes) ==
  [i \in 1 .. Len(bytes) \div WordSize |-> WordAt(bytes, WordSize * (i - 1))]

ResultsSize(results) == IF Len(results) > 2 THEN Number(results[2 + 1]) ELSE 0

\* Mutant of ScanTuple: the count of the values is taken for the first value.
ScanTupleOneOff(results, i) ==
  SubSeq(results[i + 1], 1, KeySize)
    \o SubSeq(results[i + ResultsSize(results) + 1], 1, ValueSize)

ScanTuple(results, i) ==
  LET value_index == i + ResultsSize(results) + 1
  IN  SubSeq(results[i + 1], 1, KeySize)
        \o SubSeq(results[value_index + 1], 1, ValueSize)

ScanRows(results) ==
  [n \in 1 .. ResultsSize(results) |-> FindRow(ScanTuple(results, n + 2))]

\* index_read cleared the whole row and ignores what get returns.
IndexRow(key, value) ==
  FindRow(IF value = <<>> THEN Zeros(KeySize + ValueSize)
                          ELSE key \o SubSeq(value, 1, ValueSize))

-----------------------------------------------------------------------------
Init ==
  /\ phase = "ready"
  /\ request = Nothing
  /\ calldata = [function |-> "none", hasTx |-> FALSE, data |-> <<>>]
  /\ received = Reverted
  /\ stored = <<>>
  /\ answer = <<>>
  /\ result = <<>>
  /\ written = {}

\* The assertion of byte_array_to_hex stops the server.
Fits(r) ==
  \A i \in DOMAIN r.args :
    \/ r.function = "commitAll"
    \/ IF r.function \in {"putBatch", "removeBatch"}
         THEN \A j \in DOMAIN r.args[i] : Len(r.args[i][j]) <= WordSize
         ELSE Len(r.args[i]) <= WordSize

\* What the table holds after the call, for the calls that take effect at
\* once: those without an identifier.
Written(r, records) ==
  LET keys == IF r.function = "put" \/ r.function = "remove"
                THEN {r.args[1]} ELSE ToSet(r.args[1])
  IN  IF r.tx # NilId \/ r.function \notin {"put", "putBatch", "remove", "removeBatch"}
        THEN written
        ELSE {w \in written : ExtractKey(w) \notin keys}
               \cup {records[i] : i \in {j \in DOMAIN records :
                       \A l \in DOMAIN records :
                         ExtractKey(records[l]) = ExtractKey(records[j]) => l <= j}}

Send(r, records) ==
  /\ phase = "ready"
  /\ request' = r
  /\ calldata' = [function |-> r.function, hasTx |-> r.tx # NilId, data |-> Data(r)]
  /\ phase' = IF Fits(r) THEN "sent" ELSE "aborted"
  /\ written' = Written(r, records)
  /\ received' = Reverted
  /\ answer' = <<>>
  /\ result' = <<>>
  /\ UNCHANGED stored

Keys(records)   == [i \in DOMAIN records |-> ExtractKey(records[i])]
Values(records) == [i \in DOMAIN records |-> ExtractValue(records[i])]

Batches == UNION {[1 .. n -> Record] : n \in 1 .. MaxBatch}
AnyTx   == TxId \cup {NilId}

\* write_row and update_row, in autocommit or sent by a worker.
Put(record, tx) ==
  Send([function |-> "put",
        args |-> <<ExtractKey(record), ExtractValue(record)>>, tx |-> tx],
       <<record>>)

RemoveKey(record, tx) ==
  Send([function |-> "remove", args |-> <<ExtractKey(record)>>, tx |-> tx], <<>>)

PutBatch(records, tx) ==
  Send([function |-> "putBatch",
        args |-> <<Keys(records), Values(records)>>, tx |-> tx], records)

RemoveBatch(records, tx) ==
  Send([function |-> "removeBatch", args |-> <<Keys(records)>>, tx |-> tx], <<>>)

ClearCommitPrepare(tx) ==
  Send([function |-> "clean", args |-> <<>>, tx |-> tx], <<>>)

AtomicCommit(tables, tx) ==
  Send([function |-> "commitAll", args |-> <<tables>>, tx |-> tx], <<>>)

Get(record) ==
  Send([function |-> "get", args |-> <<ExtractKey(record)>>, tx |-> NilId], <<>>)

TableScan ==
  Send([function |-> "tableScan", args |-> <<>>, tx |-> NilId], <<>>)

IsRead(function) == function \in {"get", "tableScan"}

Receive ==
  /\ phase = "sent"
  /\ received' = Decode(calldata)
  /\ stored' = Stored(stored, received')
  /\ CASE received'.function = "get" -> answer' = GetAnswer(stored, received'.args[1])
       [] received'.function = "tableScan" ->
            \E keys \in SetToSeqs(DOMAIN stored) : answer' = ScanAnswer(stored, keys)
       [] OTHER -> answer' = <<>>
  /\ phase' = IF IsRead(calldata.function) THEN "answered" ELSE "ready"
  /\ UNCHANGED <<request, calldata, result, written>>

\* A read that ends in an error or without an answer leaves no words to read;
\* nothing tells it from the answer of an empty table.  What a lost write does
\* is the matter of EthConnector.
LoseRead ==
  /\ phase = "sent"
  /\ IsRead(calldata.function)
  /\ phase' = "answered"
  /\ received' = Lost
  /\ UNCHANGED <<request, calldata, stored, answer, result, written>>

Read ==
  /\ phase = "answered"
  /\ result' = IF request.function = "get"
                 THEN <<IndexRow(request.args[1], answer)>>
                 ELSE ScanRows(Split(answer))
  /\ phase' = "ready"
  /\ UNCHANGED <<request, calldata, received, stored, answer, written>>

Next ==
  \/ \E r \in Record, tx \in AnyTx : Put(r, tx) \/ RemoveKey(r, tx)
  \/ \E b \in Batches, tx \in AnyTx : PutBatch(b, tx) \/ RemoveBatch(b, tx)
  \/ \E tx \in TxId : ClearCommitPrepare(tx)
  \/ \E tables \in Addresses, tx \in TxId : AtomicCommit(tables, tx)
  \/ \E r \in Record : Get(r)
  \/ TableScan
  \/ Receive
  \/ LoseRead
  \/ Read

Spec == Init /\ [][Next]_vars

-----------------------------------------------------------------------------
(***************************************************************************)
(* Rows have the size of the table's rows, words the size of words.        *)
(***************************************************************************)
TypeOK ==
  /\ phase \in {"ready", "sent", "answered", "aborted"}
  /\ written \subseteq Record
  /\ \A i \in DOMAIN result :
       Len(result[i]) = RecordSize /\ Range(result[i]) \subseteq Byte
  /\ \A k \in DOMAIN stored : Len(k) = WordSize /\ Len(stored[k]) = WordSize
  /\ Range(calldata.data) \subseteq Byte

\* The contract's view of one argument agrees with the engine's.
Agrees(type, sent, got) ==
  CASE type = "bytes32"   -> IsPrefix(sent, got)
    [] type = "bytes16"   -> got = sent
    [] type = "bytes32[]" ->
         Len(got) = Len(sent) /\ \A i \in DOMAIN sent : IsPrefix(sent[i], got[i])
    [] type = "address[]" ->
         Len(got) = Len(sent) /\ \A i \in DOMAIN sent : IsSuffix(sent[i], got[i])

(***************************************************************************)
(* The contract understands every call as it was meant: the function runs, *)
(* and each of its arguments is the datum the handler passed (the keys and *)
(* values of a batch in their order, the identifier of the transaction,    *)
(* the address of every table of a commit).  The connector writes offsets  *)
(* and counts by hand, differently with and without an identifier          *)
(* (ethereum.cpp lines 217-344 and 567-592).                               *)
(***************************************************************************)
ReceivedAsSent ==
  (phase \in {"ready", "answered"} /\ request # Nothing /\ received # Lost) =>
    LET types == Parameters(request.function, request.tx # NilId)
        sent  == IF request.function = "commitAll" THEN <<request.tx>> \o request.args
                 ELSE IF request.tx # NilId THEN Append(request.args, request.tx)
                 ELSE request.args
    IN  /\ received.function = request.function
        /\ Len(received.args) = Len(sent)
        /\ \A i \in DOMAIN sent : Agrees(types[i], sent[i], received.args[i])

(***************************************************************************)
(* What MySQL reads is what MySQL wrote, byte by byte: a scan returns each *)
(* row of the table once, and a lookup by key returns that key's row, or a *)
(* row of zeros when there is none (table_scan_to_vec and _to_map, get,    *)
(* index_read, find_row).  A read that fails returns no row, or that row   *)
(* of zeros, and never a part of the table.                                *)
(***************************************************************************)
ReadReturnsWritten ==
  (phase = "ready" /\ IsRead(request.function)) =>
    IF received = Lost THEN Range(result) \subseteq {Zeros(RecordSize)}
    ELSE IF request.function = "tableScan"
      THEN /\ Range(result) = written
           /\ Len(result) = Cardinality(written)
      ELSE LET rows == {w \in written : ExtractKey(w) = request.args[1]}
           IN  Range(result) = IF rows = {} THEN {Zeros(RecordSize)} ELSE rows

=============================================================================

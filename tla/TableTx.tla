------------------------------- MODULE TableTx -------------------------------
(***************************************************************************)
(* The transaction of one connection on one table (blockchain_table_tx)    *)
(* and the handlers that read and write through it (the row operations of  *)
(* ha_blockchain).                                                         *)
(*                                                                         *)
(* A table transaction collects puts and removes and caches the rows it    *)
(* read.  A scan iterates over the cache by position, so removes are       *)
(* deferred until the scan ends.  Outside a transaction a scan iterates    *)
(* over a vector of its own and writes go to the contract at once.         *)
(*                                                                         *)
(* The contract is a map with the order of its key list; other sessions    *)
(* change it at any time.  A commit is one step here, see CommitProtocol.  *)
(***************************************************************************)
EXTENDS KVOps, FiniteSets, SequencesExt

CONSTANTS
  Handler,      \* the handlers that one statement opens on the table
  CacheModes,   \* the values that bc_use_ts_cache may have
  CacheTurns,   \* whether it changes during a transaction too
  Autocommit,   \* whether statements run outside of a transaction too
  Rescans,      \* whether the core starts a scan again without ending it:
                \* in a transaction (TRUE), outside of one (FALSE)
  ReadsFail,    \* whether the node may fail to answer a read
  Reinserts,    \* whether clients write a key that their transaction removed
  NoTx,         \* a null pointer to a table transaction
  NoRow,        \* no row was fetched yet
  EndOfFile,    \* HA_ERR_END_OF_FILE
  Unread,       \* what a transaction knows about a key it did not touch
  MaxStmts      \* bound: operations of a transaction

Row == [key : Key, value : Value]

(***************************************************************************)
(* put_operations, remove_operations, pending_remove_operations; the       *)
(* contents of table_scan_data and the order in which it is iterated;      *)
(* table_scan_data_filled and pending_remove_activated.                    *)
(***************************************************************************)
Transaction == [puts : Seq(Op), removes : Seq(Op), pending : Seq(Op),
                cache : Map, order : Seq(Key), filled : BOOLEAN, deferring : BOOLEAN]

NewTx == [puts |-> << >>, removes |-> << >>, pending |-> << >>, cache |-> EmptyMap,
          order |-> << >>, filled |-> FALSE, deferring |-> FALSE]

ASSUME KeyAssumption == IsFiniteSet(Key)
ASSUME NoTxAssumption == NoTx \notin Transaction
ASSUME RowAssumption == NoRow \notin Row /\ EndOfFile \notin Row /\ NoRow # EndOfFile
ASSUME UnreadAssumption == Unread \notin Value \cup {Absent}
ASSUME FlagAssumption == /\ {CacheTurns, Autocommit, ReadsFail, Reinserts} \subseteq BOOLEAN
                         /\ CacheModes \subseteq BOOLEAN /\ Rescans \subseteq BOOLEAN
ASSUME BoundAssumption == MaxStmts \in Nat

VARIABLES
  useCache,   \* bc_use_ts_cache
  chain,      \* the rows of the contract
  keyList,    \* the order in which the contract lists them
  tx,         \* the table transaction, or NoTx
  cursor,     \* of each handler: current_position, rnd_table_scan_data
  heard,      \* what each handler told the core since its scan began
  seen,       \* what the transaction was last told about each key, or wrote
  stmts       \* the operations of the transaction, in the order of its statements

contract == <<chain, keyList>>
client   == <<seen, stmts>>
vars     == <<useCache, contract, tx, cursor, heard, client>>

\* current_position before the first row.
None == -1

\* The core calls rnd_next after rnd_init(true), rnd_pos after rnd_init(false).
Cursor == [mode : {"closed", "scan", "pos"}, position : Int, rows : Seq(Row)]

Closed == [mode |-> "closed", position |-> None, rows |-> << >>]

\* A position that the core stored, with the key of the row it stood for.
Ref == [index : Nat, key : Key]

\* row: the last row.  got: the keys of all rows of a scan.  due: the keys of
\* the table when the scan began.  saved: the stored positions.
Heard == [row : Row \cup {NoRow, EndOfFile}, got : Seq(Key), due : SUBSET Key,
          saved : SUBSET Ref]

Nothing == [row |-> NoRow, got |-> << >>, due |-> {}, saved |-> {}]

InTransaction == tx # NoTx

IsOpen(h) == cursor[h].mode # "closed"

AllClosed == \A h \in Handler : ~IsOpen(h)

At(h, k) == IsOpen(h) /\ heard[h].row \in Row /\ heard[h].row.key = k

Keys(m) == {k \in Key : m[k] # Absent}

-----------------------------------------------------------------------------
(***************************************************************************)
(* The cache.  An std::unordered_map that gains an element may be rehashed *)
(* and iterate in any order from then on; without one it keeps its order.  *)
(***************************************************************************)
KeepsOrder(s, order) ==
  \A i, j \in DOMAIN s : i < j =>
    \E a, b \in DOMAIN order : a < b /\ order[a] = s[i] /\ order[b] = s[j]

Orders(order, m) ==
  {s \in SetToSeqs(Keys(m)) : Keys(m) \subseteq Range(order) => KeepsOrder(s, order)}

\* x with a cache of contents m.
Caching(x, m) == {[x EXCEPT !.cache = m, !.order = o] : o \in Orders(x.order, m)}

Cleared(x) == [x EXCEPT !.cache = EmptyMap, !.order = << >>]

\* The end of a call that used the cache.
Released(x) == IF useCache THEN x ELSE Cleared(x)

\* Mutant of Reapply: removes are not applied again.
ReapplyPuts(x, m) == Effect(m, x.puts)

\* reapply_pending_operations, on contents m.
Reapply(x, m) == Effect(m, x.puts \o x.removes)

AddPut(x, op) ==
  Caching([x EXCEPT !.puts = Append(@, op)], Effect(x.cache, <<op>>))

\* Mutant of AddRemove: removes are never deferred.
RemoveAtOnce(x, op) ==
  Caching([x EXCEPT !.removes = Append(@, op)], Effect(x.cache, <<op>>))

AddRemove(x, op) ==
  IF x.deferring THEN {[x EXCEPT !.pending = Append(@, op)]}
  ELSE Caching([x EXCEPT !.removes = Append(@, op)], Effect(x.cache, <<op>>))

\* Mutant of ApplyPendingRemoves: the queue is dropped.
DropPendingRemoves(x) == {[x EXCEPT !.pending = << >>]}

ApplyPendingRemoves(x) ==
  Caching([x EXCEPT !.removes = @ \o x.pending, !.pending = << >>],
          Effect(x.cache, x.pending))

\* Mutant of ListAfter: a key is listed again when its row is replaced.
ListAgain(list, op) == IF op.deleteEntry THEN list ELSE Append(list, op.key)

\* The order of the contract's key list after an operation, see KVStore.
ListAfter(list, op) ==
  IF ~op.deleteEntry
  THEN IF op.key \in Range(list) THEN list ELSE Append(list, op.key)
  ELSE IF op.key \notin Range(list) THEN list
  ELSE SubSeq([j \in DOMAIN list |-> IF list[j] = op.key THEN list[Len(list)] ELSE list[j]],
              1, Len(list) - 1)

ListAfterAll(list, ops) ==
  LET after[n \in 0..Len(ops)] ==
        IF n = 0 THEN list ELSE ListAfter(after[n - 1], ops[n])
  IN  after[Len(ops)]

Apply(ops) ==
  /\ chain' = Effect(chain, ops)
  /\ keyList' = ListAfterAll(keyList, ops)

\* The rows that a table scan of the contract returns.
Listing == [i \in DOMAIN keyList |-> [key |-> keyList[i], value |-> chain[keyList[i]]]]
-----------------------------------------------------------------------------
Init ==
  /\ useCache \in CacheModes
  /\ chain = EmptyMap
  /\ keyList = << >>
  /\ tx = NoTx
  /\ cursor = [h \in Handler |-> Closed]
  /\ heard = [h \in Handler |-> Nothing]
  /\ seen = [k \in Key |-> Unread]
  /\ stmts = << >>

\* SET GLOBAL bc_use_ts_cache, in any session.
SetCache ==
  /\ CacheTurns \/ ~InTransaction
  /\ useCache' \in CacheModes \ {useCache}
  /\ UNCHANGED <<contract, tx, cursor, heard, client>>

\* Another session commits.
OtherWrites(op) ==
  /\ Apply(<<op>>)
  /\ UNCHANGED <<tx, cursor, heard, client>>

\* The core uses positions within the statement that stored them.  It stores
\* none in a scan that changes rows, but changes rows while it goes through the
\* stored positions.
ForgetPositions ==
  /\ heard' = [h \in Handler |->
                 IF cursor[h].mode = "pos" THEN heard[h] ELSE [heard[h] EXCEPT !.saved = {}]]
  /\ UNCHANGED cursor

ForgetClient ==
  /\ seen' = [k \in Key |-> Unread]
  /\ stmts' = << >>

\* start_transaction.
Begin ==
  /\ ~InTransaction /\ AllClosed
  /\ tx' = NewTx
  /\ ForgetPositions
  /\ UNCHANGED <<contract, client>>

\* What bc_commit sends to the contract: the puts, then the removes.
Committed(x) == x.puts \o x.removes

Commit ==
  /\ InTransaction /\ AllClosed
  /\ Apply(Committed(tx))
  /\ tx' = NoTx
  /\ ForgetPositions
  /\ ForgetClient

\* bc_rollback, or a commit that failed.
Rollback ==
  /\ InTransaction /\ AllClosed
  /\ tx' = NoTx
  /\ ForgetPositions
  /\ ForgetClient
  /\ UNCHANGED contract
-----------------------------------------------------------------------------
(***************************************************************************)
(* Row changes: INSERT between scans; UPDATE and DELETE of the row that a  *)
(* handler just fetched, or of a row found by its key.                     *)
(***************************************************************************)
Removed(k) == \E i \in DOMAIN stmts : stmts[i].key = k /\ stmts[i].deleteEntry

\* A statement on row k: of the running scan, or a new one.
Statement(k) ==
  /\ AllClosed \/ \E h \in Handler : At(h, k)
  /\ ForgetPositions

\* The transaction's operation op becomes part of its history.
Record(op) ==
  /\ Len(stmts) < MaxStmts
  /\ stmts' = Append(stmts, op)
  /\ seen' = [seen EXCEPT ![op.key] = Outcome(op)]

\* write_row and update_row, which writes the row under its old key.
WriteRow(k, v) ==
  /\ InTransaction
  /\ Reinserts \/ ~Removed(k)
  /\ AllClosed \/ seen[k] \in Value
  /\ Statement(k)
  /\ Record(PutOp(k, v))
  /\ tx' \in AddPut(tx, PutOp(k, v))
  /\ UNCHANGED contract

DeleteRow(k) ==
  /\ InTransaction
  /\ seen[k] \in Value
  /\ Statement(k)
  /\ Record(RemoveOp(k))
  /\ tx' \in AddRemove(tx, RemoveOp(k))
  /\ UNCHANGED contract

\* Outside a transaction the connector is called at once.
WriteThrough(op) ==
  /\ Autocommit /\ ~InTransaction
  /\ Statement(op.key)
  /\ Apply(<<op>>)
  /\ UNCHANGED <<tx, client>>
-----------------------------------------------------------------------------
(***************************************************************************)
(* Reads.                                                                  *)
(***************************************************************************)
See(k, v) == seen' = [seen EXCEPT ![k] = v]

(***************************************************************************)
(* index_read in a transaction.  A row that is not cached is read from the *)
(* contract; when that fails, because there is no such row or for another  *)
(* reason, the handler returns an empty row and success.                   *)
(***************************************************************************)
IndexRead(h, k) ==
  LET hit  == useCache /\ tx.cache[k] # Absent
      read == IF hit THEN tx.cache ELSE Reapply(tx, [tx.cache EXCEPT ![k] = chain[k]])
  IN  /\ InTransaction /\ ~IsOpen(h)
      /\ \/ /\ hit \/ chain[k] # Absent
            /\ See(k, read[k])
            /\ \E x \in Caching(tx, read) : tx' = Released(x)
         \/ /\ ~hit /\ (ReadsFail \/ chain[k] = Absent)
            /\ See(k, Absent)
            /\ UNCHANGED tx
      /\ IF AllClosed THEN ForgetPositions ELSE UNCHANGED <<cursor, heard>>
      /\ UNCHANGED <<contract, stmts>>

\* A scan of the contract that fails looks like an empty table.
Answers(rows, none) == IF ReadsFail THEN {rows, none} ELSE {rows}

\* Mutant of Filled: the rows of the contract replace those in the cache.
FilledOver(x) ==
  LET ready == [x EXCEPT !.filled = TRUE, !.deferring = TRUE]
  IN  IF x.filled THEN {ready} ELSE Caching(ready, Reapply(x, chain))

\* Mutant of Filled: without the cache, the flag of the last scan stays set.
FilledStale(x) ==
  LET start == IF useCache THEN x ELSE Cleared(x)
      ready == [start EXCEPT !.filled = TRUE, !.deferring = TRUE]
  IN  IF start.filled THEN {ready}
      ELSE UNION {Caching(ready, Reapply(x, rows)) : rows \in Answers(chain, EmptyMap)}

\* The first scan of a transaction fills the cache, without replacing what is
\* in it.
Filled(x) ==
  LET start == IF useCache THEN x ELSE [Cleared(x) EXCEPT !.filled = FALSE]
      Fill(rows) == Reapply(x, [k \in Key |->
                      IF start.cache[k] # Absent THEN start.cache[k] ELSE rows[k]])
      ready == [start EXCEPT !.filled = TRUE, !.deferring = TRUE]
  IN  IF start.filled THEN {ready}
      ELSE UNION {Caching(ready, Fill(rows)) : rows \in Answers(chain, EmptyMap)}

\* A scan that deletes is not restarted.
CanInit(h, mode) ==
  \/ ~IsOpen(h) /\ mode = "scan"
  \/ ~IsOpen(h) /\ mode = "pos" /\ heard[h].saved # {}
  \/ /\ InTransaction \in Rescans /\ cursor[h].mode = "scan" /\ mode = "scan"
     /\ InTransaction => tx.pending = << >>

Started(h, mode, rows) ==
  cursor' = [cursor EXCEPT ![h].mode = mode, ![h].position = None, ![h].rows = rows]

Expecting(h, keys) ==
  heard' = [heard EXCEPT ![h].row = NoRow, ![h].got = << >>, ![h].due = keys]

RndInit(h, mode) ==
  /\ InTransaction
  /\ CanInit(h, mode)
  /\ tx' \in Filled(tx)
  /\ Started(h, mode, cursor[h].rows)
  /\ Expecting(h, Keys(tx'.cache))
  /\ UNCHANGED <<contract, client>>

\* Outside a transaction; table_scan_to_vec appends to rnd_table_scan_data.
AutoRndInit(h, mode) ==
  /\ Autocommit /\ ~InTransaction
  /\ CanInit(h, mode)
  /\ Len(cursor[h].rows) <= Cardinality(Key)
  /\ \E rows \in Answers(Listing, << >>) :
       /\ Started(h, mode, cursor[h].rows \o rows)
       /\ Expecting(h, {rows[i].key : i \in DOMAIN rows})
  /\ UNCHANGED <<contract, tx, client>>

\* find_row, in a transaction on the cache and else on the vector.
FindRow(h, index) ==
  IF InTransaction
  THEN IF index >= Len(tx.order) THEN EndOfFile
       ELSE [key |-> tx.order[index + 1], value |-> tx.cache[tx.order[index + 1]]]
  ELSE IF index >= Len(cursor[h].rows) THEN EndOfFile ELSE cursor[h].rows[index + 1]

\* The core now has row, in mode scan as the next one.
Fetched(h, row) ==
  LET got == IF row = EndOfFile \/ cursor[h].mode = "pos" THEN heard[h].got
             ELSE Append(heard[h].got, row.key)
  IN  /\ heard' = [heard EXCEPT ![h].row = row, ![h].got = got]
      /\ IF ~InTransaction THEN UNCHANGED seen
         ELSE IF row # EndOfFile THEN See(row.key, row.value)
         ELSE IF cursor[h].mode = "pos" THEN UNCHANGED seen
         ELSE seen' = [k \in Key |-> IF k \in Range(got) THEN seen[k] ELSE Absent]

RndNext(h) ==
  /\ cursor[h].mode = "scan" /\ heard[h].row # EndOfFile
  /\ cursor' = [cursor EXCEPT ![h].position = @ + 1]
  /\ Fetched(h, FindRow(h, cursor[h].position + 1))
  /\ UNCHANGED <<contract, tx, stmts>>

\* position: the core keeps the position of the row it just got.
Position(h) ==
  /\ cursor[h].mode = "scan" /\ heard[h].row \in Row
  /\ InTransaction => tx.pending = << >>
  /\ heard' = [heard EXCEPT ![h].saved =
                  @ \cup {[index |-> cursor[h].position, key |-> heard[h].row.key]}]
  /\ UNCHANGED <<contract, tx, cursor, client>>

\* The core asks for the stored positions in any order, changes the rows it gets,
\* and does not come back to a row that it deleted.
RndPos(h, ref) ==
  /\ cursor[h].mode = "pos" /\ ref \in heard[h].saved
  /\ InTransaction => \A i \in DOMAIN tx.pending : tx.pending[i].key # ref.key
  /\ Fetched(h, FindRow(h, ref.index))
  /\ UNCHANGED <<contract, tx, cursor, stmts>>

\* Mutant of Ended: the vector keeps the rows of the scan.
EndedWithRows(h) ==
  /\ cursor' = [cursor EXCEPT ![h].mode = "closed"]
  /\ heard' = [heard EXCEPT ![h] = [Nothing EXCEPT !.saved = heard[h].saved]]

\* The scan is over; after one that deleted rows no position is used again.
Ended(h) ==
  LET saved == IF InTransaction /\ tx.pending # << >> THEN {} ELSE heard[h].saved
  IN  /\ cursor' = [cursor EXCEPT ![h] = Closed]
      /\ heard' = [heard EXCEPT ![h] = [Nothing EXCEPT !.saved = saved]]

RndEnd(h) ==
  /\ IsOpen(h)
  /\ Ended(h)
  /\ IF ~InTransaction THEN UNCHANGED tx
     ELSE \E x \in ApplyPendingRemoves(tx) : tx' = Released([x EXCEPT !.deferring = FALSE])
  /\ UNCHANGED <<contract, client>>

Operation ==
  \/ \E k \in Key, v \in Value : OtherWrites(PutOp(k, v)) \/ WriteRow(k, v)
                                  \/ WriteThrough(PutOp(k, v))
  \/ \E k \in Key : OtherWrites(RemoveOp(k)) \/ DeleteRow(k) \/ WriteThrough(RemoveOp(k))
  \/ Begin \/ Commit \/ Rollback
  \/ \E h \in Handler :
       \/ \E k \in Key : IndexRead(h, k)
       \/ \E mode \in {"scan", "pos"} : RndInit(h, mode) \/ AutoRndInit(h, mode)
       \/ RndNext(h) \/ Position(h) \/ RndEnd(h)
       \/ \E ref \in heard[h].saved : RndPos(h, ref)

Next == SetCache \/ (Operation /\ UNCHANGED useCache)

Spec == Init /\ [][Next]_vars
-----------------------------------------------------------------------------
Enumerates(s, m) == Range(s) = Keys(m) /\ \A i, j \in DOMAIN s : s[i] = s[j] => i = j

TypeOK ==
  /\ useCache \in BOOLEAN
  /\ chain \in Map
  /\ keyList \in Seq(Key) /\ Enumerates(keyList, chain)
  /\ tx \in Transaction \cup {NoTx}
  /\ InTransaction => Enumerates(tx.order, tx.cache)
  /\ cursor \in [Handler -> Cursor]
  /\ heard \in [Handler -> Heard]
  /\ seen \in [Key -> Value \cup {Absent, Unread}]
  /\ stmts \in Seq(Op)

\* With the cache, a row that the transaction wrote or removed reads as its own
\* last operation on it left it, whatever other sessions do, by key and in every
\* scan.
OwnWritesRead ==
  useCache => \A k \in Key : Touched(stmts, Len(stmts), k) =>
                 seen[k] = Outcome(stmts[LastTouch(stmts, Len(stmts), k)])

Known(S) == {k \in Key : seen[k] \in S /\ ~Touched(stmts', Len(stmts'), k)}

\* With or without the cache, a scan starts with the table as the transaction's
\* own statements left it, also if the node did not answer.
ScanStartsWithOwnWrites ==
  [][(\E h \in Handler, mode \in {"scan", "pos"} : RndInit(h, mode)) =>
       \A k \in Key : Touched(stmts, Len(stmts), k) =>
         tx'.cache[k] = Outcome(stmts[LastTouch(stmts, Len(stmts), k)])]_vars

\* With the cache, a row that the transaction read keeps its value for the
\* transaction, by key and in every scan, until the transaction changes it.
ReadsRepeat ==
  [][useCache /\ InTransaction /\ tx' # NoTx =>
       \A k \in Known(Value) : seen'[k] = seen[k]]_vars

\* A row that the transaction was told is not there does not appear.
NoPhantom ==
  [][InTransaction /\ tx' # NoTx => \A k \in Known({Absent}) : seen'[k] = Absent]_vars

\* A scan that reached its end returned every row of the table that it started
\* with, and each of them once, although rows were changed and removed on the way.
ScanComplete ==
  \A h \in Handler : heard[h].row = EndOfFile /\ cursor[h].mode = "scan" =>
                       /\ Range(heard[h].got) = heard[h].due
                       /\ Len(heard[h].got) = Cardinality(heard[h].due)

\* No row leaves the cache while a scan that has begun to return rows goes on.
RemovesDeferred ==
  [][\A h \in Handler :
       InTransaction /\ cursor[h].mode = "scan" /\ cursor'[h].mode = "scan" /\
         cursor'[h].position # None =>
           Keys(tx.cache) \subseteq Keys(tx'.cache)]_vars

\* With the cache, all through a pass over stored positions each of them gives the
\* row it was stored for, also after the pass changed and deleted rows.
PositionsHold ==
  useCache /\ InTransaction => \A h \in Handler : cursor[h].mode = "pos" =>
    \A ref \in heard[h].saved :
      LET row == FindRow(h, ref.index) IN row # EndOfFile /\ row.key = ref.key

\* COMMIT does to the contract what the transaction's statements did in their order.
CommitAppliesStatements == [][Commit => chain' = Effect(chain, stmts)]_vars
=============================================================================

# A verification of the MySQL blockchain storage engine

The repository is a MySQL 8.0.20 storage engine whose tables live in Ethereum
contracts: every SQL table is one `KVStore` contract, every row a key-value pair
in it. This directory holds TLA+ models of the engine and of the contracts, TLC
configurations that check them on small instances, and proofs checked by TLAPS.

## The system

| Part | State | Operations | Talks to |
|---|---|---|---|
| Contract `KVStore` (`eth_contracts/TableStorage.sol`) | `data`, `keyList`, one `txBuffer` per transaction identifier | put, remove, putBatch, removeBatch (at once, or into a buffer), clean, commit, tableScan, get, drop | called by the connector and by `Transaction` |
| Contract `Transaction` (`eth_contracts/Transaction.sol`) | none | commitAll | calls `commit` of each table's contract |
| Connector (`connector_impl/ethereum.cpp`) | the process-wide `nonce`, a curl handle per connector | encode a call, send it with the next nonce, poll until it is mined or the waiting time is over, decode | the Ethereum node |
| Table transaction (`blockchain_table_tx.cpp`) | puts, removes, deferred removes, scan cache, identifier, prepare workers | add_put, add_remove, reapply, wait for workers | the connector, in immediate mode |
| Handler (`ha_blockchain.cc`), row operations | cursor, scan results, a connector | write/update/delete_row, index_read, rnd_init/next/end/pos, position | table transaction, or the connector in autocommit mode |
| Handler, transaction hooks | `ha_data` of the connection: per table a table transaction and a connector pointer | start_transaction, bc_commit, bc_rollback, bc_close_connection | MySQL core, connector |
| Configuration, declaration, stubs | system variables | parse the contract addresses | |
| `eth_tools` | none | deployment scripts | |

A transaction runs as follows. The first statement on a table creates the table's
transaction and registers the engine with the MySQL core (`start_transaction`).
Writes go into its `put_operations` and `remove_operations`. At COMMIT the core
calls `bc_commit`: table by table it sends the puts, then the removes, as one call
each, to the table's contract, which appends them to the buffer of the transaction
identifier; when all tables are prepared it sends one call of `commitAll`, which
applies all buffers in one Ethereum transaction. When a prepare call fails it
sends a `clean` to every table prepared so far and returns an error.

What is hard about it: a call is a message to a chain that may lose it, mine it
late, or mine it without effect; a call is given up after a waiting time although
it is still in the pool; nonces order the calls of *all* connections and a lost
nonce blocks the later ones; the server may die between the prepare and the commit
calls; `bc_commit` can fail in the middle of its loop; and in the contract, two
structures (`data` and `keyList`) that no transaction mechanism ties together must
agree. The list `hazards` of `PROJECT.json` has each of these at its line.

What makes each part correct: the contract, that it is a map with buffers whose
commit is atomic, ordered and happens once; the hooks, that the work of a
transaction reaches all of its tables or none, and that an answered success is
true; the connector, that calls take effect in the order of their nonces and that
each ends if its requests do; the table transaction and the cursors, that a transaction reads its own
writes and the same rows twice; the handler, that no pointer outlives its target.

## The modules

| Module | Models |
|---|---|
| `KVOps` | an operation on a key (struct `TxOperation`) and the reference meaning of a list of operations |
| `KVMap` | abstract: a map with one buffer per transaction, calls that take effect at once |
| `KVStore` | the contract: `data`, `keyList`, `txBuffer`, block number, the looping call in progress |
| `KVStoreProofs` | proofs about `KVStore` |
| `MCKVStore` | its instance for TLC |
| `AtomicCommit` | abstract: a transaction is open, committed everywhere at once, or aborted |
| `CommitProtocol` | the hooks of the handler, the calls they make, the pool and the chain |
| `CommitProtocolProofs` | proofs about `CommitProtocol`: types, identifiers, waiting calls |
| `CommitRefinementProofs` | proof that `CommitProtocol` implements `AtomicCommit` |
| `MCCommitProtocol` | its instances for TLC |
| `TableTx` | the transaction of a connection on one table, its cache, and the row operations, scans and positions of the handlers that use it |
| `MCTableTx` | its instances for TLC |
| `TableTxProofs` | proofs about `TableTx` |
| `PrepareWorkers` | immediate mode: the worker threads of a transaction, COMMIT and ROLLBACK that wait for them, the setting that may change |
| `MCPrepareWorkers` | its instance for TLC |
| `PrepareWorkersProofs` | proofs about `PrepareWorkers`: types, threads and what they refer to; what is in the buffers when the commit or a clean is sent, and what the commit applies |
| `HandlerLifecycle` | handlers, their connectors, the pointers to them in `ha_data`, the map of contract addresses, the table cache of the core |
| `MCHandlerLifecycle` | its instances for TLC |
| `HandlerLifecycleProofs` | proofs about `HandlerLifecycle` |
| `AbiCodec` | from rows to calls, from calls to the arguments the contract receives, and from answers back to rows |
| `MCAbiCodec` | its instance for TLC |
| `AbiCodecProofs` | proofs about `AbiCodec` |
| `CallQueue` | abstract: a queue of calls with holes, mined in order |
| `EthConnector` | the nonce shared by all connectors, how a call is sent, retried and polled, the node's pool |
| `MCEthConnector` | its instances for TLC |
| `EthConnectorProofs` | proofs about `EthConnector` |

### KVStore

The variables are the state variables of the contract, the block number and the
frame of a call that loops. A slot with block number 0 is an absent row, as in the
code. `put` tests the block number and `remove` scans `keyList`; the model keeps
the two tests apart (`PutKeys`, `RemoveKeys`, `RemoveData`). `commit`, `putBatch`
and `removeBatch` run one iteration at a time on a working copy of the storage,
and end in `Finish`, or in `OutOfGas`, which drops the copy. No other call starts
in between, as the EVM runs one transaction at a time; the refinement shows that
the intermediate steps cannot be seen. `getBatch` and `getFirstTxOp` are views of
the same state and are left out. `drop` erases the contract.

### CommitProtocol

`ha[c][t]` is the table transaction of connection `c` for table `t`, with its
identifier and the operations it buffers; `registered[c]` whether the core will
call the engine at COMMIT; `frame[c]` the local variables of a running `bc_commit`
and the state of the connector call it waits for. `pool` holds what was sent and not mined,
in the order of the nonces; `buffer` and `store` are the contracts' buffers and
the operations they applied. `work` and `answer` are what the client asked for and
was told; they only serve the properties.

Every connector call is two actions: `Send` (or `SendFails`), and the return that
reads its result. Between the two, the chain mines, `TimeOut` may give up the
call, and other connections run. A call that was given up stays in the pool without a
caller. `SendFails` spends a nonce and may leave a hole behind which nothing is
mined. `Revert` mines a call without effect; the connector cannot tell
(`ethereum.cpp:447`). `Crash` empties the memory of the server and leaves pool and
chain as they are.

Two constants stand for what the repository's sources do not decide:
`RevertAllowed`, whether calls may be mined without effect (out of gas, a wrong
contract address), and `CoreRollsBack`, whether the MySQL core calls `bc_rollback`
after `bc_commit` failed and asked for it with `transaction_rollback_request`.

The keys and values of operations are abstracted away here and kept in `KVStore`.
Each operation carries the transaction that issued it, so that `store` shows whose
work was applied.

### TableTx

`tx` is the `blockchain_table_tx` of one table: the three lists of operations, the
contents of `table_scan_data` with the order in which it is iterated, and the two
flags. `cursor[h]` is the state of a handler: `current_position` and the vector it
scans outside a transaction. `chain` and `keyList` are the rows of the
contract and the order it lists them in; other sessions change them at any time
(`OtherWrites`). The actions are the handler's methods: `WriteRow` (also
`update_row`), `DeleteRow`, `IndexRead`, `RndInit`, `RndNext`, `Position`, `RndPos`,
`RndEnd`; those outside a transaction have actions of their own (`WriteThrough`,
`AutoRndInit`). Commit is one step here; `CommitProtocol` has its parts.

An `unordered_map` that gets a new element may rehash and iterate in any order
afterwards (`Orders`); without new elements it keeps its order. That is why updates do
not disturb a scan and why a cached transaction may insert only between scans.

`stmts` and `seen` say what the client did and was told, `heard` what the core
heard in the current scan, with the positions it `saved`. The guards on them are the
core's behaviour: it changes rows that it just fetched or found by key
(`Statement`). It may store the position of any number of rows of a scan, and then, as a
positional UPDATE or DELETE and a sorted SELECT do, ask for them in any order and any
number of times (`RndPos`) and change the rows it gets; it does not come back to a row
that it deleted, stores no position in a scan that has deleted rows, uses none after the pass
that deleted rows (`Ended`), and does not restart a scan that deletes
(`CanInit`). It stores positions of rows it got from `rnd_next` (`ha_blockchain.cc:640`):
after `rnd_pos`, which leaves `current_position` alone, `position` would store a wrong one. `index_read` of a missing row returns success and an empty row, which
the model takes for the answer that the row is absent.

`useCache` is `bc_use_ts_cache`, a global setting that any session changes
(`SetCache`). Without the cache nothing promises that reads repeat; a scan
still starts with the transaction's own writes (`ScanStartsWithOwnWrites`).

### PrepareWorkers

With `bc_tx_prepare_immediately` = 1 each row operation starts a thread that sends
it to the buffer of the contract; `bc_commit` joins the threads and then sends the
commit. `ops` are the operations of one transaction in program order, and the
worker of operation `n` is the actor `n`; `call[n]` is how far its connector call is
and whether it has reported (`Report`, under the mutex). `Main` is the thread of
the connection, whose `frame` has the local variables of `bc_commit` and
`bc_rollback`. The calls of all actors share one queue of nonces (`pool`), as
`EthConnector` shows. The `tx[t]` is destroyed in `DestructorReturned`, which joins
workers that `bc_commit` and `bc_rollback` did not wait for: that is the case when
the setting was switched off in between (`Switch`), which then sends every operation
a second time, in a batch.

### HandlerLifecycle

`handler[h]` is a handler with the connector it owns: the contract its connector is
bound to, the table, and the name (`table->alias`) of the statement that uses it.
`ha[c][n]` is the entry of `ha_data` of connection `c` for name `n`: whether it has a
table transaction, the tables whose rows that one holds, and the raw pointer.
`info` is `table_contract_info`. The core is external: its table cache opens a
handler or hands out a free one without telling the engine (`Open`, `Reuse`), takes
it back (`EndStatement`), and destroys it (`Evict`) when no transaction holds a
metadata lock on its table, or also otherwise when the cache overflows
(`CacheOverflows`). `find_connector` writes the pointer, `start_transaction` writes
it again, and only that makes it good: the handler it points to belongs to a table
that the transaction uses.

### AbiCodec

Data are sequences of bytes, words have `WordSize` of them (32 in the code). A call
is a sequence of words (`Words`), laid out by the operators that carry the code's
names, with its offsets (64, 96 + 32 * size, ...) as multiples of the word size,
and joined to bytes (`Joined`). `NumericToHex` divides a number by 256 once for
each byte (`Shifted`). `Decode` is the Solidity side, which is
external: it finds arrays by the offsets that it reads, and rejects data that
lead out of the call. `SizeToHex` prints the number of addresses of a commit in
decimal digits, as the code does. `ScanTuple` and `IndexRow` take an answer apart;
`FindRow` adds the cleared NULL flags. One call runs at a time.

### EthConnector

`nonce` is `Ethereum::nonce`, `lock` its mutex, `thread[t]` the local state of a
connection's thread in the constructor and in `call`. The steps follow the code:
the test of the nonce, the count's answer and the store are three, as a
call of another thread may draw a nonce between them; the draw is one, as it is atomic;
the answer of the node is another. A nonce of 0 is left out of the request
(`PlaceOf`). The node keeps one call per nonce and answers as go-ethereum does, whose
messages the code compares with. A call that another holds the nonce of is refused
for its price (`Underpriced`), which the connector does not retry.

`Holder` maps the nonces from the next to be mined to the last that was drawn to a
queue of calls: a call enters it when it draws its nonce, and becomes a hole when its
request is lost. `CommitProtocol` takes its `pool` for that queue. It keeps
holes forever; a restart may fill one, see "Where the properties end".

Definitions with a comment "Mutant of X" are not part of the models: they are
wrong versions of a definition, used to see that each property would notice.

## The runs

| Run | Instance | Checks |
|---|---|---|
| `kvstore` | 2 keys, 2 values, 1 transaction, batches of 2, buffer of 3 operations, 2 blocks | `TypeOK`, `KeyListIndexesData`, `ImplementsKVMap` |
| `commit` | 2 tables, at most 3 operations in all; 1 connection with 2 transactions of at most 2 operations per table, or 2 connections with 1 transaction each | `LiveTxRegistered`, `OkMeansApplied`, `OneIdPerTransaction`, `ImplementsAtomicCommit` |
| `commit_returns` | 1 connection, 2 tables, 2 transactions, 2 operations in all, with reverts, without rollback by the core, with fairness | `TypeOK`, `CommitIsAlone`, `OrphanedByFailure`, `CommitReturns` |
| `table_tx` | with and without the cache, in and outside of transactions, 1 handler, 2 keys, 2 values, transactions of at most 3 operations, failing reads, restarted scans | `TypeOK`, `OwnWritesRead`, `ScanComplete`, `PositionsHold`, `RemovesDeferred`, `ReadsRepeat`, `CommitAppliesStatements`, `ScanStartsWithOwnWrites` |
| `eth_queue` | 3 threads with 2 calls each, 1 lost request | `NoReplacement`, `ImplementsCallQueue` |
| `eth_faults` | 2 threads with 1 call each, an account without transactions, one fault of each kind, with fairness | `TypeOK`, `MinedOnce`, `NoGap`, `CallReturns` |
| `reverted_prepare` | 1 connection, reverts allowed | `AllOrNothing` is violated |
| `phantom_row` | cache, other sessions insert | `NoPhantom` is violated |
| `prepare_workers` | 2 tables, 2 operations, 1 lost nonce, the setting may be switched off, with fairness | `TypeOK`, `WorkersHaveTheirTx`, `CommitIsPrepared`, `AppliedWhole`, `CleanIsLast`, `CommitReturns` |
| `handlers` | 2 connections, 3 handlers, 2 tables with a contract and 1 without | `TypeOK`, `ConnectorAlive`, `CommitReachesTables` |
| `codec` | words of 4 bytes, 3 keys, 2 values, 2 identifiers, batches of at most 2, commits of 1 to 9 tables | `TypeOK`, `ReceivedAsSent`, `ReadReturnsWritten` |
| `aliased_table` | 1 connection, 2 tables, 1 alias | `CommitReachesTables` is violated |

Bounds. Two keys are enough for an overwrite, a removal of the last and of another
element of `keyList`, and two operations on one key in one buffer; a buffer of
three has room for put, remove, put. Two tables make a multi-table commit with a
prepared and an unprepared table; two transactions on a connection let a late call
of the first meet the second; two connections let holes and late calls of one meet
the other. One hole (`MaxHoles`) already blocks the pool for good. `MaxTx`,
`MaxOps` bound what clients do, `MaxWrites` (a state constraint that only stops new
operations, so that it also suits liveness) the operations of all transactions together, `MaxBlock` and `MaxBuffer` the block
number and the buffers.

In `TableTx` two keys are enough for a row that is skipped or returned twice, for a
swap of the contract's key list and for a rehash that swaps the iteration order; a
transaction of three operations can update, delete and touch another key; the
chain changes without bound. One of the two values is the zero that a missing slot
of the contract reads as. In `EthConnector` three threads
make every order of draw, send and mining of neighbouring nonces; one lost request
makes one hole; `NonceMod` = 16 is far above the nonces that are reached, so that a
wrap only happens where the code wraps, below 0. `MaxPolls` stands for the waiting time.

In `PrepareWorkers` two operations put two workers on one table or on two, so that
nonces, reports and joins come in every order; `MaxHoles` = 1 blocks either
worker or the commit. Tables are interchangeable there, and the constraint
`InFixedOrder` names the first instead of a symmetry set, which
liveness does not allow. Keys are left out: no property of that module depends on them. Three handlers are enough for a pointer to one that was destroyed or
passed to the other connection while a third is in use. Words of four bytes
have room for keys and values that are shorter than a word, for every offset
of a batch of two and for every count up to nine; a batch of two puts one key twice.

Deadlock is checked for `TableTx` and `AbiCodec`. It is not in the other models: the clients may
have used up their transactions or calls, and a dropped contract takes no call.

Fairness. In `CommitProtocol` it is weak fairness of each thread inside `bc_commit`,
in `PrepareWorkers` of the connection's thread inside `bc_commit` or `bc_rollback` and
of each worker: threads run, and a polling loop ends by itself (`check_mining_result`
counts its waiting time), so a call is answered or given up. This presumes that each
HTTP request ends, which the code does not see to: `curl_easy_perform`
(`ethereum.cpp:508`) has no time-out, and the waiting time does not count what is spent in it.
Nothing is assumed about the chain: it may never mine.

`EthConnector` presumes less. Only the steps that a thread does by itself (`Local`) are
fair there; the answer to a request (`Answer`), like a start, mining and faults, may never come.
A node that takes the connection and never answers hangs the call, or a constructor, which
holds `nonce_init_mtx` meanwhile, so that the others wait. `CallReturns` says that
there is no other way to hang: neither polling nor retrying goes on for ever. For
the retries this rests on bounds of the run, as the code has none: another client takes one nonce, and
a thread constructs at most one connector before each of its calls. A client that
kept taking nonces, or constructors that kept resetting the nonce of an account with
one mined call, could keep a call retrying.

### What the runs found

`reverted_prepare`: `check_mining_result` (`ethereum.cpp:447`) takes a call for
successful when it has a block number and does not look at the receipt's status.
A prepare call that ran out of gas counts as prepared, and the commit then applies
the operations of the other calls: the atomic commit that `ha_blockchain.cc:1039`
announces is partial.

`phantom_row`: `index_read` returns at `ha_blockchain.cc:533` for a missing row
without noting it, so the cache that `blockchain_table_tx.h:39` builds against
phantoms does not prevent one. That rows which were read repeat holds
(`ReadsRepeat`).

`aliased_table`: `open()` looks the contract up by `table->alias`
(`ha_blockchain.cc:236`). A statement that gives its table an alias, and whose
handler is opened for it, gets a connector without a contract address; at COMMIT
line 1043 inserts the alias into the shared map with an empty address and
names that in the commit. "One contract per table" (line 1307) does not hold.

What holds is also worth a note. For an account without calls
`std::max((ulong) 0, tmp_nonce - 1)` (`ethereum.cpp:131`) is 2^64 - 1; the next draw is
0, which the request leaves out, and the node chooses the right nonce (`NoGap`).
The race of the workers for nonces loses nothing: all of the operations are
applied or none (`AppliedWhole`). Their order it may change, see below. The raw pointers in `ha_data` are good because
`start_transaction` stores them again, not because `find_connector` stored them.

### Where the properties end

Each of these changes of a configuration makes the named property fail; the runs
keep to the other side of the border.

| Change | Fails | Why |
|---|---|---|
| `CoreRollsBack = FALSE` in `MC_Commit` | `LiveTxRegistered` | `bc_commit` returns from inside its loop (`ha_blockchain.cc:1031`) although its message says "Transaction is deleted": later tables keep their transaction, and the next one inherits it without being registered |
| a second handler in `MC_TableTx` | all but `TypeOK`, `CommitAppliesStatements` | removes are deferred for the table, not for the scan: when a statement opens a table twice under one alias, the end of the inner scan removes rows under the outer one, whose position then skips rows and whose stored positions give others; until then a deferred remove is not seen by key, and an inner scan starts with its row |
| `OwnWritesRead` without `useCache` | `OwnWritesRead` | `index_read` returns at line 533 before it applies the pending operations: without the cache a transaction does not find its own new row by key |
| `PositionsHold` without its condition | `PositionsHold` | outside a transaction a position is an offset into rows that the next `rnd_init` reads again |
| `Rescans = {TRUE, FALSE}` in `MC_TableTx` | `ScanComplete` | outside a transaction `rnd_init` appends to the rows of a scan that was not ended (line 596), although `ha_blockchain.h:284` allows the call |
| `CacheTurns = TRUE` in `MC_TableTx` | `OwnWritesRead`, `ScanStartsWithOwnWrites`, `ReadsRepeat`, `PositionsHold` | `rnd_end` clears the cache (line 615) and leaves `table_scan_data_filled`: when the cache is switched on within the transaction, the next scan takes the empty cache for the table |
| `Reinserts = TRUE` in `MC_TableTx` | `CommitAppliesStatements`, `OwnWritesRead`, `ScanStartsWithOwnWrites` | `bc_commit` sends all puts (line 1003) before all removes (line 1010), and a read that fetches rows applies them to the cache in that order: a key that is deleted and inserted again ends without its row |
| the order of the statements asked of `AppliedWhole` (`store[t]` increasing) | that property | two workers of one table race for the nonce: when both write one row, the chain keeps the one with the later nonce, whichever statement came last |
| `Settings = {FALSE}`, `Switches = {TRUE}` in `MC_PrepareWorkers` | `CommitIsPrepared`, `AppliedWhole` | `bc_commit` reads the setting again (line 998): switched on in the middle of a transaction, it waits for workers that do not exist and commits without sending anything |
| `CacheOverflows = TRUE` in `MC_Handlers` | `ConnectorAlive` | when the core frees an unused handler of a table whose transaction is open, COMMIT uses the pointer to its connector |
| a commit of 10 tables in `MCAbiCodec` | `ReceivedAsSent` | the count is printed in decimal and read in hexadecimal (`ethereum.cpp:580`): the contract expects 16 addresses, reverts, and the revert counts as success |
| a value longer than a word in `MCAbiCodec` | deadlock | `byte_array_to_hex` stops the server (`ethereum.cpp:33`), although `ha_blockchain.h:123` admits 200 bytes |
| a row with a NULL flag in `MCAbiCodec` | `ReadReturnsWritten` | the flags are not part of what is stored, and `find_row` clears them |
| a crash (`MaxCrashes = 1`) in `MC_EthQueue` | `ImplementsCallQueue`, `NoReplacement` | the nonce is initialised from the mined calls only (`ethereum.cpp:122`): the calls of before the crash that still wait have nonces that are drawn again, and the node refuses the new call for its price or takes it for a replacement |
| `StartCount = 1`, two threads that construct connectors, in `MC_EthQueue` | `ImplementsCallQueue`, `NoReplacement` | 0 counts as not initialised, but with one mined call it is a proper value: a constructor that tested it stores it again after another thread's first call drew a nonce |
| another client of the account (`MaxForeign = 1`) in `MC_EthQueue` | `ImplementsCallQueue`, `NoReplacement` | its call takes the nonce that the next draw returns |
| an unusable answer to a constructor (`MaxUncounted = 1`) in `MC_EthQueue` | `ImplementsCallQueue`, `NoReplacement` | the nonce stays 0 and the constructor unlocks: calls draw nonces after the next constructor has tested it for 0, and then it sets the nonce back |
| a request that curl sends twice (`MaxResends = 1`) in `MC_EthQueue` | `ImplementsCallQueue` | the call is in the queue twice; `NoReplacement` holds |

A request that curl sends twice is answered "already known" and then sent again with
the next nonce (`AcceptedTwice`), so its call may be mined twice. The operations of
a call are applied to a buffer, where a second copy changes nothing, or are a
commit, whose second copy finds the buffers empty; outside a transaction they
are puts and removes of a key, and the second copy may overwrite what another
connection wrote in between. `MinedOnce` speaks of the behaviours without it.

## The proofs

`KVStoreProofs` (for any keys, values, identifiers, batches and bounds):
`TypeCorrect`, `IndexCorrect` and `Refinement`, the implementation of `KVMap`.
The inductive invariant says of both the storage and the working copy of a running
call that they are typed and that the key list indexes the data, and that the working
copy is the storage after the first `i` operations (`EffectUpTo`). The lemmas at
the start say what `PutKeys`, `RemoveKeys` and `RemoveData` do to the index, and how
`EffectUpTo` grows by one operation; with them the loop maps to stuttering and
`Finish` to the abstract call.

`CommitProtocolProofs` (for any connections, tables, identifiers and bounds, with
either value of the two flags): `TypeCorrect`, `OneId`, `CommitAlone` and
`OrphansByFailure`. That a
commit is alone in the pool is not inductive: it rests on what the thread knows.
The strengthening says that everything in the pool was drawn (`DrawnIds`), that
the call a thread waits for is behind all other calls under its identifier
(`AwaitedCall`), so that a confirmed call proves that its predecessors were mined
too (`ConfirmedIsClear`), that a waiting commit belongs to the thread that sent it
(`CommitOwned`), and how the local variables of `bc_commit` relate to `ha_data`
(`FrameShape`). The induction has a case for each action; steps that leave the
pool alone share `LocalStep`, those that send share `AppendCall`. `OrphansByFailure`
follows from these facts: `bc_commit` has moved every table transaction out of
`ha_data` when it returns from its end, so only its return from inside the loop orphans
any. The refinement needs the lemma `LiveRegistered`, that there are none if the
core rolls back.

`CommitRefinementProofs` (for any connections, tables, identifiers and bounds):
`AnsweredOk` and `Refinement`, the implementation of `AtomicCommit`. They assume
`~RevertAllowed`, since the run `reverted_prepare` shows what a revert does, and
`CoreRollsBack`, without which a transaction inherits what an earlier one left. The
strengthening `RInv` follows the work of a transaction: `WorkHeld` says which part
of it is still in `ha_data` and which in the local variables of `bc_commit`;
`Prepared`, that as long as nothing failed the buffers under the identifier hold
exactly the tables prepared so far and the calls in the pool add the rest of the
current one; `CommitsReady`, that a commit call in the pool, also one whose
thread has given up or whose server has died, finds the buffers of all its tables
complete and its transaction undecided. The last needs to know whose identifier a
call bears after the connection went on: an `owner` of every identifier drawn exists
(`Owned`). `History` ties the stores to the answers. A block with a commit call maps
to `Commit` of its owner, a rollback and a failed preparation to `Abort`, a write to `Issue`,
everything else stutters.

`EthConnectorProofs` (for any threads, bounds, width of the nonce and number of
calls mined before): `TypeCorrect` and `NoDoubleMining`. No call is
mined twice because the code retries only after an answer which shows that the
node does not keep this request. The strengthening says so: as long as curl has not
resent a request, a call is in the pool once or was mined once (`SentOnce`), and the
node knows nothing of the calls to come, nor of the call of a thread that does not
poll (`Unsent`). It is also needed that the pool is finite: only then is there a free
nonce for a call that names none, by the pigeonhole principle (`NextPlaceFree`).
Steps that send nothing share `LocalStep` and `ReturnStep`, those that send `SendStep`.

`NoneReplaced`, `GapFree` and `ImplementsQueue` have a second invariant, `QInv`. Under
the one lock of the constructors, exactly one sets the nonce, and does so before the first call;
from then on the nonce is the number of mined calls at the start, less one, plus the draws
(`Initialised`). So the draws do not wrap if the nonce is as wide as the calls need, and each nonce from the next to
be mined to the last that was drawn belongs to one call at most, in the pool or on its
way (`OnePlace`), and to exactly one while no request was lost (`Filled`). Then the node
never has a reason to ask for another nonce (`NoRetry`). The refinement reads
the queue off these nonces (`PlacesOk`): a draw is `Enter`, a lost request `Lose`, a
block `Mine`, everything else stutters. Assumed are `NonceFits` - the width, and two
mined calls at the start, since with less the constructor computes a value that
wraps or that counts as not initialised - and that neither another client, nor a crash, nor
a constructor without an answer interferes (`NoDisturbance`); the table above shows that
none of these can be dropped. Only the refinement excludes requests that curl sends
twice. `NoGap` with fewer mined calls is what the run `eth_faults` checks.

`HandlerLifecycleProofs` (for any connections, handlers, tables and aliases):
`TypeCorrect` without conditions; `PointersAlive` as long as the cache does not overflow;
`CommitReaches` when in addition no statement uses an alias and
every written table is configured (`Plain`), which is the border that the run
`aliased_table` shows from the other side. That pointers are alive is not inductive: the strengthening says that a
connection that uses a handler in a transaction, or has a table transaction that
points to one, has the handler's table among those it used, and that a table in
use keeps its handlers. For the contracts, it says that every handler is named after and bound to the
contract of its table (`Named`), that a table transaction holds rows of its own
table only (`OwnRows`), and that what was written is still there at COMMIT
(`WroteRows`).

`TableTxProofs` (for any keys, values, flags and modes): a theorem for each of the eight
properties of the run `table_tx`, each under the conditions it needs and
no others. `TypeCorrect` has none. `CommitApplies` needs `~Reinserts`, with any number of handlers.
The others are about one handler of the table (`OneHandler`); `CompleteScans` also
needs `FALSE \notin Rescans`, `StoredPositions`, `OwnWrites`, `ScanStarts` and
`RepeatedReads` need `~CacheTurns`, and `OwnWrites` and `ScanStarts` need
`~Reinserts`. Each condition is the other side of a row of the table above. The argument
relates the places where a transaction keeps what it did. `DeferInv`: removes wait only while
a scan is open. `OpsInv`: every statement is in one of the three lists of operations,
and what the puts and then the removes leave of a key is what its last
statement left (`OpsCommitted`); this alone carries COMMIT. `TxScans`: an open scan has
returned the first rows in the order of the cache, as many as its position says
(`Walk`), and every waiting remove is of a row behind it; so the end of the scan is the
end of the cache, and the waiting removes take no row from it. That the cache
keeps its order, as no row enters it while a scan is open, is the lemma
`OrderStays`; that the rows the contract lists are its rows, each once, is
`ListAfterAllEnumerates`. `AutoScans` is the same for a scan outside a
transaction over its own vector. `Positions`: as long as positions are stored, the
cache is filled and has their rows at their places. A pass over them keeps this: it
updates rows that are in the cache, so the order stays, and its removes wait; when they
are applied, the positions are forgotten. `Cells`: a row in the cache is as the last statement on it left
it, unless its remove waits, and a row that was read and not
changed is in the cache with the value that was told. Each reading step keeps `Cells`
because it takes what it tells from the cache (`ReadsCache`).

`PrepareWorkersProofs` (for any tables, bounds, settings and switches):
`TypeCorrect` and `WorkersKeepTheirTx`. Every path through COMMIT and ROLLBACK
destroys table transactions in `DestructorReturned`, which joins what is left of the
workers: that saves the paths on which the setting kept `bc_commit` or `bc_rollback`
from joining them. The strengthening says that only
workers of operations run (`Employed`), that an awaited call is in the pool once, so
that a block answers the actor that waits (`Callers`), and that the loops of
`bc_commit` and `bc_rollback` have only table transactions ahead of them that exist
(`FrameShape`).

Its second part (for any tables, bounds and initial settings) proves `CommitPrepared`
and `CleanLast`, as long as no session switches the setting on during the
transaction (`TRUE \notin Switches`, the border of the table above); it may be switched
off at any point. Both are about calls that race for nonces, and rest on what is
known without asking the node: what a worker
reported, or is about to report, is in the buffer (`WorkerTruth`), as is what
`bc_commit` has confirmed (`MainTruth`). For the commit it is needed in addition that the loop
still has every table ahead of it whose transaction exists (`MainPlace`), so that
none is skipped; for the clean, that the tables it undoes have no running worker
(`CleanAfterJoin`), so that the calls still in the pool were sent before it. Both
need that a call in the pool is the one that its actor asked for (`Asked`).
`WholeApplied` carries this through the block that mines the commit: the commit names every
table with operations (`AffectedAll`), so each complete buffer is applied
(`AppliedAll`), also when `bc_commit` has given the call up by then.

`AbiCodecProofs` (for words, keys, values, rows, identifiers and batches of any
size): `TypeCorrect` without conditions; `CallsUnderstood` for commits of fewer than ten
tables (`CommitsSmall`); `ReadsReturnRows` for rows whose NULL flags are clear
(`FlagsClear`), while `Invariance` says for all rows what is returned, the row with
its flags cleared. The table above has what is on the other side of the two
conditions, and `LargeCommitReverts` proves it for ten to ninety-nine tables: the
contract rejects the commit. The argument goes up in layers. A number that fits a word
is read as it was written (`NumberIs`): what the bytes read so far give is the number
without the bytes to come. Joined words are found again at multiples of the word size
(`WordAtIs`), so an array is read whole from an offset and a count that are right
(`ArrayIs`). For every function, with an identifier and without, the offsets the
connector writes are right (`BatchOffsetsAre`, `RemoveOffsetIs`), and the decoder
returns the arguments (`DecodePlain`, `DecodePutBatch`, `DecodeRemoveBatch`,
`DecodeCommit`). The inductive invariant `IInv` relates what the handler asked, what
was sent, what is stored and what comes back: its heart is `Mirror`, that the contract
holds for each row the word of its key with the word of its value, and nothing else.
That this survives a batch that puts one key twice is `MirrorPuts`, which rests on
the padding of keys of one length being injective (`PaddedApart`). As there is no
induction over data, recursive functions are reasoned about by their least argument
with a wrong value (`Least`).

The assumptions are the named `ASSUME`s of the modules: the special values
(`NoConn`, `NoId`, `NoTx`, `Absent`, `NoThread`, `Foreign`, `Hole`) are none of the ordinary
ones, bounds are natural numbers, batches are sequences of operations, the keys of
a table are finitely many; in `AbiCodec`, rows are finitely many, identifiers are
half a word long, addresses no longer than a word, and a word can number the rows of
a table and the bytes of a batch. TLC evaluates them on every run.

Only model-checked: the `CommitReturns` of two modules and `CallReturns`, since
liveness under fairness is out of the prover's reach. Every other property of a
passing run has a theorem (`LiveTxRegistered` the lemma `LiveRegistered`).

## Not modelled

`TableTx` has no boundaries of statements inside a transaction, so the missing
rollback of a single statement (`bc_rollback` returns an error for it) is outside
of it. `PrepareWorkers` has one transaction; that late calls of one transaction do
not meet the next is the matter of `CommitProtocol`, as identifiers are the
same in both modes. Hexadecimal digits, JSON and the text of answers are abstracted
to the bytes and outcomes they stand for. The declaration of the plugin, optimizer
estimates and methods that only return an error keep no state. `json.hpp`, the
contract ABI files and the build files are vendored or generated; the scripts under
`eth_tools` share no state with the engine. Most lines of the repository are
`json.hpp`, so the share of lines that the map covers stays small.

## Plan

1. `KVOps`, `KVMap`, `KVStore`, with proofs - done.
2. `AtomicCommit`, `CommitProtocol`, with the proofs of the invariants and of the
   refinement - done.
3. `TableTx`, with proofs of its eight properties - done.
4. `CallQueue`, `EthConnector`, with the proofs of `MinedOnce`, `NoReplacement`,
   `NoGap` and of the refinement - done.
5. `PrepareWorkers`, with proofs of `TypeOK`, `WorkersHaveTheirTx`, `CommitIsPrepared`,
   `AppliedWhole` and `CleanIsLast` - done.
6. `HandlerLifecycle`, with proofs - done.
7. `AbiCodec`, with proofs of `TypeOK`, `ReceivedAsSent` and `ReadReturnsWritten` - done.

--------------------------- MODULE CommitProtocol ---------------------------
(***************************************************************************)
(* COMMIT and ROLLBACK over several tables: the handler's transaction      *)
(* hooks (ha_blockchain.cc), the result of the connector calls they make   *)
(* (ethereum.cpp) and the chain that executes the calls.                   *)
(*                                                                         *)
(* A connection buffers its operations per table.  bc_commit sends each    *)
(* table's operations to the buffer of that table's contract, waiting for  *)
(* each call to be mined, and then one call that commits the buffers of    *)
(* all tables.  When a call fails it cleans what it prepared.  A call may  *)
(* be given up while it is still in the pool and be mined later.           *)
(*                                                                         *)
(* Operations are prepared at COMMIT (bc_tx_prepare_immediately is 0, the  *)
(* default); their keys and values are left out, see KVStore for what a    *)
(* contract does with them.                                                *)
(***************************************************************************)
EXTENDS Integers, Sequences, FiniteSets

CONSTANTS
  Conn,            \* client connections, one THD and one thread each
  NoConn,          \* the caller of a call nobody waits for any more
  Table,           \* the SQL tables, one KVStore contract each
  TxId,            \* the UUIDs that the random generator draws
  NoId,            \* a frame that has no transaction identifier yet
  NoTx,            \* a null pointer to a table transaction
  RevertAllowed,   \* whether a mined call may have reverted
  CoreRollsBack,   \* whether the MySQL core calls bc_rollback after bc_commit failed
  MaxTx,           \* bound: transactions of each connection
  MaxOps,          \* bound: operations of a transaction
  MaxHoles         \* bound: nonces that are lost with a failed send

ASSUME NoConnAssumption == NoConn \notin Conn
ASSUME NoIdAssumption   == NoId \notin TxId
ASSUME FlagAssumption   == RevertAllowed \in BOOLEAN /\ CoreRollsBack \in BOOLEAN
ASSUME BoundAssumption  == MaxTx \in Nat /\ MaxOps \in Nat /\ MaxHoles \in Nat

\* The n-th transaction that a client runs over connection c.
Tx == Conn \X (1..MaxTx)

\* A put or a remove (deleteEntry), with the transaction that issued it.
Op == [tx : Tx, deleteEntry : BOOLEAN]

TableTx == [id : TxId, puts : Seq(Op), removes : Seq(Op)]

ASSUME NoTxAssumption == NoTx \notin TableTx

VARIABLES
  ha,           \* ha_data: the table transactions of each connection
  registered,   \* whether the core knows that the engine takes part
  turn,         \* the number of each connection's current transaction
  used,         \* identifiers drawn so far
  frame,        \* the bc_commit call in progress on each connection
  pool,         \* chain transactions that were sent and not yet mined, by nonce
  buffer,       \* txBuffer of each contract
  store,        \* the operations applied to each contract, in order
  work,         \* what each transaction asked for
  answer        \* what the client was told

session == <<ha, registered, turn, used>>
chain   == <<pool, buffer, store>>
client  == <<work, answer>>
vars    == <<session, frame, chain, client>>

Answers == {"none", "ok", "prepareFailed", "commitFailed", "rolledBack", "lost"}

Entry == [kind : {"batch", "clean", "commit", "hole"}, tables : SUBSET Table,
          id : TxId \cup {NoId}, ops : Seq(Op), by : Conn \cup {NoConn}]

Hole == [kind |-> "hole", tables |-> {}, id |-> NoId, ops |-> << >>, by |-> NoConn]

(***************************************************************************)
(* The local variables of bc_commit.  pc: the call it makes or waits for.  *)
(* todo: the tables its loop has left.  affected: the vector               *)
(* affected_tables, whose order is that of an unordered_map.  cur: the     *)
(* tables the next call is for.  tx: the table transaction moved out of    *)
(* ha_data last.  ok: success_prepare.  call: the state of the call.       *)
(***************************************************************************)
Frame == [pc : {"idle", "tables", "puts", "removes", "undo", "commit"},
          todo : SUBSET Table, affected : SUBSET Table, cur : SUBSET Table,
          tx : TableTx \cup {NoTx}, ok : BOOLEAN,
          call : {"none", "sent", "mined", "failed"}]

Idle == [pc |-> "idle", todo |-> {}, affected |-> {}, cur |-> {}, tx |-> NoTx,
         ok |-> TRUE, call |-> "none"]

NoWork == [puts |-> << >>, removes |-> << >>]

Current(c) == <<c, turn[c]>>

\* The tables of c that have a table transaction.
Live(c) == {t \in Table : ha[c][t] # NoTx}

\* Mutant of IsReadOnly: a transaction that only deletes counts as read-only.
IsReadOnlyByPuts(tx) == tx.puts = << >>

IsReadOnly(tx) == tx.puts = << >> /\ tx.removes = << >>

-----------------------------------------------------------------------------
Init ==
  /\ ha = [c \in Conn |-> [t \in Table |-> NoTx]]
  /\ registered = [c \in Conn |-> FALSE]
  /\ turn = [c \in Conn |-> 1]
  /\ used = {}
  /\ frame = [c \in Conn |-> Idle]
  /\ pool = << >>
  /\ buffer = [t \in Table |-> [i \in TxId |-> << >>]]
  /\ store = [t \in Table |-> << >>]
  /\ work = [x \in Tx |-> [t \in Table |-> NoWork]]
  /\ answer = [x \in Tx |-> "none"]

\* The client sends statements of its current transaction.
CanIssue(c) == frame[c].pc = "idle" /\ turn[c] <= MaxTx

\* Mutant of StartTransaction: the constructor always draws an identifier.
StartWithFreshId(c, t) ==
  /\ CanIssue(c)
  /\ ha[c][t] = NoTx
  /\ \E i \in TxId \ used :
       /\ ha' = [ha EXCEPT ![c][t] = [id |-> i, puts |-> << >>, removes |-> << >>]]
       /\ used' = used \cup {i}
  /\ registered' = [registered EXCEPT ![c] = TRUE]
  /\ UNCHANGED <<turn, frame, chain, client>>

(***************************************************************************)
(* external_lock and start_stmt call start_transaction, which creates the  *)
(* table's transaction unless there is one.  The constructor copies the    *)
(* identifier of any other table transaction of the connection.            *)
(***************************************************************************)
StartTransaction(c, t) ==
  /\ CanIssue(c)
  /\ ha[c][t] = NoTx
  /\ \E i \in IF Live(c) = {} THEN TxId \ used ELSE {ha[c][u].id : u \in Live(c)} :
       /\ ha' = [ha EXCEPT ![c][t] = [id |-> i, puts |-> << >>, removes |-> << >>]]
       /\ used' = used \cup {i}
  /\ registered' = [registered EXCEPT ![c] = TRUE]
  /\ UNCHANGED <<turn, frame, chain, client>>

CanWrite(c, t) ==
  /\ CanIssue(c)
  /\ ha[c][t] # NoTx
  /\ Len(ha[c][t].puts) + Len(ha[c][t].removes) < MaxOps

\* write_row and update_row: add_put.
WriteRow(c, t) ==
  LET op == [tx |-> Current(c), deleteEntry |-> FALSE]
  IN  /\ CanWrite(c, t)
      /\ ha' = [ha EXCEPT ![c][t].puts = Append(@, op)]
      /\ work' = [work EXCEPT ![Current(c)][t].puts = Append(@, op)]
      /\ UNCHANGED <<registered, turn, used, frame, chain, answer>>

\* delete_row: add_remove.
DeleteRow(c, t) ==
  LET op == [tx |-> Current(c), deleteEntry |-> TRUE]
  IN  /\ CanWrite(c, t)
      /\ ha' = [ha EXCEPT ![c][t].removes = Append(@, op)]
      /\ work' = [work EXCEPT ![Current(c)][t].removes = Append(@, op)]
      /\ UNCHANGED <<registered, turn, used, frame, chain, answer>>

\* The current transaction of c ends and the client hears how.
End(c, how) ==
  /\ answer' = [answer EXCEPT ![Current(c)] = how]
  /\ turn' = [turn EXCEPT ![c] = @ + 1]
  /\ registered' = [registered EXCEPT ![c] = FALSE]

\* Mutant of DropAll: the map of the connection is freed with its entries.
DropMap(c) == ha' = [ha EXCEPT ![c] = NoTx]

\* Mutant of DropAll: tables that were not written to are skipped.
DropWritten(c) ==
  ha' = [ha EXCEPT ![c] = [t \in Table |->
           IF t \in Live(c) /\ IsReadOnly(ha[c][t]) THEN ha[c][t] ELSE NoTx]]

DropAll(c) == ha' = [ha EXCEPT ![c] = [t \in Table |-> NoTx]]

\* ROLLBACK.  The core calls bc_rollback when the engine is registered.
Rollback(c) ==
  /\ CanIssue(c)
  /\ Live(c) # {}
  /\ End(c, "rolledBack")
  /\ IF registered[c] THEN DropAll(c) ELSE UNCHANGED ha
  /\ UNCHANGED <<used, frame, chain, work>>

\* COMMIT of a transaction in which the core does not know the engine.
CommitUnregistered(c) ==
  /\ CanIssue(c)
  /\ ~registered[c] /\ Live(c) # {}
  /\ End(c, "ok")
  /\ UNCHANGED <<ha, used, frame, chain, work>>
-----------------------------------------------------------------------------
(***************************************************************************)
(* bc_commit, from one connector call to the next.                         *)
(***************************************************************************)
BcCommit(c) ==
  /\ CanIssue(c)
  /\ registered[c]
  /\ frame' = [frame EXCEPT ![c] = [Idle EXCEPT !.pc = "tables", !.todo = Live(c)]]
  /\ UNCHANGED <<session, chain, client>>

\* The loop moves the next table's transaction out of ha_data.
NextTable(c, t) ==
  LET tx == ha[c][t]
      f  == [frame[c] EXCEPT !.todo = @ \ {t}]
  IN  /\ frame[c].pc = "tables"
      /\ t \in frame[c].todo
      /\ ha' = [ha EXCEPT ![c][t] = NoTx]
      /\ frame' = [frame EXCEPT ![c] =
           IF IsReadOnly(tx) THEN f
           ELSE [f EXCEPT !.affected = @ \cup {t}, !.cur = {t}, !.tx = tx, !.ok = TRUE,
                          !.pc = IF tx.puts # << >> THEN "puts" ELSE "removes"]]
      /\ UNCHANGED <<registered, turn, used, chain, client>>

\* The transaction wrote to no table: there is nothing to commit.
NothingToCommit(c) ==
  /\ frame[c].pc = "tables" /\ frame[c].todo = {} /\ frame[c].affected = {}
  /\ frame' = [frame EXCEPT ![c] = Idle]
  /\ End(c, "ok")
  /\ UNCHANGED <<ha, used, chain, work>>

AllPrepared(c) ==
  /\ frame[c].pc = "tables" /\ frame[c].todo = {} /\ frame[c].affected # {}
  /\ frame' = [frame EXCEPT ![c].pc = "commit", ![c].cur = frame[c].affected]
  /\ UNCHANGED <<session, chain, client>>

(***************************************************************************)
(* A connector call: the chain transaction gets the next nonce and is sent *)
(* to the node, then the thread polls until it is mined or until the       *)
(* waiting time is over.  The result is success when it was mined, whether *)
(* or not the contract reverted.                                           *)
(***************************************************************************)
Request(c, tables) ==
  LET f == frame[c]
  IN  [kind   |-> CASE f.pc = "undo" -> "clean" [] f.pc = "commit" -> "commit"
                    [] OTHER -> "batch",
       tables |-> tables,
       id     |-> f.tx.id,
       ops    |-> CASE f.pc = "puts" -> f.tx.puts [] f.pc = "removes" -> f.tx.removes
                    [] OTHER -> << >>,
       by     |-> c]

\* The undo loop visits the affected tables, the other calls are for cur.
Targets(f) == IF f.pc = "undo" THEN {{t} : t \in f.todo} ELSE {f.cur}

Calling(c) == frame[c].pc \in {"puts", "removes", "undo", "commit"}

\* Mutant of AfterSend: the undo loop never gets past its first table.
AfterSendStays(c, tables, call) == frame' = [frame EXCEPT ![c].call = call]

AfterSend(c, tables, call) ==
  frame' = [frame EXCEPT ![c].todo = @ \ tables, ![c].call = call]

Send(c) ==
  /\ Calling(c) /\ frame[c].call = "none"
  /\ \E tables \in Targets(frame[c]) :
       /\ pool' = Append(pool, Request(c, tables))
       /\ AfterSend(c, tables, "sent")
  /\ UNCHANGED <<session, buffer, store, client>>

Holes == {i \in DOMAIN pool : pool[i].kind = "hole"}

\* The node cannot be reached or rejects the call.  Its nonce is spent: no
\* later nonce can be mined, unless another chain transaction has it.
SendFails(c) ==
  /\ Calling(c) /\ frame[c].call = "none"
  /\ \E tables \in Targets(frame[c]) : AfterSend(c, tables, "failed")
  /\ \/ Cardinality(Holes) < MaxHoles /\ pool' = Append(pool, Hole)
     \/ UNCHANGED pool
  /\ UNCHANGED <<session, buffer, store, client>>

Forget(entry, cs) == IF entry.by \in cs THEN [entry EXCEPT !.by = NoConn] ELSE entry

ForgetCalls(cs) == pool' = [i \in DOMAIN pool |-> Forget(pool[i], cs)]

\* The waiting time is over.  The call may be mined at any time, also if it
\* was mined just after the last poll.
TimeOut(c) ==
  /\ frame[c].call \in {"sent", "mined"}
  /\ frame' = [frame EXCEPT ![c].call = "failed"]
  /\ ForgetCalls({c})
  /\ UNCHANGED <<session, buffer, store, client>>

\* Mutant of Judge: a failed call does not stop the loop.
JudgeLightly(f, ok) == [f EXCEPT !.pc = "tables", !.ok = ok, !.call = "none"]

\* The table is prepared, or some call of it failed.
Judge(f, ok) ==
  IF ok THEN [f EXCEPT !.pc = "tables", !.ok = TRUE, !.call = "none"]
        ELSE [f EXCEPT !.pc = "undo", !.ok = FALSE, !.call = "none", !.todo = f.affected]

Answered(c) == frame[c].call \in {"mined", "failed"}

PutsReturned(c) ==
  LET f  == frame[c]
      ok == f.call = "mined"
  IN  /\ f.pc = "puts" /\ Answered(c)
      /\ frame' = [frame EXCEPT ![c] =
           IF f.tx.removes # << >> THEN [f EXCEPT !.pc = "removes", !.ok = ok, !.call = "none"]
                                   ELSE Judge(f, ok)]
      /\ UNCHANGED <<session, chain, client>>

\* Mutant of RemovesReturned: the result of the removes overwrites that of the
\* puts.
RemovesDecide(c) ==
  LET f == frame[c]
  IN  /\ f.pc = "removes" /\ Answered(c)
      /\ frame' = [frame EXCEPT ![c] = Judge(f, f.call = "mined")]
      /\ UNCHANGED <<session, chain, client>>

RemovesReturned(c) ==
  LET f == frame[c]
  IN  /\ f.pc = "removes" /\ Answered(c)
      /\ frame' = [frame EXCEPT ![c] = Judge(f, f.ok /\ f.call = "mined")]
      /\ UNCHANGED <<session, chain, client>>

\* The result of a clean is ignored.
CleanReturned(c) ==
  /\ frame[c].pc = "undo" /\ Answered(c) /\ frame[c].todo # {}
  /\ frame' = [frame EXCEPT ![c].call = "none"]
  /\ UNCHANGED <<session, chain, client>>

\* bc_commit returns HA_ERR_INTERNAL_ERROR from inside its loop.
PrepareFailed(c) ==
  /\ frame[c].pc = "undo" /\ Answered(c) /\ frame[c].todo = {}
  /\ frame' = [frame EXCEPT ![c] = Idle]
  /\ End(c, "prepareFailed")
  /\ IF CoreRollsBack THEN DropAll(c) ELSE UNCHANGED ha
  /\ UNCHANGED <<used, chain, work>>

CommitReturned(c) ==
  /\ frame[c].pc = "commit" /\ Answered(c)
  /\ frame' = [frame EXCEPT ![c] = Idle]
  /\ End(c, IF frame[c].call = "mined" THEN "ok" ELSE "commitFailed")
  /\ UNCHANGED <<ha, used, chain, work>>
-----------------------------------------------------------------------------
(***************************************************************************)
(* The chain mines the pool in nonce order.                                *)
(***************************************************************************)
Applied(e, t) == IF e.kind = "commit" /\ t \in e.tables THEN buffer[t][e.id] ELSE << >>

Tell(e) == IF e.by \in Conn THEN [frame EXCEPT ![e.by].call = "mined"] ELSE frame

Mine ==
  /\ pool # << >> /\ Head(pool).kind # "hole"
  /\ LET e == Head(pool)
     IN  /\ buffer' = [t \in Table |->
              IF t \notin e.tables THEN buffer[t]
              ELSE [buffer[t] EXCEPT ![e.id] =
                      IF e.kind = "batch" THEN @ \o e.ops ELSE << >>]]
         /\ store' = [t \in Table |-> store[t] \o Applied(e, t)]
         /\ frame' = Tell(e)
  /\ pool' = Tail(pool)
  /\ UNCHANGED <<session, client>>

\* Out of gas, or no contract at the address: no effect, but in a block.
Revert ==
  /\ RevertAllowed
  /\ pool # << >> /\ Head(pool).kind # "hole"
  /\ frame' = Tell(Head(pool))
  /\ pool' = Tail(pool)
  /\ UNCHANGED <<session, buffer, store, client>>

\* The server goes down: what is in memory is gone, what was sent is not.
Crash ==
  LET active == {c \in Conn : turn[c] <= MaxTx /\ (Live(c) # {} \/ frame[c].pc # "idle")}
  IN  /\ active # {}
      /\ ha' = [c \in Conn |-> [t \in Table |-> NoTx]]
      /\ registered' = [c \in Conn |-> FALSE]
      /\ frame' = [c \in Conn |-> Idle]
      /\ ForgetCalls(Conn)
      /\ answer' = [x \in Tx |-> IF x[1] \in active /\ x[2] = turn[x[1]] THEN "lost"
                                                                        ELSE answer[x]]
      /\ turn' = [c \in Conn |-> IF c \in active THEN turn[c] + 1 ELSE turn[c]]
      /\ UNCHANGED <<used, buffer, store, work>>

Statement(c) ==
  \/ \E t \in Table : StartTransaction(c, t) \/ WriteRow(c, t) \/ DeleteRow(c, t)
  \/ Rollback(c)
  \/ CommitUnregistered(c)
  \/ BcCommit(c)

\* A step of the thread inside bc_commit.
Step(c) ==
  \/ \E t \in Table : NextTable(c, t)
  \/ NothingToCommit(c)
  \/ AllPrepared(c)
  \/ Send(c)
  \/ SendFails(c)
  \/ TimeOut(c)
  \/ PutsReturned(c)
  \/ RemovesReturned(c)
  \/ CleanReturned(c)
  \/ PrepareFailed(c)
  \/ CommitReturned(c)

Next ==
  \/ \E c \in Conn : Statement(c) \/ Step(c)
  \/ Mine
  \/ Revert
  \/ Crash

Spec == Init /\ [][Next]_vars

\* A thread in bc_commit runs on, its polling loop ends in bounded time, and each
\* HTTP request ends.  The last is presumed: curl has no time-out, see EthConnector
\* for what a request that never ends does.
FairSpec == Spec /\ \A c \in Conn : WF_vars(Step(c))
-----------------------------------------------------------------------------
TypeOK ==
  /\ ha \in [Conn -> [Table -> TableTx \cup {NoTx}]]
  /\ registered \in [Conn -> BOOLEAN]
  /\ turn \in [Conn -> 1..(MaxTx + 1)]
  /\ used \subseteq TxId
  /\ frame \in [Conn -> Frame]
  /\ pool \in Seq(Entry)
  /\ buffer \in [Table -> [TxId -> Seq(Op)]]
  /\ store \in [Table -> Seq(Op)]
  /\ work \in [Tx -> [Table -> [puts : Seq(Op), removes : Seq(Op)]]]
  /\ answer \in [Tx -> Answers]

\* The identifiers that connection c still prepares or commits under.
Ids(c) == {ha[c][t].id : t \in Live(c)}
            \cup IF frame[c].tx = NoTx THEN {} ELSE {frame[c].tx.id}

\* All tables of a transaction use one identifier, which the last table
\* prepared hands to the commit contract, and no two connections share one:
\* a commit or a clean never touches operations of another transaction.
OneIdPerTransaction ==
  /\ \A c \in Conn : \A i, j \in Ids(c) : i = j
  /\ \A c, d \in Conn : Ids(c) \cap Ids(d) # {} => c = d

\* While a commit is waiting to be mined no other call of its transaction is:
\* nothing can be added to or cleaned from the buffers that it will apply, not
\* even by a prepare call that was given up and is mined late.
CommitIsAlone ==
  \A i, j \in DOMAIN pool :
    pool[i].kind = "commit" /\ pool[j].id = pool[i].id => i = j

\* The connection has table transactions, and the MySQL core does not know: it
\* will not call the engine at the COMMIT that is to publish them.
Orphaned(c) == frame[c].pc = "idle" /\ Live(c) # {} /\ ~registered[c]

\* A table transaction outside bc_commit is known to the core.  This rests on a
\* core that calls bc_rollback after a failed bc_commit.
LiveTxRegistered == \A c \in Conn : ~Orphaned(c)

\* With any core: table transactions are orphaned by the return of bc_commit from
\* inside its loop (ha_blockchain.cc:1031), which leaves those of later tables
\* behind, and by nothing else: no statement, commit, rollback, time-out, late
\* call or crash orphans one.
OrphanedByFailure ==
  [][\A c \in Conn : Orphaned(c)' => Orphaned(c) \/ (frame[c].pc = "undo" /\ ~CoreRollsBack)]_vars

Planned(x, t) == work[x][t].puts \o work[x][t].removes

\* The work of x is in the store of t, as one block, and x left nothing else there.
AppliedOnce(x, t) ==
  \E n \in 0..Len(store[t]) :
    /\ n + Len(Planned(x, t)) <= Len(store[t])
    /\ \A m \in DOMAIN store[t] :
         IF m \in (n + 1)..(n + Len(Planned(x, t))) THEN store[t][m] = Planned(x, t)[m - n]
                                                    ELSE store[t][m].tx # x

\* A COMMIT that was answered with success has put the whole work of the
\* transaction into the stores of all its tables, once and undivided.
OkMeansApplied ==
  \A x \in Tx : answer[x] = "ok" => \A t \in Table : AppliedOnce(x, t)

OfTx(ops, x) == SelectSeq(ops, LAMBDA op : op.tx = x)

\* "Preparation of commit was successful --> call commit contract with all
\* addresses to do atomic commit" (ha_blockchain.cc:1039): no store ever has a
\* part of a transaction's work, or its work on some of its tables only.
AllOrNothing ==
  \A x \in Tx : \/ \A t \in Table : OfTx(store[t], x) = << >>
                \/ \A t \in Table : OfTx(store[t], x) = Planned(x, t)

\* Every bc_commit returns to the MySQL core, whatever the chain does: no lost
\* nonce, unmined call or failed undo keeps the client's thread forever.
CommitReturns == \A c \in Conn : frame[c].pc # "idle" ~> frame[c].pc = "idle"

-----------------------------------------------------------------------------
Committed(x) == \E t \in Table : \E i \in DOMAIN store[t] : store[t][i].tx = x

Phase(x) == IF Committed(x) THEN "committed"
            ELSE IF answer[x] \in {"prepareFailed", "rolledBack"} THEN "aborted"
            ELSE "open"

Abstract == INSTANCE AtomicCommit
              WITH phase <- [x \in Tx |-> Phase(x)],
                   Op <- [x \in Tx |-> [tx : {x}, deleteEntry : BOOLEAN]]

\* The protocol implements an atomic commit: whatever is lost, given up or
\* mined late, and wherever the server goes down, the work of a transaction
\* takes effect on all tables at once or never, and never after the client was
\* told that its preparation failed or that it was rolled back.
ImplementsAtomicCommit == Abstract!Spec
=============================================================================

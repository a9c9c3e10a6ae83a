-------------------------- MODULE HandlerLifecycle --------------------------
(***************************************************************************)
(* Handlers, their connectors, and the raw pointers to connectors that     *)
(* every connection keeps in its ha_data (ha_blockchain.cc).               *)
(*                                                                         *)
(* A handler owns a connector, which open() binds to the contract that is  *)
(* configured for the name under which the statement uses the table.  The  *)
(* MySQL core keeps handlers in its table cache, hands them to statements  *)
(* of any connection and under any alias without telling the engine, and   *)
(* destroys them when it needs room or when a table is flushed or dropped; *)
(* a table that an open transaction used is not flushed or dropped.        *)
(* bc_commit and bc_rollback have no handler: they use the pointers.       *)
(*                                                                         *)
(* What is sent over a connector is left out but for the tables that the   *)
(* rows belong to, see CommitProtocol.                                     *)
(***************************************************************************)
EXTENDS Integers, FiniteSets

CONSTANTS
  Conn,            \* client connections
  Handler,         \* bound: the handlers that are ever created
  Table,           \* the SQL tables; the contract of a table has its name
  Alias,           \* further names that statements give to tables
  Configured,      \* the tables that bc_eth_contracts lists
  Writable,        \* the tables that clients write to
  CacheOverflows,  \* whether handlers go while a transaction used their table
  NoConn,          \* the owner of a handler that no statement uses
  Null,            \* a null pointer to a connector
  NoAddress,       \* the empty string
  Unlisted         \* the name is not in table_contract_info

Name == Table \cup Alias

ASSUME TableAssumption == Configured \subseteq Table /\ Writable \subseteq Table
ASSUME NullAssumption  == NoConn \notin Conn /\ Null \notin Handler
ASSUME NameAssumption  == {NoAddress, Unlisted} \cap Name = {} /\ NoAddress # Unlisted
ASSUME FlagAssumption  == CacheOverflows \in BOOLEAN

VARIABLES
  handler,    \* the handlers
  info,       \* table_contract_info, which all connections share
  ha,         \* ha_data of each connection, by table->alias
  inTx,       \* whether the connection has begun a transaction
  used,       \* the tables that the transaction used: it keeps them from DDL
  wrote       \* the tables that the transaction wrote to

vars == <<handler, info, ha, inTx, used, wrote>>

(***************************************************************************)
(* state: "cached" when no statement uses it.  name: table->alias.         *)
(* contract: the address that its connector sends to.                      *)
(***************************************************************************)
HandlerState == [state : {"unborn", "cached", "used", "dead"}, owner : Conn \cup {NoConn},
                 table : Table \cup {NoAddress}, name : Name \cup {NoAddress},
                 contract : Table \cup {NoAddress}]

Unborn == [state |-> "unborn", owner |-> NoConn, table |-> NoAddress, name |-> NoAddress,
           contract |-> NoAddress]

\* open: there is a table transaction.  rows: the tables whose rows it holds.
HaData == [open : BOOLEAN, rows : SUBSET Table, connector : Handler \cup {Null}]

NoData == [open |-> FALSE, rows |-> {}, connector |-> Null]

Alive(h) == handler[h].state \in {"cached", "used"}

Uses(c, h) == handler[h].state = "used" /\ handler[h].owner = c

Idle(c) == \A h \in Handler : ~Uses(c, h)

-----------------------------------------------------------------------------
Init ==
  /\ handler = [h \in Handler |-> Unborn]
  /\ info = [n \in Name |-> IF n \in Configured THEN n ELSE Unlisted]
  /\ ha = [c \in Conn |-> [n \in Name |-> NoData]]
  /\ inTx = [c \in Conn |-> FALSE]
  /\ used = [c \in Conn |-> {}]
  /\ wrote = [c \in Conn |-> {}]

Begin(c) ==
  /\ ~inTx[c] /\ Idle(c)
  /\ inTx' = [inTx EXCEPT ![c] = TRUE]
  /\ UNCHANGED <<handler, info, ha, used, wrote>>

\* Mutant of Address: the result of find() is used as it is.
AddressOfEnd(n) == info[n]

\* The address that table_contract_info gives to a name.
Address(n) == IF info[n] = Unlisted THEN NoAddress ELSE info[n]

Points(h, c, n) == ha' = [ha EXCEPT ![c][n].connector = h]

\* find_connector of a new handler h: the pointer goes into ha_data.
FindConnector(h, c, n) == Points(h, c, n) /\ UNCHANGED info

\* The core takes h for a statement of c that uses table t under name n.
Take(h, c, t, n) ==
  /\ n \in {t} \cup Alias
  /\ used' = IF inTx[c] THEN [used EXCEPT ![c] = @ \cup {t}] ELSE used
  /\ UNCHANGED <<inTx, wrote>>

\* open: the cache has no free handler of the table.
Open(h, c, t, n) ==
  /\ handler[h].state = "unborn"
  /\ Take(h, c, t, n)
  /\ handler' = [handler EXCEPT ![h] = [state |-> "used", owner |-> c, table |-> t,
                                        name |-> n, contract |-> Address(n)]]
  /\ FindConnector(h, c, n)

\* The cache has one: the engine is not called.
Reuse(h, c, t, n) ==
  /\ handler[h].state = "cached" /\ handler[h].table = t
  /\ Take(h, c, t, n)
  /\ handler' = [handler EXCEPT ![h].state = "used", ![h].owner = c, ![h].name = n]
  /\ UNCHANGED <<info, ha>>

\* Mutant of StartTransaction: it relies on the pointer that open() stored.
StartTransactionOnly(h, c) ==
  LET n == handler[h].name
  IN  /\ Uses(c, h) /\ inTx[c] /\ ~ha[c][n].open
      /\ ha' = [ha EXCEPT ![c][n].open = TRUE]
      /\ UNCHANGED <<handler, info, inTx, used, wrote>>

\* Mutant of StartTransaction: each statement gets a table transaction.
StartTransactionAnew(h, c) ==
  LET n == handler[h].name
  IN  /\ Uses(c, h) /\ inTx[c]
      /\ ha' = [ha EXCEPT ![c][n] = [open |-> TRUE, rows |-> {}, connector |-> h]]
      /\ UNCHANGED <<handler, info, inTx, used, wrote>>

\* external_lock: start_transaction.
StartTransaction(h, c) ==
  LET n == handler[h].name
  IN  /\ Uses(c, h) /\ inTx[c] /\ ~ha[c][n].open
      /\ ha' = [ha EXCEPT ![c][n] = [open |-> TRUE, rows |-> {}, connector |-> h]]
      /\ UNCHANGED <<handler, info, inTx, used, wrote>>

\* write_row, update_row and delete_row in a transaction.
Write(h, c) ==
  LET n == handler[h].name
      t == handler[h].table
  IN  /\ Uses(c, h) /\ inTx[c] /\ ha[c][n].open
      /\ t \in Writable
      /\ ha' = [ha EXCEPT ![c][n].rows = @ \cup {t}]
      /\ wrote' = [wrote EXCEPT ![c] = @ \cup {t}]
      /\ UNCHANGED <<handler, info, inTx, used>>

\* The statement is over: its handlers go back to the cache.
EndStatement(c) ==
  /\ ~Idle(c)
  /\ handler' = [h \in Handler |->
       IF Uses(c, h) THEN [handler[h] EXCEPT !.state = "cached", !.owner = NoConn]
                     ELSE handler[h]]
  /\ UNCHANGED <<info, ha, inTx, used, wrote>>

-----------------------------------------------------------------------------
\* The names that bc_commit puts into affected_tables.
Affected(c) == {n \in Name : ha[c][n].rows # {}}

\* The contract that the operations of table transaction n are prepared in.
PreparedIn(c, n) == handler[ha[c][n].connector].contract

EndTx(c) ==
  /\ inTx[c] /\ Idle(c)
  /\ ha' = [ha EXCEPT ![c] = [n \in Name |-> [@[n] EXCEPT !.open = FALSE, !.rows = {}]]]
  /\ inTx' = [inTx EXCEPT ![c] = FALSE]
  /\ used' = [used EXCEPT ![c] = {}]
  /\ wrote' = [wrote EXCEPT ![c] = {}]
  /\ UNCHANGED handler

\* operator[] looks up the addresses for the commit and inserts a name that is
\* not there.
BcCommit(c) ==
  /\ EndTx(c)
  /\ info' = [n \in Name |-> IF n \in Affected(c) THEN Address(n) ELSE info[n]]

BcRollback(c) == EndTx(c) /\ UNCHANGED info

\* bc_close_connection.
CloseConnection(c) ==
  /\ Idle(c) /\ ~inTx[c]
  /\ ha' = [ha EXCEPT ![c] = [n \in Name |-> NoData]]
  /\ UNCHANGED <<handler, info, inTx, used, wrote>>

\* No transaction keeps table t from being flushed or dropped.
Free(t) == \A c \in Conn : t \notin used[c]

\* The core destroys a handler, and with it the connector.
Evict(h) ==
  /\ handler[h].state = "cached"
  /\ CacheOverflows \/ Free(handler[h].table)
  /\ handler' = [handler EXCEPT ![h].state = "dead"]
  /\ UNCHANGED <<info, ha, inTx, used, wrote>>

\* delete_table: a temporary handler h finds its connector by the name of the
\* table, which leaves a pointer to it in ha_data.
DeleteTable(h, c, t) ==
  /\ handler[h].state = "unborn"
  /\ ~inTx[c] /\ Idle(c) /\ Free(t)
  /\ \A g \in Handler : ~(Alive(g) /\ handler[g].table = t)
  /\ handler' = [handler EXCEPT ![h].state = "dead"]
  /\ FindConnector(h, c, t)
  /\ UNCHANGED <<inTx, used, wrote>>

Next ==
  \/ \E c \in Conn, h \in Handler :
       \/ \E t \in Table : \/ \E n \in Name : Open(h, c, t, n) \/ Reuse(h, c, t, n)
                           \/ DeleteTable(h, c, t)
       \/ StartTransaction(h, c) \/ Write(h, c)
  \/ \E c \in Conn : \/ Begin(c) \/ EndStatement(c) \/ BcCommit(c) \/ BcRollback(c)
                     \/ CloseConnection(c)
  \/ \E h \in Handler : Evict(h)

Spec == Init /\ [][Next]_vars
-----------------------------------------------------------------------------
TypeOK ==
  /\ handler \in [Handler -> HandlerState]
  /\ info \in [Name -> Table \cup {NoAddress, Unlisted}]
  /\ ha \in [Conn -> [Name -> HaData]]
  /\ inTx \in [Conn -> BOOLEAN]
  /\ used \in [Conn -> SUBSET Table]
  /\ wrote \in [Conn -> SUBSET Table]

\* As long as a connection has a table transaction, the connector that COMMIT and
\* ROLLBACK will use for it exists, however the cache passed handlers between
\* connections and destroyed them before the transaction began.
ConnectorAlive ==
  \A c \in Conn, n \in Name :
    ha[c][n].open => ha[c][n].connector # Null /\ Alive(ha[c][n].connector)

\* "One contract per table" (ha_blockchain.cc:1307): for each table that the
\* transaction wrote to, COMMIT prepares the rows in the contract of that table
\* and names this contract in the call that commits.
CommitReachesTables ==
  [][\A c \in Conn : BcCommit(c) =>
       \A t \in wrote[c] : \E n \in Affected(c) :
         ha[c][n].rows = {t} /\ PreparedIn(c, n) = t /\ info'[n] = t]_vars
=============================================================================

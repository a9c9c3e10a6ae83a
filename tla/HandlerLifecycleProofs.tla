------------------------ MODULE HandlerLifecycleProofs ------------------------
(***************************************************************************)
(* Proofs about HandlerLifecycle, for any connections, handlers, tables    *)
(* and aliases: types are right, and the pointers in ha_data of a          *)
(* transaction lead to living connectors as long as the table cache keeps  *)
(* the handlers of tables in use.  Without aliases, for tables that are    *)
(* configured, COMMIT reaches every table that was written to.             *)
(***************************************************************************)
EXTENDS HandlerLifecycle, TLAPS

(***************************************************************************)
(* The invariant of lifetimes.                                             *)
(***************************************************************************)
\* A statement inside a transaction counted its tables among the used ones.
InUse == \A c \in Conn, h \in Handler :
  Uses(c, h) /\ inTx[c] => handler[h].table \in used[c]

\* A table transaction points to a living connector of a table that the
\* transaction used, which is what keeps the connector alive.
Pinned(c, n) ==
  /\ inTx[c]
  /\ ha[c][n].connector \in Handler
  /\ Alive(ha[c][n].connector)
  /\ handler[ha[c][n].connector].table \in used[c]

AllPinned == \A c \in Conn, n \in Name : ha[c][n].open => Pinned(c, n)

IInv == TypeOK /\ InUse /\ AllPinned

(***************************************************************************)
(* The invariant of names, for statements without aliases on tables that   *)
(* are configured.                                                         *)
(***************************************************************************)
Plain == ~CacheOverflows /\ Alias = {} /\ Writable \subseteq Configured

Expected(t) == IF t \in Configured THEN t ELSE NoAddress

InfoFixed == info = [n \in Name |-> IF n \in Configured THEN n ELSE Unlisted]

\* A handler is known by the name of its table and sends to the table's contract.
Named == \A h \in Handler : Alive(h) =>
  /\ handler[h].table \in Table
  /\ handler[h].name = handler[h].table
  /\ handler[h].contract = Expected(handler[h].table)

\* A table transaction holds rows of the table that it is named after, and only
\* while it is open; so does the connector that it points to.
RowsOf(c, n) ==
  /\ ha[c][n].rows \subseteq {n} \cap Writable
  /\ ha[c][n].rows # {} => ha[c][n].open
  /\ ha[c][n].open => handler[ha[c][n].connector].table = n

OwnRows == \A c \in Conn, n \in Name : RowsOf(c, n)

WroteRows == \A c \in Conn : \A t \in wrote[c] : ha[c][t].rows = {t}

NInv == InfoFixed /\ Named /\ OwnRows /\ WroteRows

-----------------------------------------------------------------------------
LEMMA AddressType ==
  ASSUME TypeOK, NEW n \in Name
  PROVE  Address(n) \in Table \cup {NoAddress}
BY NameAssumption DEF TypeOK, Address

LEMMA HandlerFields ==
  ASSUME NEW r \in HandlerState
  PROVE  /\ \A s \in {"unborn", "cached", "used", "dead"} :
              [r EXCEPT !.state = s] \in HandlerState
         /\ \A s \in {"unborn", "cached", "used", "dead"}, o \in Conn \cup {NoConn} :
              [r EXCEPT !.state = s, !.owner = o] \in HandlerState
         /\ \A o \in Conn, n \in Name :
              [r EXCEPT !.state = "used", !.owner = o, !.name = n] \in HandlerState
BY DEF HandlerState

LEMMA HaFields ==
  ASSUME NEW d \in HaData
  PROVE  /\ \A o \in BOOLEAN, r \in SUBSET Table :
              [d EXCEPT !.open = o, !.rows = r] \in HaData
         /\ \A r \in SUBSET Table : [d EXCEPT !.rows = r] \in HaData
         /\ \A h \in Handler : [d EXCEPT !.connector = h] \in HaData
         /\ d.rows \subseteq Table
BY DEF HaData

LEMMA PointsType ==
  ASSUME TypeOK, NEW c \in Conn, NEW h \in Handler, NEW n \in Name, Points(h, c, n)
  PROVE  ha' \in [Conn -> [Name -> HaData]]
<1>1. ha[c][n] \in HaData
  BY DEF TypeOK
<1>2. [ha[c][n] EXCEPT !.connector = h] \in HaData
  BY <1>1, HaFields
<1> QED
  BY <1>2 DEF TypeOK, Points

LEMMA NoDataType == NoData \in HaData
BY DEF NoData, HaData

\* The steps of handlers, cache and connections keep the types.
LEMMA TypeKept ==
  ASSUME TypeOK, [Next]_vars
  PROVE  TypeOK'
<1> USE DEF TypeOK
<1>1. ASSUME NEW c \in Conn, Begin(c) PROVE TypeOK'
  BY <1>1 DEF Begin
<1>2. ASSUME NEW c \in Conn, NEW h \in Handler, NEW t \in Table, NEW n \in Name,
             Open(h, c, t, n)
      PROVE  TypeOK'
  <2>1. Address(n) \in Table \cup {NoAddress}
    BY AddressType
  <2>2. handler' \in [Handler -> HandlerState]
    BY <1>2, <2>1 DEF Open, HandlerState
  <2>3. ha' \in [Conn -> [Name -> HaData]]
    BY <1>2, PointsType DEF Open, FindConnector
  <2>4. used' \in [Conn -> SUBSET Table]
    BY <1>2 DEF Open, Take
  <2> QED
    BY <1>2, <2>2, <2>3, <2>4 DEF Open, FindConnector, Take
<1>3. ASSUME NEW c \in Conn, NEW h \in Handler, NEW t \in Table, NEW n \in Name,
             Reuse(h, c, t, n)
      PROVE  TypeOK'
  <2>1. handler' \in [Handler -> HandlerState]
    <3>1. [handler[h] EXCEPT !.state = "used", !.owner = c, !.name = n] \in HandlerState
      BY HandlerFields
    <3> QED
      BY <1>3, <3>1 DEF Reuse
  <2>2. used' \in [Conn -> SUBSET Table]
    BY <1>3 DEF Reuse, Take
  <2> QED
    BY <1>3, <2>1, <2>2 DEF Reuse, Take
<1>4. ASSUME NEW c \in Conn, NEW h \in Handler, NEW t \in Table, DeleteTable(h, c, t)
      PROVE  TypeOK'
  <2>1. handler' \in [Handler -> HandlerState]
    <3>1. [handler[h] EXCEPT !.state = "dead"] \in HandlerState
      BY HandlerFields
    <3> QED
      BY <1>4, <3>1 DEF DeleteTable
  <2>2. ha' \in [Conn -> [Name -> HaData]]
    <3>1. t \in Name
      BY DEF Name
    <3> QED
      BY <1>4, <3>1, PointsType DEF DeleteTable, FindConnector
  <2> QED
    BY <1>4, <2>1, <2>2 DEF DeleteTable, FindConnector
<1>5. ASSUME NEW c \in Conn, NEW h \in Handler, StartTransaction(h, c) PROVE TypeOK'
  <2>1. ha' \in [Conn -> [Name -> HaData]]
    BY <1>5 DEF StartTransaction, HaData
  <2> QED
    BY <1>5, <2>1 DEF StartTransaction
<1>6. ASSUME NEW c \in Conn, NEW h \in Handler, Write(h, c) PROVE TypeOK'
  <2>1. handler[h].table \in Table
    BY <1>6, TableAssumption DEF Write
  <2> DEFINE n == handler[h].name
  <2>2. ha' \in [Conn -> [Name -> HaData]]
    <3>1. CASE n \in Name
      <4>1. ha[c][n] \in HaData
        BY <3>1
      <4>2. [ha[c][n] EXCEPT !.rows = @ \cup {handler[h].table}] \in HaData
        BY <4>1, <2>1, HaFields
      <4> QED
        BY <1>6, <3>1, <4>2 DEF Write
    <3>2. CASE n \notin Name
      <4>1. ha' = ha
        BY <1>6, <3>2 DEF Write
      <4> QED
        BY <4>1
    <3> QED
      BY <3>1, <3>2
  <2>3. wrote' \in [Conn -> SUBSET Table]
    BY <1>6, <2>1 DEF Write
  <2> QED
    BY <1>6, <2>2, <2>3 DEF Write
<1>7. ASSUME NEW c \in Conn, EndStatement(c) PROVE TypeOK'
  <2>1. handler' \in [Handler -> HandlerState]
    <3>1. \A h \in Handler :
            [handler[h] EXCEPT !.state = "cached", !.owner = NoConn] \in HandlerState
      BY HandlerFields
    <3> QED
      BY <1>7, <3>1 DEF EndStatement
  <2> QED
    BY <1>7, <2>1 DEF EndStatement
<1>8. ASSUME NEW c \in Conn, EndTx(c),
             info' \in [Name -> Table \cup {NoAddress, Unlisted}]
      PROVE  TypeOK'
  <2>1. ha' \in [Conn -> [Name -> HaData]]
    <3>1. ASSUME NEW n \in Name
          PROVE  [ha[c][n] EXCEPT !.open = FALSE, !.rows = {}] \in HaData
      <4>1. ha[c][n] \in HaData
        OBVIOUS
      <4> QED
        BY <4>1, HaFields
    <3> DEFINE ended == [n \in Name |-> [ha[c][n] EXCEPT !.open = FALSE, !.rows = {}]]
    <3>2. ended \in [Name -> HaData]
      BY <3>1
    <3>3. ha' = [ha EXCEPT ![c] = ended]
      BY <1>8 DEF EndTx
    <3> HIDE DEF ended
    <3> QED
      BY <3>2, <3>3
  <2> QED
    BY <1>8, <2>1 DEF EndTx
<1>9. ASSUME NEW c \in Conn, BcCommit(c) PROVE TypeOK'
  <2>1. \A n \in Name : Address(n) \in Table \cup {NoAddress}
    BY AddressType
  <2>2. info' \in [Name -> Table \cup {NoAddress, Unlisted}]
    BY <1>9, <2>1 DEF BcCommit
  <2> QED
    BY <1>8, <1>9, <2>2 DEF BcCommit
<1>10. ASSUME NEW c \in Conn, BcRollback(c) PROVE TypeOK'
  BY <1>8, <1>10 DEF BcRollback
<1>11. ASSUME NEW c \in Conn, CloseConnection(c) PROVE TypeOK'
  BY <1>11, NoDataType DEF CloseConnection
<1>12. ASSUME NEW h \in Handler, Evict(h) PROVE TypeOK'
  <2>1. handler' \in [Handler -> HandlerState]
    <3>1. [handler[h] EXCEPT !.state = "dead"] \in HandlerState
      BY HandlerFields
    <3> QED
      BY <1>12, <3>1 DEF Evict
  <2> QED
    BY <1>12, <2>1 DEF Evict
<1>13. CASE UNCHANGED vars
  BY <1>13 DEF vars
<1> QED
  BY <1>1, <1>2, <1>3, <1>4, <1>5, <1>6, <1>7, <1>9, <1>10, <1>11, <1>12, <1>13 DEF Next

LEMMA InitType == Init => TypeOK
BY TableAssumption, NullAssumption, NoDataType DEF Init, TypeOK, Unborn, HandlerState, Name

\* Handlers, pointers, transactions and the map of addresses keep their types
\* through every interleaving of statements, commits and evictions.
THEOREM TypeCorrect == Spec => []TypeOK
BY InitType, TypeKept, PTL DEF Spec
-----------------------------------------------------------------------------
(***************************************************************************)
(* Lifetimes.                                                              *)
(***************************************************************************)
\* A step that keeps the table transactions of a connection, their tables and
\* their connectors keeps the pointers pinned.
LEMMA StaysPinned ==
  ASSUME NEW c \in Conn, NEW n \in Name, Pinned(c, n),
         inTx'[c] = inTx[c], used[c] \subseteq used'[c],
         ha'[c][n].connector = ha[c][n].connector,
         Alive(ha[c][n].connector)',
         handler'[ha[c][n].connector].table = handler[ha[c][n].connector].table
  PROVE  Pinned(c, n)'
BY DEF Pinned, Alive

\* The core takes h for a statement of c; what the other connections use stays.
LEMMA TakeKeeps ==
  ASSUME TypeOK, InUse, NEW c \in Conn, NEW h \in Handler, NEW t \in Table, NEW n \in Name,
         Take(h, c, t, n), handler' \in [Handler -> HandlerState],
         handler[h].state # "used",
         handler'[h].owner = c, handler'[h].table = t,
         \A g \in Handler \ {h} : handler'[g] = handler[g]
  PROVE  /\ InUse'
         /\ inTx' = inTx
         /\ \A d \in Conn : used[d] \subseteq used'[d]
<1>1. inTx' = inTx
  BY DEF Take
<1>2. \A d \in Conn : used[d] \subseteq used'[d]
  BY DEF Take, TypeOK
<1>3. inTx[c] => t \in used'[c]
  BY DEF Take, TypeOK
<1>4. ASSUME NEW d \in Conn, NEW g \in Handler, Uses(d, g)', inTx'[d]
      PROVE  handler'[g].table \in used'[d]
  <2>1. CASE g = h
    BY <1>1, <1>3, <1>4, <2>1 DEF Uses
  <2>2. CASE g # h
    <3>1. Uses(d, g) /\ handler'[g] = handler[g]
      BY <1>4, <2>2 DEF Uses
    <3> QED
      BY <1>1, <1>2, <1>4, <3>1 DEF InUse
  <2> QED
    BY <2>1, <2>2
<1> QED
  BY <1>1, <1>2, <1>4 DEF InUse

LEMMA OpenKeeps ==
  ASSUME IInv, TypeOK', NEW c \in Conn, NEW h \in Handler, NEW t \in Table, NEW n \in Name,
         Open(h, c, t, n)
  PROVE  InUse' /\ AllPinned'
<1> USE DEF IInv
<1>1. /\ handler'[h].state = "used" /\ handler'[h].owner = c /\ handler'[h].table = t
      /\ \A g \in Handler \ {h} : handler'[g] = handler[g]
  BY DEF Open, TypeOK
<1>2. handler' \in [Handler -> HandlerState] /\ handler[h].state = "unborn"
  BY DEF TypeOK, Open
<1>3. InUse' /\ inTx' = inTx /\ \A d \in Conn : used[d] \subseteq used'[d]
  BY <1>1, <1>2, TakeKeeps DEF Open
<1>4. ha' = [ha EXCEPT ![c][n].connector = h]
  BY DEF Open, FindConnector, Points
<1>5. \A d \in Conn, m \in Name :
        /\ ha'[d][m].open = ha[d][m].open
        /\ ha'[d][m].connector = IF d = c /\ m = n THEN h ELSE ha[d][m].connector
  BY <1>4 DEF TypeOK, HaData
<1>6. inTx[c] => t \in used'[c]
  BY DEF Open, Take, TypeOK
<1>7. ASSUME NEW d \in Conn, NEW m \in Name, ha'[d][m].open
      PROVE  Pinned(d, m)'
  <2>1. Pinned(d, m)
    BY <1>5, <1>7 DEF AllPinned
  <2>2. CASE d = c /\ m = n
    <3>1. ha'[c][n].connector = h
      BY <1>5
    <3>2. inTx'[c] /\ t \in used'[c]
      BY <1>3, <1>6, <2>1, <2>2 DEF Pinned
    <3> QED
      BY <1>1, <2>2, <3>1, <3>2 DEF Pinned, Alive
  <2>3. CASE ~(d = c /\ m = n)
    <3>1. ha'[d][m].connector = ha[d][m].connector
      BY <1>5, <2>3
    <3>2. ha[d][m].connector \in Handler \ {h}
      BY <1>2, <2>1 DEF Pinned, Alive
    <3>3. handler'[ha[d][m].connector] = handler[ha[d][m].connector]
      BY <1>1, <3>2
    <3>4. Alive(ha[d][m].connector)'
      BY <2>1, <3>1, <3>3 DEF Pinned, Alive
    <3> QED
      BY <1>3, <2>1, <3>1, <3>3, <3>4, StaysPinned
  <2> QED
    BY <2>2, <2>3
<1> QED
  BY <1>3, <1>7 DEF AllPinned

\* The cache, or the end of a statement, changes who uses a handler, not whether
\* it lives and which table it belongs to.
LEMMA CacheKeeps ==
  ASSUME IInv, TypeOK', ha' = ha, inTx' = inTx,
         \A d \in Conn : used[d] \subseteq used'[d],
         \A g \in Handler : handler'[g].table = handler[g].table,
         \A d \in Conn, m \in Name : ha[d][m].open => Alive(ha[d][m].connector)'
  PROVE  AllPinned'
<1> USE DEF IInv
<1>1. ASSUME NEW d \in Conn, NEW m \in Name, ha'[d][m].open
      PROVE  Pinned(d, m)'
  <2>1. Pinned(d, m) /\ Alive(ha[d][m].connector)'
    BY <1>1 DEF AllPinned
  <2>2. handler'[ha[d][m].connector].table = handler[ha[d][m].connector].table
    BY <2>1 DEF Pinned
  <2> QED
    BY <2>1, <2>2, StaysPinned
<1> QED
  BY <1>1 DEF AllPinned

LEMMA ReuseKeeps ==
  ASSUME IInv, TypeOK', NEW c \in Conn, NEW h \in Handler, NEW t \in Table, NEW n \in Name,
         Reuse(h, c, t, n)
  PROVE  InUse' /\ AllPinned'
<1> USE DEF IInv
<1>1. /\ handler'[h].state = "used" /\ handler'[h].owner = c /\ handler'[h].table = t
      /\ \A g \in Handler \ {h} : handler'[g] = handler[g]
  BY DEF Reuse, TypeOK, HandlerState
<1>2. handler[h].state # "used" /\ handler[h].table = t
  BY DEF Reuse
<1>3. InUse' /\ inTx' = inTx /\ \A d \in Conn : used[d] \subseteq used'[d]
  BY <1>1, <1>2, TakeKeeps DEF Reuse, TypeOK
<1>4. \A g \in Handler : Alive(g) => Alive(g)'
  BY <1>1 DEF Alive
<1>5. \A g \in Handler : handler'[g].table = handler[g].table
  BY <1>1, <1>2
<1>6. ha' = ha
  BY DEF Reuse
<1>7. \A d \in Conn, m \in Name : ha[d][m].open => Alive(ha[d][m].connector)'
  BY <1>4, <1>6 DEF AllPinned, Pinned, Alive
<1> QED
  BY <1>3, <1>5, <1>6, <1>7, CacheKeeps

LEMMA EndStatementKeeps ==
  ASSUME IInv, TypeOK', NEW c \in Conn, EndStatement(c)
  PROVE  InUse' /\ AllPinned'
<1> USE DEF IInv
<1>1. /\ ha' = ha /\ inTx' = inTx /\ used' = used
      /\ handler' = [g \in Handler |->
           IF Uses(c, g) THEN [handler[g] EXCEPT !.state = "cached", !.owner = NoConn]
                         ELSE handler[g]]
  BY DEF EndStatement
<1>2. \A g \in Handler : handler[g] \in HandlerState
  BY DEF TypeOK
<1>3. \A g \in Handler : handler'[g].table = handler[g].table
  BY <1>1, <1>2 DEF HandlerState
<1>4. \A g \in Handler : handler'[g].state = "used" => handler'[g] = handler[g]
  BY <1>1, <1>2 DEF HandlerState
<1>5. \A g \in Handler : Alive(g) => Alive(g)'
  BY <1>1, <1>2 DEF Alive, HandlerState
<1>6. InUse'
  BY <1>1, <1>4 DEF InUse, Uses
<1>7. \A d \in Conn, m \in Name : ha[d][m].open => Alive(ha[d][m].connector)'
  BY <1>1, <1>5 DEF AllPinned, Pinned, Alive
<1> QED
  BY <1>1, <1>3, <1>6, <1>7, CacheKeeps

\* The point of the invariant: no handler of a table in use is destroyed.
LEMMA EvictKeeps ==
  ASSUME ~CacheOverflows, IInv, TypeOK', NEW h \in Handler, Evict(h)
  PROVE  InUse' /\ AllPinned'
<1> USE DEF IInv
<1>1. /\ ha' = ha /\ inTx' = inTx /\ used' = used
      /\ handler' = [handler EXCEPT ![h].state = "dead"]
      /\ Free(handler[h].table)
  BY DEF Evict
<1>2. \A g \in Handler : handler[g] \in HandlerState
  BY DEF TypeOK
<1>3. \A g \in Handler \ {h} : handler'[g] = handler[g]
  BY <1>1 DEF TypeOK
<1>4. handler'[h].table = handler[h].table /\ handler'[h].state = "dead"
  BY <1>1, <1>2 DEF TypeOK, HandlerState
<1>5. \A g \in Handler : handler'[g].table = handler[g].table
  BY <1>3, <1>4
<1>6. InUse'
  BY <1>1, <1>3, <1>4 DEF InUse, Uses
<1>7. ASSUME NEW d \in Conn, NEW m \in Name, ha[d][m].open
      PROVE  Alive(ha[d][m].connector)'
  <2>1. Pinned(d, m)
    BY <1>7 DEF AllPinned
  <2>2. ha[d][m].connector \in Handler \ {h}
    BY <1>1, <2>1 DEF Pinned, Free
  <2>3. handler'[ha[d][m].connector] = handler[ha[d][m].connector]
    BY <1>3, <2>2
  <2> QED
    BY <1>1, <2>1, <2>3 DEF Pinned, Alive
<1> QED
  BY <1>1, <1>5, <1>6, <1>7, CacheKeeps

LEMMA DeleteTableKeeps ==
  ASSUME IInv, TypeOK', NEW c \in Conn, NEW h \in Handler, NEW t \in Table,
         DeleteTable(h, c, t)
  PROVE  InUse' /\ AllPinned'
<1> USE DEF IInv
<1>1. /\ inTx' = inTx /\ used' = used /\ ~inTx[c] /\ handler[h].state = "unborn"
      /\ handler' = [handler EXCEPT ![h].state = "dead"]
      /\ ha' = [ha EXCEPT ![c][t].connector = h]
  BY DEF DeleteTable, FindConnector, Points
<1>2. \A g \in Handler \ {h} : handler'[g] = handler[g]
  BY <1>1 DEF TypeOK
<1>3. handler'[h].state = "dead"
  BY <1>1 DEF TypeOK, HandlerState
<1>4. InUse'
  BY <1>1, <1>2, <1>3 DEF InUse, Uses
<1>5. t \in Name
  BY DEF Name
<1>6. \A m \in Name : ha'[c][m].open = ha[c][m].open
  BY <1>1, <1>5 DEF TypeOK, HaData
<1>7. \A d \in Conn \ {c} : ha'[d] = ha[d]
  BY <1>1 DEF TypeOK
<1>8. ASSUME NEW d \in Conn, NEW m \in Name, ha'[d][m].open
      PROVE  Pinned(d, m)'
  <2>1. Pinned(d, m)
    BY <1>6, <1>7, <1>8 DEF AllPinned
  <2>2. d # c
    BY <1>1, <2>1 DEF Pinned
  <2>3. ha'[d][m].connector = ha[d][m].connector /\ ha[d][m].connector \in Handler \ {h}
    BY <1>1, <1>7, <2>1, <2>2 DEF Pinned, Alive
  <2>4. handler'[ha[d][m].connector] = handler[ha[d][m].connector]
    BY <1>2, <2>3
  <2>5. Alive(ha[d][m].connector)'
    BY <2>1, <2>3, <2>4 DEF Pinned, Alive
  <2> QED
    BY <1>1, <2>1, <2>3, <2>4, <2>5, StaysPinned
<1> QED
  BY <1>4, <1>8 DEF AllPinned

LEMMA TransactionKeeps ==
  ASSUME IInv, TypeOK', NEW c \in Conn, NEW h \in Handler,
         StartTransaction(h, c) \/ Write(h, c)
  PROVE  InUse' /\ AllPinned'
<1> USE DEF IInv
<1> DEFINE n == handler[h].name
<1>1. handler' = handler /\ inTx' = inTx /\ used' = used /\ Uses(c, h) /\ inTx[c]
  BY DEF StartTransaction, Write
<1>2. InUse'
  BY <1>1 DEF InUse, Uses
<1>3. \A d \in Conn, m \in Name : ha[d][m] \in HaData
  BY DEF TypeOK
<1>4. \A d \in Conn, m \in Name :
        \/ /\ ha'[d][m].open = ha[d][m].open
           /\ ha'[d][m].connector = ha[d][m].connector
        \/ d = c /\ ha'[d][m].connector = h
  <2>1. CASE StartTransaction(h, c)
    BY <2>1, <1>3 DEF StartTransaction, TypeOK
  <2>2. CASE Write(h, c)
    BY <2>2, <1>3 DEF Write, TypeOK, HaData
  <2> QED
    BY <2>1, <2>2
<1>5. ASSUME NEW d \in Conn, NEW m \in Name, ha'[d][m].open
      PROVE  Pinned(d, m)'
  <2>1. CASE d = c /\ ha'[d][m].connector = h
    BY <1>1, <2>1 DEF Pinned, Alive, Uses, InUse
  <2>2. CASE ~(d = c /\ ha'[d][m].connector = h)
    BY <1>1, <1>4, <1>5, <2>2 DEF AllPinned, Pinned, Alive
  <2> QED
    BY <2>1, <2>2
<1> QED
  BY <1>2, <1>5 DEF AllPinned

LEMMA EndKeeps ==
  ASSUME IInv, TypeOK', NEW c \in Conn, EndTx(c) \/ CloseConnection(c)
  PROVE  InUse' /\ AllPinned'
<1> USE DEF IInv
<1>1. handler' = handler /\ Idle(c)
  BY DEF EndTx, CloseConnection
<1>2. \A d \in Conn \ {c} : inTx'[d] = inTx[d] /\ used'[d] = used[d] /\ ha'[d] = ha[d]
  BY DEF EndTx, CloseConnection, TypeOK
<1>3. InUse'
  <2>1. \A h \in Handler : ~Uses(c, h)'
    BY <1>1 DEF Idle, Uses
  <2> QED
    BY <1>1, <1>2, <2>1 DEF InUse, Uses
<1>4. \A m \in Name : ~ha'[c][m].open
  <2>1. CASE EndTx(c)
    <3>1. \A m \in Name : ha[c][m] \in HaData
      BY DEF TypeOK
    <3> QED
      BY <2>1, <3>1 DEF EndTx, TypeOK, HaData
  <2>2. CASE CloseConnection(c)
    BY <2>2 DEF CloseConnection, TypeOK, NoData
  <2> QED
    BY <2>1, <2>2
<1>5. ASSUME NEW d \in Conn, NEW m \in Name, ha'[d][m].open
      PROVE  Pinned(d, m)'
  <2>1. d # c
    BY <1>4, <1>5
  <2> QED
    BY <1>1, <1>2, <1>5, <2>1 DEF AllPinned, Pinned, Alive
<1> QED
  BY <1>3, <1>5 DEF AllPinned

LEMMA BeginKeeps ==
  ASSUME IInv, TypeOK', NEW c \in Conn, Begin(c)
  PROVE  InUse' /\ AllPinned'
<1> USE DEF IInv
<1>1. handler' = handler /\ ha' = ha /\ used' = used /\ Idle(c)
      /\ \A d \in Conn : inTx[d] => inTx'[d]
  BY DEF Begin, TypeOK
<1>2. \A d \in Conn \ {c} : inTx'[d] = inTx[d]
  BY DEF Begin, TypeOK
<1>3. InUse'
  BY <1>1, <1>2 DEF InUse, Uses, Idle
<1> QED
  BY <1>1, <1>3 DEF AllPinned, Pinned, Alive

LEMMA InitInv == Init => IInv
<1> SUFFICES ASSUME Init PROVE IInv
  OBVIOUS
<1>1. InUse /\ AllPinned
  BY DEF Init, InUse, AllPinned, NoData
<1> QED
  BY <1>1, InitType DEF IInv

LEMMA NextInv ==
  ASSUME ~CacheOverflows, IInv, [Next]_vars
  PROVE  IInv'
<1>1. TypeOK'
  BY TypeKept DEF IInv
<1>2. InUse' /\ AllPinned'
  <2>1. CASE UNCHANGED vars
    BY <2>1 DEF vars, IInv, InUse, Uses, AllPinned, Pinned, Alive
  <2>2. CASE Next
    BY <1>1, <2>2, OpenKeeps, ReuseKeeps, DeleteTableKeeps, TransactionKeeps, BeginKeeps,
       EndStatementKeeps, EndKeeps, EvictKeeps DEF Next, BcCommit, BcRollback
  <2> QED
    BY <2>1, <2>2
<1> QED
  BY <1>1, <1>2 DEF IInv

\* As long as the table cache keeps the handlers of tables in use, a table
\* transaction points to a living connector of a table that its transaction used.
THEOREM InductiveInvariant == ASSUME ~CacheOverflows PROVE Spec => []IInv
BY InitInv, NextInv, PTL DEF Spec

\* COMMIT and ROLLBACK, which have no handler of their own, find a living connector
\* behind the raw pointer of each table transaction.
THEOREM PointersAlive == ASSUME ~CacheOverflows PROVE Spec => []ConnectorAlive
<1>1. IInv => ConnectorAlive
  BY NullAssumption DEF IInv, AllPinned, Pinned, ConnectorAlive
<1> QED
  BY <1>1, InductiveInvariant, PTL
-----------------------------------------------------------------------------
(***************************************************************************)
(* Names.                                                                  *)
(***************************************************************************)
LEMMA PlainNames == Plain => Name = Table
BY DEF Plain, Name

LEMMA AddressExpected ==
  ASSUME Plain, InfoFixed, NEW t \in Table
  PROVE  Address(t) = Expected(t)
BY PlainNames, NameAssumption DEF InfoFixed, Address, Expected

\* The names that a commit looks up are all there.
LEMMA InfoKept ==
  ASSUME Plain, IInv, NInv, [Next]_vars
  PROVE  info' = info
<1>1. ASSUME NEW c \in Conn, BcCommit(c) PROVE info' = info
  <2>1. info' = [n \in Name |-> IF n \in Affected(c) THEN Address(n) ELSE info[n]]
    BY <1>1 DEF BcCommit
  <2>2. ASSUME NEW n \in Name, n \in Affected(c) PROVE Address(n) = info[n]
    <3>1. n \in Configured
      BY <2>2 DEF Affected, NInv, OwnRows, RowsOf, Plain
    <3> QED
      BY <3>1, NameAssumption DEF NInv, InfoFixed, Address
  <2>3. info = [n \in Name |-> info[n]]
    BY DEF IInv, TypeOK
  <2> QED
    BY <2>1, <2>2, <2>3
<1>2. CASE UNCHANGED vars
  BY <1>2 DEF vars
<1>3. ASSUME NEW c \in Conn, NEW h \in Handler, NEW t \in Table, NEW n \in Name,
             Open(h, c, t, n) \/ Reuse(h, c, t, n)
      PROVE  info' = info
  BY <1>3 DEF Open, Reuse, FindConnector
<1>4. ASSUME NEW c \in Conn, NEW h \in Handler, StartTransaction(h, c) \/ Write(h, c)
      PROVE  info' = info
  BY <1>4 DEF StartTransaction, Write
<1>5. ASSUME NEW c \in Conn,
             Begin(c) \/ EndStatement(c) \/ BcRollback(c) \/ CloseConnection(c)
      PROVE  info' = info
  BY <1>5 DEF Begin, EndStatement, BcRollback, CloseConnection
<1>6. ASSUME NEW h \in Handler, Evict(h) PROVE info' = info
  BY <1>6 DEF Evict
<1>7. ASSUME NEW c \in Conn, NEW h \in Handler, NEW t \in Table, DeleteTable(h, c, t)
      PROVE  info' = info
  BY <1>7 DEF DeleteTable, FindConnector
<1> QED
  BY <1>1, <1>2, <1>3, <1>4, <1>5, <1>6, <1>7 DEF Next

LEMMA NamedKept ==
  ASSUME Plain, IInv, NInv, [Next]_vars
  PROVE  Named'
<1> USE DEF IInv, NInv
<1>0. \A g \in Handler : handler[g] \in HandlerState
  BY DEF TypeOK
<1>1. ASSUME NEW c \in Conn, NEW h \in Handler, NEW t \in Table, NEW n \in Name,
             Open(h, c, t, n)
      PROVE  Named'
  <2>1. n = t
    BY <1>1 DEF Open, Take, Plain
  <2>2. Address(t) = Expected(t)
    BY AddressExpected
  <2> QED
    BY <1>1, <2>1, <2>2 DEF Open, TypeOK, Named, Alive
<1>2. ASSUME NEW c \in Conn, NEW h \in Handler, NEW t \in Table, NEW n \in Name,
             Reuse(h, c, t, n)
      PROVE  Named'
  <2>1. n = t
    BY <1>2 DEF Reuse, Take, Plain
  <2>2. Alive(h) /\ handler[h].table = t
    BY <1>2 DEF Reuse, Alive
  <2>3. /\ handler'[h].name = t /\ handler'[h].table = t
        /\ handler'[h].contract = handler[h].contract
    BY <1>0, <1>2, <2>1 DEF Reuse, TypeOK, HandlerState
  <2>4. \A g \in Handler \ {h} : handler'[g] = handler[g]
    BY <1>2 DEF Reuse, TypeOK
  <2> QED
    BY <2>2, <2>3, <2>4 DEF Named, Alive
<1>3. ASSUME NEW c \in Conn, EndStatement(c) PROVE Named'
  BY <1>0, <1>3 DEF EndStatement, Named, Alive, Uses, HandlerState
<1>4. ASSUME NEW h \in Handler, handler' = [handler EXCEPT ![h].state = "dead"] PROVE Named'
  BY <1>0, <1>4 DEF TypeOK, Named, Alive, HandlerState
<1>5. CASE handler' = handler
  BY <1>5 DEF Named, Alive
<1> QED
  BY <1>1, <1>2, <1>3, <1>4, <1>5 DEF Next, vars, DeleteTable, StartTransaction, Write,
     Begin, BcCommit, BcRollback, EndTx, CloseConnection, Evict

\* A living handler keeps its table.
LEMMA TableKept ==
  ASSUME IInv, [Next]_vars, NEW g \in Handler, Alive(g)
  PROVE  handler'[g].table = handler[g].table
<1>0. \A h \in Handler : handler[h] \in HandlerState
  BY DEF IInv, TypeOK
<1>1. ASSUME NEW c \in Conn, NEW h \in Handler, NEW t \in Table, NEW n \in Name,
             Open(h, c, t, n)
      PROVE  handler'[g].table = handler[g].table
  BY <1>1 DEF Open, Alive, IInv, TypeOK
<1>2. ASSUME NEW c \in Conn, NEW h \in Handler, NEW t \in Table, NEW n \in Name,
             Reuse(h, c, t, n)
      PROVE  handler'[g].table = handler[g].table
  BY <1>0, <1>2 DEF Reuse, IInv, TypeOK, HandlerState
<1>3. ASSUME NEW c \in Conn, EndStatement(c) PROVE handler'[g].table = handler[g].table
  BY <1>0, <1>3 DEF EndStatement, HandlerState
<1>4. ASSUME NEW h \in Handler, handler' = [handler EXCEPT ![h].state = "dead"]
      PROVE  handler'[g].table = handler[g].table
  BY <1>0, <1>4 DEF IInv, TypeOK, HandlerState
<1>5. CASE handler' = handler
  BY <1>5
<1> QED
  BY <1>1, <1>2, <1>3, <1>4, <1>5 DEF Next, vars, DeleteTable, StartTransaction, Write,
     Begin, BcCommit, BcRollback, EndTx, CloseConnection, Evict

\* Steps that leave ha_data and the list of written tables alone.
LEMMA SameRows ==
  ASSUME IInv, NInv, [Next]_vars, ha' = ha, wrote' = wrote
  PROVE  OwnRows' /\ WroteRows'
<1>1. ASSUME NEW d \in Conn, NEW m \in Name PROVE RowsOf(d, m)'
  <2>1. RowsOf(d, m)
    BY DEF NInv, OwnRows
  <2>2. ASSUME ha[d][m].open
        PROVE  handler'[ha[d][m].connector].table = m
    BY <2>1, <2>2, TableKept DEF RowsOf, IInv, AllPinned, Pinned
  <2> QED
    BY <2>1, <2>2 DEF RowsOf
<1> QED
  BY <1>1 DEF OwnRows, NInv, WroteRows

\* A new pointer, of open() or of the temporary handler of DROP TABLE.
LEMMA PointsRows ==
  ASSUME IInv, NInv, [Next]_vars, NEW c \in Conn, NEW h \in Handler, NEW n \in Name,
         Points(h, c, n), wrote' = wrote, ha[c][n].open => handler'[h].table = n
  PROVE  OwnRows' /\ WroteRows'
<1>1. \A d \in Conn, m \in Name :
        /\ ha'[d][m].open = ha[d][m].open
        /\ ha'[d][m].rows = ha[d][m].rows
        /\ ha'[d][m].connector = IF d = c /\ m = n THEN h ELSE ha[d][m].connector
  BY DEF Points, IInv, TypeOK, HaData
<1>2. ASSUME NEW d \in Conn, NEW m \in Name PROVE RowsOf(d, m)'
  <2>1. RowsOf(d, m)
    BY DEF NInv, OwnRows
  <2>2. ASSUME ha[d][m].open
        PROVE  handler'[ha'[d][m].connector].table = m
    <3>1. CASE d = c /\ m = n
      BY <1>1, <2>2, <3>1
    <3>2. CASE ~(d = c /\ m = n)
      BY <1>1, <2>1, <2>2, <3>2, TableKept DEF RowsOf, IInv, AllPinned, Pinned
    <3> QED
      BY <3>1, <3>2
  <2> QED
    BY <1>1, <2>1, <2>2 DEF RowsOf
<1>3. ASSUME NEW d \in Conn, NEW t \in wrote'[d] PROVE ha'[d][t].rows = {t}
  <2>1. t \in Name
    BY DEF IInv, TypeOK, Name
  <2> QED
    BY <1>1, <2>1 DEF NInv, WroteRows
<1> QED
  BY <1>2, <1>3 DEF OwnRows, WroteRows

LEMMA OpenRows ==
  ASSUME Plain, IInv, NInv, [Next]_vars,
         NEW c \in Conn, NEW h \in Handler, NEW t \in Table, NEW n \in Name,
         Open(h, c, t, n) \/ DeleteTable(h, c, t)
  PROVE  OwnRows' /\ WroteRows'
<1>1. CASE Open(h, c, t, n)
  <2>1. handler'[h].table = n
    BY <1>1 DEF Open, Take, Plain, IInv, TypeOK
  <2> QED
    BY <1>1, <2>1, PointsRows DEF Open, FindConnector, Take
<1>2. CASE DeleteTable(h, c, t)
  <2>1. t \in Name
    BY DEF Name
  <2>2. ~ha[c][t].open
    BY <1>2, <2>1 DEF DeleteTable, IInv, AllPinned, Pinned
  <2> QED
    BY <1>2, <2>1, <2>2, PointsRows DEF DeleteTable, FindConnector
<1> QED
  BY <1>1, <1>2

\* The name under which a statement uses a table is the table's.
LEMMA UsedName ==
  ASSUME Plain, NInv, NEW c \in Conn, NEW h \in Handler, Uses(c, h)
  PROVE  handler[h].name \in Name /\ handler[h].name = handler[h].table
BY PlainNames DEF NInv, Named, Uses, Alive

LEMMA StartRows ==
  ASSUME Plain, IInv, NInv, [Next]_vars, NEW c \in Conn, NEW h \in Handler,
         StartTransaction(h, c)
  PROVE  OwnRows' /\ WroteRows'
<1> DEFINE n == handler[h].name
<1>1. n \in Name /\ handler[h].table = n
  BY UsedName DEF StartTransaction
<1>2. /\ handler' = handler /\ wrote' = wrote /\ ~ha[c][n].open
      /\ ha' = [ha EXCEPT ![c][n] = [open |-> TRUE, rows |-> {}, connector |-> h]]
  BY DEF StartTransaction
<1>3. ha'[c][n] = [open |-> TRUE, rows |-> {}, connector |-> h]
  BY <1>1, <1>2 DEF IInv, TypeOK
<1>4. \A d \in Conn, m \in Name : ~(d = c /\ m = n) => ha'[d][m] = ha[d][m]
  BY <1>1, <1>2 DEF IInv, TypeOK
<1>5. ASSUME NEW d \in Conn, NEW m \in Name PROVE RowsOf(d, m)'
  BY <1>1, <1>2, <1>3, <1>4 DEF NInv, OwnRows, RowsOf
<1>6. ASSUME NEW d \in Conn, NEW t \in wrote'[d] PROVE ha'[d][t].rows = {t}
  <2>1. t \in Name /\ ha[d][t].rows = {t}
    BY <1>2 DEF IInv, TypeOK, Name, NInv, WroteRows
  <2>2. ~(d = c /\ t = n)
    BY <1>2, <2>1 DEF NInv, OwnRows, RowsOf
  <2> QED
    BY <1>4, <2>1, <2>2
<1> QED
  BY <1>5, <1>6 DEF OwnRows, WroteRows

LEMMA WriteRows ==
  ASSUME Plain, IInv, NInv, [Next]_vars, NEW c \in Conn, NEW h \in Handler, Write(h, c)
  PROVE  OwnRows' /\ WroteRows'
<1> DEFINE n == handler[h].name
<1>1. n \in Name /\ handler[h].table = n
  BY UsedName DEF Write
<1>2. /\ handler' = handler /\ n \in Writable /\ ha[c][n].open
      /\ ha' = [ha EXCEPT ![c][n].rows = @ \cup {n}]
      /\ wrote' = [wrote EXCEPT ![c] = @ \cup {n}]
  BY <1>1 DEF Write
<1>3. ha[c][n] \in HaData /\ ha[c][n].rows \subseteq {n}
  BY <1>1 DEF IInv, TypeOK, NInv, OwnRows, RowsOf
<1>4. /\ ha'[c][n].rows = {n} /\ ha'[c][n].open = ha[c][n].open
      /\ ha'[c][n].connector = ha[c][n].connector
  BY <1>1, <1>2, <1>3 DEF IInv, TypeOK, HaData
<1>5. \A d \in Conn, m \in Name : ~(d = c /\ m = n) => ha'[d][m] = ha[d][m]
  BY <1>1, <1>2 DEF IInv, TypeOK
<1>6. ASSUME NEW d \in Conn, NEW m \in Name PROVE RowsOf(d, m)'
  <2>1. RowsOf(d, m)
    BY DEF NInv, OwnRows
  <2>2. CASE d = c /\ m = n
    <3>1. handler'[ha'[c][n].connector].table = n
      BY <1>2, <1>4, <2>1, <2>2 DEF RowsOf
    <3> QED
      BY <1>2, <1>4, <2>2, <3>1 DEF RowsOf
  <2>3. CASE ~(d = c /\ m = n)
    <3>1. ha'[d][m] = ha[d][m]
      BY <1>5, <2>3
    <3> QED
      BY <1>2, <2>1, <3>1 DEF RowsOf
  <2> QED
    BY <2>2, <2>3
<1>7. ASSUME NEW d \in Conn, NEW t \in wrote'[d] PROVE ha'[d][t].rows = {t}
  <2>1. CASE d = c /\ t = n
    BY <1>4, <2>1
  <2>2. CASE ~(d = c /\ t = n)
    <3>1. t \in wrote[d] /\ t \in Name
      BY <1>2, <2>2 DEF IInv, TypeOK, Name
    <3> QED
      BY <1>5, <2>2, <3>1 DEF NInv, WroteRows
  <2> QED
    BY <2>1, <2>2
<1> QED
  BY <1>6, <1>7 DEF OwnRows, WroteRows

LEMMA EndRows ==
  ASSUME IInv, NInv, [Next]_vars, NEW c \in Conn, EndTx(c) \/ CloseConnection(c)
  PROVE  OwnRows' /\ WroteRows'
<1>1. handler' = handler
  BY DEF EndTx, CloseConnection
<1>2. \A d \in Conn \ {c} : ha'[d] = ha[d] /\ wrote'[d] = wrote[d]
  BY DEF EndTx, CloseConnection, IInv, TypeOK
<1>3. \A m \in Name : ha'[c][m].rows = {} /\ ~ha'[c][m].open
  <2>1. CASE EndTx(c)
    <3>1. \A m \in Name : ha[c][m] \in HaData
      BY DEF IInv, TypeOK
    <3> QED
      BY <2>1, <3>1 DEF EndTx, IInv, TypeOK, HaData
  <2>2. CASE CloseConnection(c)
    BY <2>2 DEF CloseConnection, IInv, TypeOK, NoData
  <2> QED
    BY <2>1, <2>2
<1>4. wrote'[c] = {}
  <2>1. CASE EndTx(c)
    BY <2>1 DEF EndTx, IInv, TypeOK
  <2>2. CASE CloseConnection(c)
    <3>1. wrote' = wrote /\ ~inTx[c]
      BY <2>2 DEF CloseConnection
    <3>2. ASSUME NEW t \in wrote[c] PROVE FALSE
      <4>1. t \in Name /\ ha[c][t].rows = {t}
        BY <3>2 DEF IInv, TypeOK, Name, NInv, WroteRows
      <4>2. ha[c][t].open
        BY <4>1 DEF NInv, OwnRows, RowsOf
      <4> QED
        BY <3>1, <4>1, <4>2 DEF IInv, AllPinned, Pinned
    <3> QED
      BY <3>1, <3>2
  <2> QED
    BY <2>1, <2>2
<1>5. ASSUME NEW d \in Conn, NEW m \in Name PROVE RowsOf(d, m)'
  BY <1>1, <1>2, <1>3 DEF NInv, OwnRows, RowsOf
<1>6. ASSUME NEW d \in Conn, NEW t \in wrote'[d] PROVE ha'[d][t].rows = {t}
  BY <1>2, <1>4 DEF NInv, WroteRows
<1> QED
  BY <1>5, <1>6 DEF OwnRows, WroteRows

LEMMA InitNames == Init => NInv
BY DEF Init, NInv, InfoFixed, Named, Alive, Unborn, OwnRows, RowsOf, NoData, WroteRows

LEMMA NextNames ==
  ASSUME Plain, IInv, NInv, [Next]_vars
  PROVE  NInv'
<1>1. InfoFixed' /\ Named'
  BY InfoKept, NamedKept DEF NInv, InfoFixed
<1>2. OwnRows' /\ WroteRows'
  <2>1. CASE ha' = ha /\ wrote' = wrote
    BY <2>1, SameRows
  <2>2. ASSUME NEW c \in Conn, NEW h \in Handler, NEW t \in Table, NEW n \in Name,
               Open(h, c, t, n) \/ Reuse(h, c, t, n)
        PROVE  OwnRows' /\ WroteRows'
    BY <2>1, <2>2, OpenRows DEF Reuse, Take
  <2>3. ASSUME NEW c \in Conn, NEW h \in Handler, NEW t \in Table, DeleteTable(h, c, t)
        PROVE  OwnRows' /\ WroteRows'
    BY <2>3, OpenRows DEF Name
  <2>4. ASSUME NEW c \in Conn, NEW h \in Handler, StartTransaction(h, c) \/ Write(h, c)
        PROVE  OwnRows' /\ WroteRows'
    BY <2>4, StartRows, WriteRows
  <2>5. ASSUME NEW c \in Conn, Begin(c) \/ EndStatement(c)
        PROVE  OwnRows' /\ WroteRows'
    BY <2>1, <2>5 DEF Begin, EndStatement
  <2>6. ASSUME NEW c \in Conn, BcCommit(c) \/ BcRollback(c) \/ CloseConnection(c)
        PROVE  OwnRows' /\ WroteRows'
    BY <2>6, EndRows DEF BcCommit, BcRollback
  <2>7. ASSUME NEW h \in Handler, Evict(h) PROVE OwnRows' /\ WroteRows'
    BY <2>1, <2>7 DEF Evict
  <2>8. CASE UNCHANGED vars
    BY <2>1, <2>8 DEF vars
  <2> QED
    BY <2>2, <2>3, <2>4, <2>5, <2>6, <2>7, <2>8 DEF Next
<1> QED
  BY <1>1, <1>2 DEF NInv

LEMMA NamesInvariant == ASSUME Plain PROVE Spec => [](IInv /\ NInv)
<1>1. ~CacheOverflows
  BY DEF Plain
<1>2. Init => IInv /\ NInv
  BY InitInv, InitNames
<1>3. IInv /\ NInv /\ [Next]_vars => (IInv /\ NInv)'
  BY <1>1, NextInv, NextNames
<1> QED
  BY <1>2, <1>3, PTL DEF Spec

\* Without aliases and with every written table configured, COMMIT prepares the rows of each written table in
\* that table's contract and names this contract in the call that commits.
THEOREM CommitReaches == ASSUME Plain PROVE Spec => CommitReachesTables
<1>1. ASSUME IInv, NInv, [Next]_vars, NEW c \in Conn, BcCommit(c), NEW t \in wrote[c]
      PROVE  \E n \in Affected(c) :
               ha[c][n].rows = {t} /\ PreparedIn(c, n) = t /\ info'[n] = t
  <2>1. t \in Name /\ ha[c][t].rows = {t}
    BY <1>1 DEF IInv, TypeOK, Name, NInv, WroteRows
  <2>2. t \in Affected(c)
    BY <2>1 DEF Affected
  <2>3. t \in Configured /\ ha[c][t].open
    BY <1>1, <2>1 DEF NInv, OwnRows, RowsOf, Plain
  <2>4. PreparedIn(c, t) = t
    <3>1. Pinned(c, t) /\ handler[ha[c][t].connector].table = t
      BY <1>1, <2>1, <2>3 DEF IInv, AllPinned, NInv, OwnRows, RowsOf
    <3> QED
      BY <1>1, <2>3, <3>1 DEF Pinned, NInv, Named, Expected, PreparedIn
  <2>5. info'[t] = t
    <3>1. info' = info
      BY <1>1, InfoKept
    <3> QED
      BY <1>1, <2>1, <2>3, <3>1 DEF NInv, InfoFixed
  <2> QED
    BY <2>1, <2>2, <2>4, <2>5
<1>2. IInv /\ NInv /\ [Next]_vars =>
        [\A c \in Conn : BcCommit(c) =>
           \A t \in wrote[c] : \E n \in Affected(c) :
             ha[c][n].rows = {t} /\ PreparedIn(c, n) = t /\ info'[n] = t]_vars
  BY <1>1
<1> QED
  BY <1>2, NamesInvariant, PTL DEF Spec, CommitReachesTables
=============================================================================

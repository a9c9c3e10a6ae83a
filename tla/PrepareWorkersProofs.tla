------------------------ MODULE PrepareWorkersProofs ------------------------
(***************************************************************************)
(* Proofs about PrepareWorkers: its types, and that no worker outlives its *)
(* table transaction; then what the buffers have when bc_commit sends the  *)
(* commit, what a commit applies, and that cleans come last, as long as    *)
(* the setting is not switched on within the transaction.                  *)
(***************************************************************************)
EXTENDS PrepareWorkers, TLAPS

\* The call that an actor waits for is in the pool at most once, and every other
\* actor in the pool waits.
Callers ==
  /\ \A i \in DOMAIN pool : pool[i].by # NoOne => call[pool[i].by] = "sent"
  /\ \A i, j \in DOMAIN pool : pool[i].by = pool[j].by /\ pool[i].by # NoOne => i = j

\* Only workers of operations run.
Employed == \A n \in Running : n \in DOMAIN ops

\* How the local variables of bc_commit and bc_rollback relate to ha_data.
FrameShape ==
  /\ frame.pc \in {"tables", "workers", "puts", "removes"} => frame.todo \subseteq Live
  /\ frame.pc = "drop" /\ frame.ok => frame.todo \subseteq Live
  /\ frame.pc \in {"undo", "rollback", "quit", "clear"} => ~frame.ok
  /\ frame.pc = "undo" => frame.cur \in Live

IInv == TypeOK /\ Callers /\ Employed /\ FrameShape /\ WorkersHaveTheirTx

CallState == {"none", "started", "sent", "mined", "failed", "done"}

-----------------------------------------------------------------------------
(***************************************************************************)
(* Types.                                                                  *)
(***************************************************************************)
LEMMA InitInv == Init => IInv
<1> SUFFICES ASSUME Init PROVE IInv
  OBVIOUS
<1>1. setting \in BOOLEAN
  BY FlagAssumption DEF Init
<1>2. frame \in Frame
  BY DEF Init, Frame
<1>3. TypeOK
  BY <1>1, <1>2, BoundAssumption DEF Init, TypeOK, Actor
<1>4. Running = {}
  BY DEF Init, Running, Actor
<1> QED
  BY <1>3, <1>4 DEF Init, IInv, Callers, Employed, FrameShape, WorkersHaveTheirTx

\* A table transaction is not a null pointer, and keeps its type when its lists
\* grow or its flag changes.
LEMMA TxFields ==
  ASSUME NEW x \in TableTx
  PROVE  /\ x # NoTx
         /\ x.puts \in Seq(Worker) /\ x.removes \in Seq(Worker) /\ x.success \in BOOLEAN
         /\ \A n \in Worker : /\ [x EXCEPT !.puts = Append(@, n)] \in TableTx
                              /\ [x EXCEPT !.removes = Append(@, n)] \in TableTx
         /\ \A b \in BOOLEAN : [x EXCEPT !.success = b] \in TableTx
<1>1. x # NoTx
  BY NoTxAssumption
<1>2. x.puts \in Seq(Worker) /\ x.removes \in Seq(Worker) /\ x.success \in BOOLEAN
  BY DEF TableTx
<1>3. ASSUME NEW n \in Worker
      PROVE  /\ [x EXCEPT !.puts = Append(@, n)] \in TableTx
             /\ [x EXCEPT !.removes = Append(@, n)] \in TableTx
  <2>1. Append(x.puts, n) \in Seq(Worker) /\ Append(x.removes, n) \in Seq(Worker)
    BY <1>2
  <2> QED
    BY <2>1 DEF TableTx
<1>4. \A b \in BOOLEAN : [x EXCEPT !.success = b] \in TableTx
  BY DEF TableTx
<1> QED
  BY <1>1, <1>2, <1>3, <1>4

\* The table that bc_commit or bc_rollback works on has a table transaction.
LEMMA CurrentTx ==
  ASSUME TypeOK, frame.cur \in Live
  PROVE  frame.cur \in Table /\ tx[frame.cur] \in TableTx
BY DEF TypeOK, Live

\* How frames change.
LEMMA FrameFields ==
  ASSUME NEW f \in Frame
  PROVE  /\ f.todo \subseteq Table /\ f.affected \subseteq Table
         /\ f.cur \in Table \cup {NoTable} /\ f.ok \in BOOLEAN
         /\ \A p \in {"open", "tables", "workers", "puts", "removes", "undo", "commit",
                      "rollback", "quit", "clear", "drop", "ended"},
              todo \in SUBSET Table, a \in SUBSET Table, u \in Table \cup {NoTable},
              b \in BOOLEAN :
                [pc |-> p, todo |-> todo, affected |-> a, cur |-> u, ok |-> b] \in Frame
BY DEF Frame

LEMMA PoolEntry ==
  ASSUME TypeOK, NEW i \in DOMAIN pool
  PROVE  /\ pool[i] \in Entry /\ pool[i].by \in Actor \cup {NoOne}
         /\ pool[i].tables \subseteq Table /\ pool[i].ops \in Seq(Worker)
<1>1. pool[i] \in Entry
  BY DEF TypeOK
<1> QED
  BY <1>1 DEF Entry

LEMMA OpTable ==
  ASSUME TypeOK, NEW n \in DOMAIN ops
  PROVE  ops[n].table \in Table
<1>1. ops[n] \in Op
  BY DEF TypeOK
<1> QED
  BY <1>1 DEF Op

-----------------------------------------------------------------------------
(***************************************************************************)
(* A step that only moves the connection's thread keeps the invariant when *)
(* it keeps the relation of the frame to ha_data; so does one that reads   *)
(* the result of a call.                                                   *)
(***************************************************************************)
Told == answer \in {"none", "ok", "commitFailed", "rolledBack"}

CurShape ==
  frame.pc \in {"workers", "puts", "removes", "quit", "clear", "drop"} => frame.cur \in Live

LEMMA FrameStep ==
  ASSUME IInv, frame' \in Frame, FrameShape', CurShape', Told',
         UNCHANGED <<setting, tx, ops, call, pool, chain>>
  PROVE  IInv'
<1>1. TypeOK'
  BY DEF IInv, TypeOK, FrameShape, CurShape, Told, chain, Live
<1>2. Callers' /\ Employed' /\ WorkersHaveTheirTx'
  BY DEF IInv, Callers, Employed, WorkersHaveTheirTx, Running
<1> QED
  BY <1>1, <1>2 DEF IInv

LEMMA ReturnStep ==
  ASSUME IInv, Answered, frame' \in Frame, FrameShape', CurShape', Told',
         call' = [call EXCEPT ![Main] = "none"],
         UNCHANGED <<setting, tx, ops, pool, chain>>
  PROVE  IInv'
<1>1. TypeOK'
  <2>1. call' \in [Actor -> {"none", "started", "sent", "mined", "failed", "done"}]
    BY DEF IInv, TypeOK, Actor
  <2> QED
    BY <2>1 DEF IInv, TypeOK, FrameShape, CurShape, Told, chain, Live
<1>2. Running' = Running
  BY ActorAssumption DEF IInv, TypeOK, Running, Actor
<1>3. Callers'
  <2>1. \A i \in DOMAIN pool : pool[i].by \in Actor \cup {NoOne}
    BY PoolEntry DEF IInv
  <2> QED
    BY <2>1 DEF IInv, TypeOK, Callers, Answered
<1>4. Employed' /\ WorkersHaveTheirTx'
  BY <1>2 DEF IInv, Employed, WorkersHaveTheirTx
<1> QED
  BY <1>1, <1>3, <1>4 DEF IInv

-----------------------------------------------------------------------------
(***************************************************************************)
(* The steps of clients and workers.                                       *)
(***************************************************************************)
LEMMA SwitchKeeps ==
  ASSUME IInv, Switch
  PROVE  IInv'
BY FlagAssumption DEF IInv, Switch, TypeOK, Callers, Employed, FrameShape, WorkersHaveTheirTx,
   Running, chain, Live

LEMMA StartTransactionKeeps ==
  ASSUME IInv, NEW t \in Table, StartTransaction(t)
  PROVE  IInv'
<1> DEFINE x == [immediate |-> setting, puts |-> << >>, removes |-> << >>, success |-> TRUE]
<1>1. x \in TableTx
  BY DEF IInv, TypeOK, TableTx
<1>2. x # NoTx
  BY <1>1, NoTxAssumption
<1> HIDE DEF x
<1>3. tx' = [tx EXCEPT ![t] = x]
  BY DEF StartTransaction, x
<1>4. TypeOK'
  BY <1>1, <1>3 DEF IInv, TypeOK, StartTransaction, chain
<1>5. WorkersHaveTheirTx'
  <2>1. \A u \in Table : tx[u] # NoTx => tx'[u] # NoTx
    BY <1>2, <1>3 DEF IInv, TypeOK
  <2>2. \A n \in Running : ops[n].table \in Table
    BY OpTable DEF IInv, Employed
  <2> QED
    BY <2>1, <2>2 DEF IInv, WorkersHaveTheirTx, StartTransaction, Running
<1>6. Callers' /\ Employed' /\ FrameShape'
  BY DEF IInv, Callers, Employed, FrameShape, StartTransaction, Running
<1> QED
  BY <1>4, <1>5, <1>6 DEF IInv

LEMMA AddKeeps ==
  ASSUME IInv, NEW op \in Op, Add(op)
  PROVE  IInv'
<1> DEFINE n == Len(ops) + 1
           t == op.table
           x == IF op.deleteEntry THEN [tx[t] EXCEPT !.removes = Append(@, n)]
                                  ELSE [tx[t] EXCEPT !.puts = Append(@, n)]
<1>1. t \in Table /\ n \in Worker /\ tx[t] # NoTx /\ tx[t] \in TableTx
  BY DEF IInv, TypeOK, Add, Op
<1>2. x \in TableTx
  BY <1>1, TxFields
<1>3. x # NoTx
  BY <1>2, TxFields
<1>4. tx' = [tx EXCEPT ![t] = x]
  BY <1>1 DEF Add, IInv, TypeOK
<1>5. ops' \in Seq(Op) /\ DOMAIN ops' = DOMAIN ops \cup {n} /\ ops'[n] = op
      /\ Len(ops') = n /\ \A m \in DOMAIN ops : ops'[m] = ops[m]
  BY DEF IInv, TypeOK, Add
<1>6. call' = [call EXCEPT ![n] = IF tx[t].immediate THEN "started" ELSE "none"]
  BY DEF Add
<1>7. n \notin DOMAIN ops
  BY DEF IInv, TypeOK
<1> HIDE DEF x
<1>8. TypeOK'
  <2>1. Len(ops') <= MaxOps
    BY <1>1, <1>5, BoundAssumption DEF Worker
  <2>2. call' \in [Actor -> {"none", "started", "sent", "mined", "failed", "done"}]
    BY <1>1, <1>6 DEF IInv, TypeOK, Actor
  <2>3. tx' \in [Table -> TableTx \cup {NoTx}]
    BY <1>1, <1>2, <1>4 DEF IInv, TypeOK
  <2> QED
    BY <1>5, <2>1, <2>2, <2>3 DEF IInv, TypeOK, Add, chain
<1>9. \A m \in Running' : m \in Running \/ m = n
  BY <1>1, <1>6 DEF Running, IInv, TypeOK, Actor
<1>10. Employed'
  BY <1>5, <1>9 DEF IInv, Employed
<1>11. WorkersHaveTheirTx'
  <2>1. \A u \in Table : tx[u] # NoTx => tx'[u] # NoTx
    BY <1>1, <1>3, <1>4 DEF IInv, TypeOK
  <2>2. ASSUME NEW m \in Running' PROVE tx'[ops'[m].table] # NoTx
    <3>1. CASE m = n
      BY <1>1, <1>3, <1>4, <1>5, <3>1 DEF IInv, TypeOK
    <3>2. CASE m \in Running
      <4>1. ops[m].table \in Table /\ ops'[m] = ops[m]
        BY <3>2, <1>5, OpTable DEF IInv, Employed
      <4> QED
        BY <3>2, <4>1, <2>1 DEF IInv, WorkersHaveTheirTx
    <3> QED
      BY <1>9, <2>2, <3>1, <3>2
  <2> QED
    BY <2>2 DEF WorkersHaveTheirTx
<1>12. Callers'
  <2>1. n \notin Running
    BY <1>7 DEF IInv, Employed
  <2>2. call[n] # "sent"
    BY <1>1, <2>1 DEF Running
  <2>3. \A i \in DOMAIN pool : pool[i].by \in Actor \cup {NoOne}
    BY PoolEntry DEF IInv
  <2> QED
    BY <1>1, <1>6, <2>2, <2>3 DEF IInv, TypeOK, Callers, Add, Actor
<1>13. FrameShape'
  BY DEF IInv, FrameShape, Add
<1> QED
  BY <1>8, <1>10, <1>11, <1>12, <1>13 DEF IInv

LEMMA ReportKeeps ==
  ASSUME IInv, NEW n \in Worker, Report(n)
  PROVE  IInv'
<1> DEFINE t == ops[n].table
<1>1. n \in Running
  BY DEF Report, Running
<1>2. t \in Table /\ tx[t] # NoTx /\ tx[t] \in TableTx
  <2>1. t \in Table
    BY <1>1, OpTable DEF IInv, Employed
  <2> QED
    BY <1>1, <2>1 DEF IInv, WorkersHaveTheirTx, TypeOK
<1>3. PICK x \in TableTx : tx' = [tx EXCEPT ![t] = x]
  <2>1. tx[t].success \in BOOLEAN /\ (call[n] = "mined") \in BOOLEAN
    BY <1>2, TxFields
  <2>2. [tx[t] EXCEPT !.success = @ /\ call[n] = "mined"] \in TableTx
    BY <1>2, <2>1, TxFields
  <2> QED
    BY <1>2, <2>2 DEF Report, IInv, TypeOK
<1>4. x # NoTx
  BY TxFields
<1>5. call' = [call EXCEPT ![n] = "done"] /\ call[n] # "sent"
  BY DEF Report
<1>6. \A u \in Table : tx[u] # NoTx <=> tx'[u] # NoTx
  BY <1>2, <1>3, <1>4 DEF IInv, TypeOK
<1>7. TypeOK'
  <2>1. tx' \in [Table -> TableTx \cup {NoTx}]
    BY <1>2, <1>3 DEF IInv, TypeOK
  <2>2. call' \in [Actor -> {"none", "started", "sent", "mined", "failed", "done"}]
    BY <1>5 DEF IInv, TypeOK, Actor
  <2>3. Live' = Live
    BY <1>6 DEF Live
  <2> QED
    BY <2>1, <2>2, <2>3 DEF IInv, TypeOK, Report, chain
<1>8. Running' \subseteq Running
  BY <1>5 DEF IInv, TypeOK, Running, Actor
<1>9. Employed' /\ WorkersHaveTheirTx'
  <2>1. \A m \in Running : ops[m].table \in Table
    BY OpTable DEF IInv, Employed
  <2> QED
    BY <1>6, <1>8, <2>1 DEF IInv, Employed, WorkersHaveTheirTx, Report
<1>10. Callers'
  <2>1. \A i \in DOMAIN pool : pool[i].by \in Actor \cup {NoOne}
    BY PoolEntry DEF IInv
  <2> QED
    BY <1>5, <2>1 DEF IInv, TypeOK, Callers, Report, Actor
<1>11. FrameShape'
  <2>1. Live' = Live
    BY <1>6 DEF Live
  <2> QED
    BY <2>1 DEF IInv, FrameShape, Report
<1> QED
  BY <1>7, <1>9, <1>10, <1>11 DEF IInv

-----------------------------------------------------------------------------
(***************************************************************************)
(* The steps of bc_commit and bc_rollback that call nobody.                *)
(***************************************************************************)
LEMMA BcCommitKeeps ==
  ASSUME IInv, BcCommit
  PROVE  IInv'
<1>1. frame' \in Frame
  BY DEF IInv, TypeOK, Live, Frame, Go, BcCommit
<1>2. Live' = Live
  BY DEF Live, Go, BcCommit
<1>3. FrameShape' /\ CurShape'
  BY <1>2 DEF IInv, TypeOK, FrameShape, CurShape, Frame, Go, BcCommit
<1>4. Told' /\ UNCHANGED <<setting, tx, ops, call, pool, chain>>
  BY DEF IInv, TypeOK, Told, Go, BcCommit
<1> QED
  BY <1>1, <1>3, <1>4, FrameStep

LEMMA NextTableKeeps ==
  ASSUME IInv, NEW t \in Table, NextTable(t)
  PROVE  IInv'
<1>1. frame' \in Frame
  BY DEF IInv, TypeOK, Live, Frame, Go, NextTable
<1>2. Live' = Live
  BY DEF Live, Go, NextTable
<1>3. FrameShape' /\ CurShape'
  BY <1>2 DEF IInv, TypeOK, FrameShape, CurShape, Frame, Go, NextTable
<1>4. Told' /\ UNCHANGED <<setting, tx, ops, call, pool, chain>>
  BY DEF IInv, TypeOK, Told, Go, NextTable
<1> QED
  BY <1>1, <1>3, <1>4, FrameStep

LEMMA WorkersReturnedKeeps ==
  ASSUME IInv, WorkersReturned
  PROVE  IInv'
<1>1. frame' \in Frame
  BY DEF IInv, TypeOK, Live, Frame, Go, WorkersReturned, Judged
<1>2. Live' = Live
  BY DEF Live, Go, WorkersReturned, Judged
<1>3. FrameShape' /\ CurShape'
  BY <1>2 DEF IInv, TypeOK, FrameShape, CurShape, Frame, Go, WorkersReturned, Judged
<1>4. Told' /\ UNCHANGED <<setting, tx, ops, call, pool, chain>>
  BY DEF IInv, TypeOK, Told, Go, WorkersReturned, Judged
<1> QED
  BY <1>1, <1>3, <1>4, FrameStep

LEMMA AllPreparedKeeps ==
  ASSUME IInv, AllPrepared
  PROVE  IInv'
<1>1. frame' \in Frame
  BY DEF IInv, TypeOK, Live, Frame, Go, AllPrepared
<1>2. Live' = Live
  BY DEF Live, Go, AllPrepared
<1>3. FrameShape' /\ CurShape'
  BY <1>2 DEF IInv, TypeOK, FrameShape, CurShape, Frame, Go, AllPrepared
<1>4. Told' /\ UNCHANGED <<setting, tx, ops, call, pool, chain>>
  BY DEF IInv, TypeOK, Told, Go, AllPrepared
<1> QED
  BY <1>1, <1>3, <1>4, FrameStep

LEMMA RollbackKeeps ==
  ASSUME IInv, Rollback
  PROVE  IInv'
<1>1. frame' \in Frame
  BY DEF IInv, TypeOK, Live, Frame, Go, Rollback
<1>2. Live' = Live
  BY DEF Live, Go, Rollback
<1>3. FrameShape' /\ CurShape'
  BY <1>2 DEF IInv, TypeOK, FrameShape, CurShape, Frame, Go, Rollback
<1>4. Told' /\ UNCHANGED <<setting, tx, ops, call, pool, chain>>
  BY DEF IInv, TypeOK, Told, Go, Rollback
<1> QED
  BY <1>1, <1>3, <1>4, FrameStep

LEMMA RollbackTableKeeps ==
  ASSUME IInv, NEW t \in Table, RollbackTable(t)
  PROVE  IInv'
<1>1. frame' \in Frame
  BY DEF IInv, TypeOK, Live, Frame, Go, RollbackTable
<1>2. Live' = Live
  BY DEF Live, Go, RollbackTable
<1>3. FrameShape' /\ CurShape'
  BY <1>2 DEF IInv, TypeOK, FrameShape, CurShape, Frame, Go, RollbackTable
<1>4. Told' /\ UNCHANGED <<setting, tx, ops, call, pool, chain>>
  BY DEF IInv, TypeOK, Told, Go, RollbackTable
<1> QED
  BY <1>1, <1>3, <1>4, FrameStep

LEMMA WorkersQuitKeeps ==
  ASSUME IInv, WorkersQuit
  PROVE  IInv'
<1>1. frame' \in Frame
  BY DEF IInv, TypeOK, Live, Frame, Go, WorkersQuit
<1>2. Live' = Live
  BY DEF Live, Go, WorkersQuit
<1>3. FrameShape' /\ CurShape'
  BY <1>2 DEF IInv, TypeOK, FrameShape, CurShape, Frame, Go, WorkersQuit
<1>4. Told' /\ UNCHANGED <<setting, tx, ops, call, pool, chain>>
  BY DEF IInv, TypeOK, Told, Go, WorkersQuit
<1> QED
  BY <1>1, <1>3, <1>4, FrameStep

LEMMA NothingToCommitKeeps ==
  ASSUME IInv, NothingToCommit
  PROVE  IInv'
<1>1. frame' \in Frame
  BY DEF IInv, TypeOK, Live, Frame, Go, NothingToCommit, End
<1>2. Live' = Live
  BY DEF Live, Go, NothingToCommit, End
<1>3. FrameShape' /\ CurShape'
  BY <1>2 DEF IInv, TypeOK, FrameShape, CurShape, Frame, Go, NothingToCommit, End
<1>4. Told' /\ UNCHANGED <<setting, tx, ops, call, pool, chain>>
  BY DEF IInv, TypeOK, Told, Go, NothingToCommit, End
<1> QED
  BY <1>1, <1>3, <1>4, FrameStep

LEMMA RolledBackKeeps ==
  ASSUME IInv, RolledBack
  PROVE  IInv'
<1>1. frame' \in Frame
  BY DEF IInv, TypeOK, Live, Frame, Go, RolledBack, End
<1>2. Live' = Live
  BY DEF Live, Go, RolledBack, End
<1>3. FrameShape' /\ CurShape'
  BY <1>2 DEF IInv, TypeOK, FrameShape, CurShape, Frame, Go, RolledBack, End
<1>4. Told' /\ UNCHANGED <<setting, tx, ops, call, pool, chain>>
  BY DEF IInv, TypeOK, Told, Go, RolledBack, End
<1> QED
  BY <1>1, <1>3, <1>4, FrameStep

\* The table transaction is gone, and none of its workers runs.
LEMMA DestructorKeeps ==
  ASSUME IInv, DestructorReturned
  PROVE  IInv'
<1>1. frame.cur \in Live /\ frame.cur \in Table
  BY DEF IInv, TypeOK, DestructorReturned, Live
<1>2. tx' \in [Table -> TableTx \cup {NoTx}]
  BY DEF IInv, TypeOK, DestructorReturned
<1>3. Live' = Live \ {frame.cur}
  BY <1>1 DEF IInv, TypeOK, DestructorReturned, Live
<1>4. frame' \in Frame
  BY DEF IInv, TypeOK, DestructorReturned, Frame
<1>5. FrameShape' /\ CurShape'
  BY <1>3 DEF IInv, TypeOK, FrameShape, CurShape, DestructorReturned, Frame
<1>6. TypeOK'
  BY <1>2, <1>4, <1>5 DEF IInv, TypeOK, FrameShape, CurShape, DestructorReturned, chain
<1>7. WorkersHaveTheirTx'
  <2>1. Running' = Running
    BY DEF DestructorReturned, Running
  <2>2. ASSUME NEW n \in Running PROVE tx'[ops[n].table] # NoTx
    <3>1. n \in DOMAIN ops /\ ops[n].table \in Table /\ tx[ops[n].table] # NoTx
      BY OpTable DEF IInv, Employed, WorkersHaveTheirTx
    <3>2. ops[n].table # frame.cur
      BY <3>1 DEF DestructorReturned, Joined, On
    <3> QED
      BY <3>1, <3>2 DEF DestructorReturned, IInv, TypeOK
  <2> QED
    BY <2>1, <2>2 DEF WorkersHaveTheirTx, DestructorReturned
<1>8. Callers' /\ Employed'
  BY DEF IInv, Callers, Employed, DestructorReturned, Running
<1> QED
  BY <1>5, <1>6, <1>7, <1>8 DEF IInv

-----------------------------------------------------------------------------
(***************************************************************************)
(* Calls.                                                                  *)
(***************************************************************************)
LEMMA RequestType ==
  ASSUME IInv, NEW a \in Actor, Calling(a), NEW request \in Requests(a)
  PROVE  /\ request \in Entry /\ request.by = a
         /\ a = Main => request.tables \subseteq Table
<1>1. CASE a \in Worker
  <2>1. a \in DOMAIN ops
    BY <1>1 DEF IInv, Employed, Calling, Running
  <2>2. ops[a].table \in Table
    BY <2>1, OpTable DEF IInv
  <2>3. <<a>> \in Seq(Worker)
    BY <1>1
  <2>4. request = [kind |-> "op", tables |-> {ops[a].table}, ops |-> <<a>>, by |-> a]
    BY <1>1 DEF Requests
  <2>5. a # Main
    BY <1>1, ActorAssumption
  <2> QED
    BY <2>2, <2>3, <2>4, <2>5 DEF Entry
<1>2. CASE a = Main
  <2>1. PICK t \in IF frame.pc = "undo" THEN frame.todo ELSE {frame.cur} :
               request = MainRequest(t)
    BY <1>2, ActorAssumption DEF Requests
  <2>2. frame.todo \subseteq Table /\ frame.affected \subseteq Table
    BY DEF IInv, TypeOK, Frame
  <2>3. frame.pc # "commit" => t \in Table
    BY <1>2, <2>1, <2>2, ActorAssumption DEF Calling, IInv, TypeOK, Live
  <2>4. CASE frame.pc \in {"puts", "removes"}
    <3>1. t = frame.cur /\ tx[t] \in TableTx
      BY <2>1, <2>4, CurrentTx DEF IInv, TypeOK
    <3>2. tx[t].puts \in Seq(Worker) /\ tx[t].removes \in Seq(Worker)
      BY <3>1, TxFields
    <3> QED
      BY <1>2, <2>1, <2>3, <2>4, <3>2 DEF MainRequest, Entry
  <2>5. CASE frame.pc \notin {"puts", "removes"}
    <3>1. << >> \in Seq(Worker)
      OBVIOUS
    <3> QED
      BY <1>2, <2>1, <2>2, <2>3, <2>5, <3>1 DEF MainRequest, Entry
  <2> QED
    BY <2>4, <2>5
<1> QED
  BY <1>1, <1>2 DEF Actor

\* A call starts or fails: the connection's thread moves on only in its undo loop.
LEMMA AdvanceKeeps ==
  ASSUME IInv, NEW a \in Actor, Calling(a), NEW request \in Requests(a),
         NEW how \in {"sent", "failed"}, Advance(a, request, how),
         UNCHANGED <<setting, tx, ops, chain, answer>>, pool' \in Seq(Entry)
  PROVE  TypeOK' /\ Employed' /\ FrameShape' /\ WorkersHaveTheirTx'
<1>1. call' \in [Actor -> {"none", "started", "sent", "mined", "failed", "done"}]
  BY DEF IInv, TypeOK, Advance
<1>2. frame' \in Frame /\ frame'.pc = frame.pc /\ frame'.cur = frame.cur
      /\ frame'.ok = frame.ok /\ (frame'.todo = frame.todo \/ frame.pc = "undo")
  BY DEF IInv, TypeOK, Advance, Frame
<1>3. Live' = Live
  BY DEF Live
<1>4. TypeOK' /\ FrameShape'
  BY <1>1, <1>2, <1>3 DEF IInv, TypeOK, FrameShape, chain
<1>5. Running' \subseteq Running
  BY ActorAssumption DEF IInv, TypeOK, Advance, Running, Calling, Actor
<1> QED
  BY <1>4, <1>5 DEF IInv, Employed, WorkersHaveTheirTx

\* No call of an actor that is about to call is in the pool.
LEMMA CallingIsNew ==
  ASSUME IInv, NEW a \in Actor, Calling(a)
  PROVE  /\ call[a] # "sent"
         /\ \A i \in DOMAIN pool : pool[i].by # a
<1>1. call[a] # "sent"
  BY ActorAssumption DEF Calling, Actor
<1> QED
  BY <1>1, ActorAssumption DEF IInv, Callers, Actor

LEMMA SendKeeps ==
  ASSUME IInv, NEW a \in Actor, Send(a)
  PROVE  IInv'
<1>1. PICK request \in Requests(a) :
        pool' = Append(pool, request) /\ Advance(a, request, "sent")
  BY DEF Send
<1>2. Calling(a) /\ UNCHANGED <<setting, tx, ops, chain, answer>>
  BY DEF Send
<1>3. request \in Entry /\ request.by = a
  BY <1>2, RequestType
<1>4. pool \in Seq(Entry) /\ pool' \in Seq(Entry)
  BY <1>1, <1>3 DEF IInv, TypeOK
<1>5. TypeOK' /\ Employed' /\ FrameShape' /\ WorkersHaveTheirTx'
  BY <1>1, <1>2, <1>4, AdvanceKeeps
<1>6. Callers'
  <2>1. \A i \in DOMAIN pool : pool[i].by \in Actor \cup {NoOne} /\ pool[i].by # a
    BY <1>2, CallingIsNew, PoolEntry DEF IInv
  <2>2. call' = [call EXCEPT ![a] = "sent"] /\ call \in [Actor -> CallState]
    BY <1>1 DEF Advance, IInv, TypeOK, CallState
  <2>3. \A i \in DOMAIN pool' : \/ i \in DOMAIN pool /\ pool'[i] = pool[i]
                                \/ i = Len(pool) + 1 /\ pool'[i] = request
    BY <1>1, <1>3, <1>4
  <2>4. Len(pool) + 1 \notin DOMAIN pool
    BY <1>4
  <2> QED
    BY <1>3, <2>1, <2>2, <2>3, <2>4, ActorAssumption DEF IInv, Callers
<1> QED
  BY <1>5, <1>6 DEF IInv

LEMMA SendFailsKeeps ==
  ASSUME IInv, NEW a \in Actor, SendFails(a)
  PROVE  IInv'
<1>1. PICK request \in Requests(a) : Advance(a, request, "failed")
  BY DEF SendFails
<1>2. Calling(a) /\ UNCHANGED <<setting, tx, ops, chain, answer>>
  BY DEF SendFails
<1>3. Hole \in Entry /\ Hole.by = NoOne
  BY DEF Hole, Entry
<1>4. pool \in Seq(Entry) /\ (pool' = pool \/ pool' = Append(pool, Hole))
  BY DEF IInv, TypeOK, SendFails
<1>5. pool' \in Seq(Entry)
  BY <1>3, <1>4
<1>6. TypeOK' /\ Employed' /\ FrameShape' /\ WorkersHaveTheirTx'
  BY <1>1, <1>2, <1>5, AdvanceKeeps
<1>7. Callers'
  <2>1. \A i \in DOMAIN pool : pool[i].by \in Actor \cup {NoOne} /\ pool[i].by # a
    BY <1>2, CallingIsNew, PoolEntry DEF IInv
  <2>2. call' = [call EXCEPT ![a] = "failed"] /\ call \in [Actor -> CallState]
    BY <1>1 DEF Advance, IInv, TypeOK, CallState
  <2>3. \A i \in DOMAIN pool' : \/ i \in DOMAIN pool /\ pool'[i] = pool[i]
                                \/ pool'[i].by = NoOne
    BY <1>3, <1>4
  <2> QED
    BY <2>1, <2>2, <2>3, ActorAssumption DEF IInv, Callers
<1> QED
  BY <1>6, <1>7 DEF IInv

LEMMA TimeOutKeeps ==
  ASSUME IInv, NEW a \in Actor, TimeOut(a)
  PROVE  IInv'
<1>1. call' \in [Actor -> {"none", "started", "sent", "mined", "failed", "done"}]
  BY DEF IInv, TypeOK, TimeOut
<1>2. pool' \in Seq(Entry)
  <2>1. \A i \in DOMAIN pool : pool[i] \in Entry /\ [pool[i] EXCEPT !.by = NoOne] \in Entry
    BY PoolEntry DEF IInv, Entry
  <2> DEFINE e(i) == IF pool[i].by = a THEN [pool[i] EXCEPT !.by = NoOne] ELSE pool[i]
  <2>2. Len(pool) \in Nat /\ DOMAIN pool = 1..Len(pool)
    BY DEF IInv, TypeOK
  <2>3. \A i \in 1..Len(pool) : e(i) \in Entry
    BY <2>1, <2>2
  <2>4. pool' = [i \in 1..Len(pool) |-> e(i)]
    BY <2>2 DEF TimeOut
  <2> HIDE DEF e
  <2> QED
    BY <2>2, <2>3, <2>4
<1>3. TypeOK'
  BY <1>1, <1>2 DEF IInv, TypeOK, TimeOut, chain, Live
<1>4. Running' = Running
  BY DEF IInv, TypeOK, TimeOut, Running, Actor
<1>5. Employed' /\ WorkersHaveTheirTx'
  BY <1>4 DEF IInv, Employed, WorkersHaveTheirTx, TimeOut
<1>6. FrameShape'
  BY DEF IInv, FrameShape, TimeOut, Live
<1>7. Callers'
  <2>1. DOMAIN pool' = DOMAIN pool
    BY DEF TimeOut
  <2>2. \A i \in DOMAIN pool : pool'[i].by = IF pool[i].by = a THEN NoOne ELSE pool[i].by
    <3>1. \A i \in DOMAIN pool : pool[i] \in Entry
      BY PoolEntry DEF IInv
    <3> QED
      BY <3>1 DEF TimeOut, Entry
  <2>3. \A i \in DOMAIN pool : pool[i].by \in Actor \cup {NoOne}
    BY PoolEntry DEF IInv
  <2>4. call' = [call EXCEPT ![a] = "failed"] /\ call \in [Actor -> CallState]
    BY DEF TimeOut, IInv, TypeOK, CallState
  <2> QED
    BY <2>1, <2>2, <2>3, <2>4, ActorAssumption DEF IInv, Callers
<1> QED
  BY <1>3, <1>5, <1>6, <1>7 DEF IInv

-----------------------------------------------------------------------------
(***************************************************************************)
(* What bc_commit and bc_rollback do with results.                         *)
(***************************************************************************)
LEMMA PutsReturnedKeeps ==
  ASSUME IInv, PutsReturned
  PROVE  IInv'
<1>1. frame' \in Frame
  BY DEF IInv, TypeOK, Frame, Return, PutsReturned, Judged
<1>2. Live' = Live
  BY DEF Live, Return, PutsReturned, Judged
<1>3. FrameShape' /\ CurShape'
  BY <1>2 DEF IInv, TypeOK, FrameShape, CurShape, Frame, Return, PutsReturned, Judged
<1>4. Told' /\ Answered /\ call' = [call EXCEPT ![Main] = "none"]
      /\ UNCHANGED <<setting, tx, ops, pool, chain>>
  BY DEF IInv, TypeOK, Told, Return, PutsReturned, Judged
<1> QED
  BY <1>1, <1>3, <1>4, ReturnStep

LEMMA RemovesReturnedKeeps ==
  ASSUME IInv, RemovesReturned
  PROVE  IInv'
<1>1. frame' \in Frame
  BY DEF IInv, TypeOK, Frame, Return, RemovesReturned, Judged
<1>2. Live' = Live
  BY DEF Live, Return, RemovesReturned, Judged
<1>3. FrameShape' /\ CurShape'
  BY <1>2 DEF IInv, TypeOK, FrameShape, CurShape, Frame, Return, RemovesReturned, Judged
<1>4. Told' /\ Answered /\ call' = [call EXCEPT ![Main] = "none"]
      /\ UNCHANGED <<setting, tx, ops, pool, chain>>
  BY DEF IInv, TypeOK, Told, Return, RemovesReturned, Judged
<1> QED
  BY <1>1, <1>3, <1>4, ReturnStep

LEMMA CleanReturnedKeeps ==
  ASSUME IInv, CleanReturned
  PROVE  IInv'
<1>1. frame' \in Frame
  BY DEF IInv, TypeOK, Frame, Return, CleanReturned
<1>2. Live' = Live
  BY DEF Live, Return, CleanReturned
<1>3. FrameShape' /\ CurShape'
  BY <1>2 DEF IInv, TypeOK, FrameShape, CurShape, Frame, Return, CleanReturned
<1>4. Told' /\ Answered /\ call' = [call EXCEPT ![Main] = "none"]
      /\ UNCHANGED <<setting, tx, ops, pool, chain>>
  BY DEF IInv, TypeOK, Told, Return, CleanReturned
<1> QED
  BY <1>1, <1>3, <1>4, ReturnStep

LEMMA CommitReturnedKeeps ==
  ASSUME IInv, CommitReturned
  PROVE  IInv'
<1>1. frame' \in Frame
  BY DEF IInv, TypeOK, Frame, Return, CommitReturned
<1>2. Live' = Live
  BY DEF Live, Return, CommitReturned
<1>3. FrameShape' /\ CurShape'
  BY <1>2 DEF IInv, TypeOK, FrameShape, CurShape, Frame, Return, CommitReturned
<1>4. Told' /\ Answered /\ call' = [call EXCEPT ![Main] = "none"]
      /\ UNCHANGED <<setting, tx, ops, pool, chain>>
  BY DEF IInv, TypeOK, Told, Return, CommitReturned
<1> QED
  BY <1>1, <1>3, <1>4, ReturnStep

LEMMA MineKeeps ==
  ASSUME IInv, Mine
  PROVE  IInv'
<1> DEFINE e == Head(pool)
<1>1. pool \in Seq(Entry) /\ pool # << >>
  BY DEF IInv, TypeOK, Mine
<1>2. 1 \in DOMAIN pool /\ e = pool[1] /\ e \in Entry
  BY <1>1
<1>3. e.by \in Actor \cup {NoOne} /\ e.ops \in Seq(Worker)
  BY <1>2 DEF Entry
<1>4. call' = IF e.by = NoOne THEN call ELSE [call EXCEPT ![e.by] = "mined"]
  BY DEF Mine
<1>5. pool' = Tail(pool)
  BY DEF Mine
<1>6. UNCHANGED <<setting, tx, ops, frame, answer>>
  BY DEF Mine
<1>7. buffer' \in [Table -> Seq(Worker)] /\ store' \in [Table -> Seq(Worker)]
  <2>1. \A t \in Table : buffer[t] \in Seq(Worker) /\ store[t] \in Seq(Worker)
    BY DEF IInv, TypeOK
  <2>2. \A t \in Table : /\ buffer[t] \o e.ops \in Seq(Worker)
                         /\ store[t] \o buffer[t] \in Seq(Worker)
    BY <1>3, <2>1
  <2>3. << >> \in Seq(Worker)
    OBVIOUS
  <2> QED
    BY <2>1, <2>2, <2>3 DEF Mine
<1>8. e.by # NoOne => call[e.by] = "sent"
  BY <1>2 DEF IInv, Callers
<1> HIDE DEF e
<1>9. call' \in [Actor -> {"none", "started", "sent", "mined", "failed", "done"}]
  BY <1>3, <1>4 DEF IInv, TypeOK
<1>10. pool' \in Seq(Entry)
  BY <1>1, <1>5
<1>11. TypeOK'
  BY <1>6, <1>7, <1>9, <1>10 DEF IInv, TypeOK, Live
<1>12. Running' = Running
  BY <1>3, <1>4, <1>8 DEF IInv, TypeOK, Running, Actor
<1>13. Employed' /\ WorkersHaveTheirTx' /\ FrameShape'
  BY <1>6, <1>12 DEF IInv, Employed, WorkersHaveTheirTx, FrameShape, Live
<1>14. Callers'
  <2>1. \A i \in DOMAIN pool' : i \in Nat /\ i + 1 \in DOMAIN pool /\ pool'[i] = pool[i + 1]
    BY <1>1, <1>5
  <2>2. \A i \in DOMAIN pool : pool[i].by \in Actor \cup {NoOne}
    BY PoolEntry DEF IInv
  <2>3. \A i \in DOMAIN pool' : pool'[i].by # NoOne => pool'[i].by # e.by
    <3> SUFFICES ASSUME NEW i \in DOMAIN pool', pool'[i].by # NoOne, pool'[i].by = e.by
                 PROVE  FALSE
      OBVIOUS
    <3>1. i + 1 = 1
      BY <1>2, <2>1 DEF IInv, Callers
    <3>2. i \in DOMAIN pool' => i >= 1
      BY <1>10
    <3> QED
      BY <2>1, <3>1, <3>2
  <2>4. \A i \in DOMAIN pool' : pool'[i].by # NoOne => call'[pool'[i].by] = "sent"
    BY <1>4, <2>1, <2>2, <2>3 DEF IInv, TypeOK, Callers
  <2>5. ASSUME NEW i \in DOMAIN pool', NEW j \in DOMAIN pool',
               pool'[i].by = pool'[j].by, pool'[i].by # NoOne
        PROVE  i = j
    <3>1. i + 1 = j + 1
      BY <2>1, <2>5 DEF IInv, Callers
    <3> QED
      BY <2>1, <3>1
  <2> QED
    BY <2>4, <2>5 DEF Callers
<1> QED
  BY <1>11, <1>13, <1>14 DEF IInv

-----------------------------------------------------------------------------
LEMMA NextInv == IInv /\ [Next]_vars => IInv'
<1> SUFFICES ASSUME IInv, [Next]_vars PROVE IInv'
  OBVIOUS
<1>1. CASE UNCHANGED vars
  BY <1>1 DEF vars, chain, IInv, TypeOK, Callers, Employed, FrameShape, WorkersHaveTheirTx,
     Running, Live
<1>2. CASE Switch
  BY <1>2, SwitchKeeps
<1>3. CASE Client
  BY <1>3, StartTransactionKeeps, AddKeeps, BcCommitKeeps, RollbackKeeps DEF Client
<1>4. CASE MainStep
  <2>1. Main \in Actor
    BY DEF Actor
  <2> QED
    BY <1>4, <2>1, NextTableKeeps, RollbackTableKeeps, WorkersReturnedKeeps, AllPreparedKeeps,
       NothingToCommitKeeps, DestructorKeeps, WorkersQuitKeeps, RolledBackKeeps, SendKeeps,
       SendFailsKeeps, TimeOutKeeps, PutsReturnedKeeps, RemovesReturnedKeeps,
       CleanReturnedKeeps, CommitReturnedKeeps
       DEF MainStep
<1>5. ASSUME NEW n \in Worker, WorkerStep(n) PROVE IInv'
  <2>1. n \in Actor
    BY DEF Actor
  <2> QED
    BY <1>5, <2>1, SendKeeps, SendFailsKeeps, TimeOutKeeps, ReportKeeps DEF WorkerStep
<1>6. CASE Mine
  BY <1>6, MineKeeps
<1> QED
  BY <1>1, <1>2, <1>3, <1>4, <1>5, <1>6 DEF Next

\* The strengthening: only workers of operations run, a call that an actor waits
\* for is in the pool once, and COMMIT and ROLLBACK keep track of the tables left.
THEOREM InductiveInvariant == Spec => []IInv
BY InitInv, NextInv, PTL DEF Spec

\* The types of the connection's thread, the workers, their calls and the chain.
THEOREM TypeCorrect == Spec => []TypeOK
<1>1. IInv => TypeOK
  BY DEF IInv
<1> QED
  BY <1>1, InductiveInvariant, PTL

\* No worker outlives the table transaction whose identifier, flag and mutex it
\* uses by reference, on no path through COMMIT and ROLLBACK (~blockchain_table_tx).
THEOREM WorkersKeepTheirTx == Spec => []WorkersHaveTheirTx
<1>1. IInv => WorkersHaveTheirTx
  BY DEF IInv
<1> QED
  BY <1>1, InductiveInvariant, PTL

-----------------------------------------------------------------------------
(***************************************************************************)
(* The order of the calls.                                                 *)
(***************************************************************************)
\* The buffer of its contract has operation n.
Buffered(n) == n \in Range(buffer[ops[n].table])

AllBuffered(t) == \A n \in On(t) : Buffered(n)

\* The commit was not mined, and it may be.
Undecided ==
  \/ frame.pc \notin {"commit", "ended"}
  \/ frame.pc = "commit" /\ call[Main] = "none"
  \/ \E p \in DOMAIN pool : pool[p].kind = "commit"

\* What a worker has reported, or is about to report, is true.
WorkerTruth ==
  frame.ok => \A n \in DOMAIN ops : tx[ops[n].table] # NoTx =>
    /\ call[n] = "mined" => Buffered(n)
    /\ call[n] = "done" /\ tx[ops[n].table].success => Buffered(n)
    /\ tx[ops[n].table].immediate => call[n] # "none"
    /\ n \in Range(tx[ops[n].table].puts) \cup Range(tx[ops[n].table].removes)

\* What bc_commit has confirmed so far is in the buffers.
MainTruth ==
  /\ frame.ok /\ Undecided => \A t \in Table : tx[t] = NoTx => AllBuffered(t)
  /\ frame.pc = "puts" /\ call[Main] = "mined" =>
       \A n \in Range(tx[frame.cur].puts) : n \in Range(buffer[frame.cur])
  /\ frame.pc = "removes" /\ frame.ok =>
       /\ \A n \in Range(tx[frame.cur].puts) : n \in Range(buffer[frame.cur])
       /\ call[Main] = "mined" =>
            \A n \in Range(tx[frame.cur].removes) : n \in Range(buffer[frame.cur])
  /\ frame.pc = "drop" /\ frame.ok => AllBuffered(frame.cur)

\* Where bc_commit is, and which table transactions are left.
MainPlace ==
  /\ frame.pc \in {"open", "tables", "workers", "puts", "commit"} => frame.ok
  /\ frame.pc \in {"tables", "workers", "puts", "removes"} => Live \subseteq frame.todo
  /\ frame.pc = "drop" /\ frame.ok => Live \subseteq frame.todo
  /\ frame.pc = "open" => \A n \in DOMAIN ops : tx[ops[n].table] # NoTx
  /\ frame.pc \in {"commit", "ended"} => Live = {}
  /\ frame.pc \in {"open", "tables"} => frame.cur = NoTable
  /\ frame.pc \notin {"puts", "removes", "undo", "commit", "clear"} => call[Main] = "none"
  /\ frame.pc = "workers" => tx[frame.cur].immediate
  /\ setting => (\A t \in Live : tx[t].immediate) /\ frame.pc \notin {"puts", "removes"}

\* The calls in the pool are those that were asked for.
Asked ==
  \A p \in DOMAIN pool :
    /\ pool[p].by \in Worker =>
         /\ pool[p].kind = "op" /\ pool[p].ops = <<pool[p].by>>
         /\ pool[p].tables = {ops[pool[p].by].table}
    /\ pool[p].by = Main /\ frame.pc = "puts" =>
         /\ pool[p].kind = "batch" /\ pool[p].ops = tx[frame.cur].puts
         /\ pool[p].tables = {frame.cur}
    /\ pool[p].by = Main /\ frame.pc = "removes" =>
         /\ pool[p].kind = "batch" /\ pool[p].ops = tx[frame.cur].removes
         /\ pool[p].tables = {frame.cur}
    /\ pool[p].kind = "clean" => ~frame.ok
    /\ pool[p].kind = "commit" =>
         /\ p = Len(pool) /\ Live = {} /\ frame.ok
         /\ frame.pc = "ended" \/ (frame.pc = "commit" /\ call[Main] # "none")

\* A clean is sent when the workers of its table have ended.
CleanAfterJoin ==
  setting =>
    /\ frame.pc \in {"tables", "workers", "undo"} \/ (frame.pc = "drop" /\ frame.ok) =>
         \A t \in frame.affected : tx[t] = NoTx \/ t = frame.cur
    /\ frame.pc = "undo" => Joined(frame.cur) /\ frame.todo \subseteq frame.affected
    /\ frame.pc = "clear" => Joined(frame.cur)
    /\ \A p \in DOMAIN pool : pool[p].kind = "clean" =>
         frame.pc # "open" /\ \A t \in pool[p].tables : Joined(t)
    /\ frame.pc = "open" => frame.affected = {}

PInv == /\ WorkerTruth /\ MainTruth /\ MainPlace /\ Asked /\ CleanAfterJoin /\ CleanIsLast

-----------------------------------------------------------------------------
(***************************************************************************)
(* Facts that most steps need.                                             *)
(***************************************************************************)
LEMMA OpFacts ==
  ASSUME IInv
  PROVE  /\ DOMAIN ops \subseteq Worker
         /\ \A n \in DOMAIN ops : ops[n].table \in Table
         /\ \A n \in Running : n \in DOMAIN ops /\ tx[ops[n].table] # NoTx
<1>1. DOMAIN ops = 1..Len(ops) /\ Len(ops) \in Nat /\ Len(ops) <= MaxOps
  BY DEF IInv, TypeOK
<1>2. DOMAIN ops \subseteq Worker
  BY <1>1, BoundAssumption DEF Worker
<1> QED
  BY <1>2, OpTable DEF IInv, Employed, WorkersHaveTheirTx

\* The workers of a table whose transaction is destroyed have ended.
LEMMA NoTxJoined ==
  ASSUME IInv, NEW t, tx[t] = NoTx
  PROVE  Joined(t)
BY OpFacts DEF Joined, On

\* Parts of the invariant that depend on these variables only.
LEMMA BuffersKeep ==
  ASSUME UNCHANGED <<ops, buffer>>
  PROVE  /\ \A n : Buffered(n)' = Buffered(n)
         /\ \A t : AllBuffered(t)' = AllBuffered(t) /\ On(t)' = On(t)
<1>1. \A n : Buffered(n)' = Buffered(n)
  BY DEF Buffered
<1>2. \A t : On(t)' = On(t)
  BY DEF On
<1> QED
  BY <1>1, <1>2 DEF AllBuffered

\* While a commit waits in the pool nobody is about to call.
LEMMA CommitWaits ==
  ASSUME IInv, PInv, NEW p \in DOMAIN pool, pool[p].kind = "commit"
  PROVE  Running = {} /\ \A a \in Actor : ~Calling(a)
<1>1. Live = {} /\ frame.pc \in {"commit", "ended"} /\ (frame.pc = "commit" => call[Main] # "none")
  BY DEF PInv, Asked
<1>2. Running = {}
  BY <1>1, OpFacts DEF Live
<1>3. \A n \in Worker : call[n] # "started"
  BY <1>2 DEF Running
<1> QED
  BY <1>1, <1>2, <1>3, ActorAssumption DEF Calling, Actor

\* Steps of the connection's thread that do not call.
LEMMA GoKeeps ==
  ASSUME IInv, PInv, frame.pc \notin {"commit", "ended"}, call[Main] = "none",
         frame'.ok => frame.ok, UNCHANGED <<setting, tx, ops, call, pool, chain>>
  PROVE  /\ WorkerTruth' /\ Asked' /\ CleanIsLast' /\ Live' = Live
         /\ \A t : AllBuffered(t)' = AllBuffered(t) /\ Joined(t)' = Joined(t)
<1>1. UNCHANGED <<ops, buffer>> /\ Live' = Live
  BY DEF chain, Live
<1>2. \A t : AllBuffered(t)' = AllBuffered(t) /\ Joined(t)' = Joined(t)
  BY <1>1, BuffersKeep DEF Joined, Running
<1>3. WorkerTruth'
  BY <1>1, BuffersKeep DEF PInv, WorkerTruth
<1>4. \A p \in DOMAIN pool : pool[p].by # Main /\ pool[p].kind # "commit"
  BY ActorAssumption DEF IInv, Callers, PInv, Asked, Actor
<1>5. Asked'
  BY <1>4 DEF PInv, Asked
<1> QED
  BY <1>1, <1>2, <1>3, <1>5 DEF PInv, CleanIsLast

-----------------------------------------------------------------------------
(***************************************************************************)
(* The steps of bc_commit and bc_rollback that call nobody.                *)
(***************************************************************************)
LEMMA BcCommitPInv ==
  ASSUME IInv, PInv, BcCommit
  PROVE  PInv'
<1>1. /\ frame.pc = "open" /\ frame' = [frame EXCEPT !.pc = "tables", !.todo = Live]
      /\ UNCHANGED <<setting, tx, ops, call, pool, chain>> /\ frame \in Frame
  BY DEF BcCommit, Go, IInv, TypeOK
<1>2. frame'.pc = "tables" /\ frame'.todo = Live /\ frame'.ok = frame.ok
      /\ frame'.cur = frame.cur /\ frame'.affected = frame.affected
  BY <1>1 DEF Frame
<1>3. call[Main] = "none" /\ frame.ok
  BY <1>1 DEF PInv, MainPlace
<1>4. /\ WorkerTruth' /\ Asked' /\ CleanIsLast' /\ Live' = Live
      /\ \A t : AllBuffered(t)' = AllBuffered(t) /\ Joined(t)' = Joined(t)
  BY <1>1, <1>2, <1>3, GoKeeps
<1>5. MainTruth'
  BY <1>1, <1>2, <1>4 DEF PInv, MainTruth, Undecided
<1>6. MainPlace'
  BY <1>1, <1>2, <1>3, <1>4 DEF PInv, MainPlace
<1>7. CleanAfterJoin'
  BY <1>1, <1>2, <1>4 DEF PInv, CleanAfterJoin
<1> QED
  BY <1>4, <1>5, <1>6, <1>7 DEF PInv

LEMMA NextTablePInv ==
  ASSUME IInv, PInv, NEW t \in Table, NextTable(t)
  PROVE  PInv'
<1>1. /\ frame.pc = "tables" /\ t \in frame.todo /\ frame \in Frame /\ t \in Live
      /\ frame' = (IF IsReadOnly(t) THEN [frame EXCEPT !.pc = "drop", !.cur = t]
                   ELSE [frame EXCEPT !.cur = t, !.affected = @ \cup {t},
                           !.pc = IF setting THEN "workers"
                                  ELSE IF tx[t].puts # << >> THEN "puts" ELSE "removes"])
      /\ UNCHANGED <<setting, tx, ops, call, pool, chain>>
  BY DEF NextTable, Go, IInv, TypeOK
<1>2. /\ frame'.todo = frame.todo /\ frame'.ok = frame.ok /\ frame'.cur = t
      /\ frame'.pc = IF IsReadOnly(t) THEN "drop" ELSE IF setting THEN "workers"
                     ELSE IF tx[t].puts # << >> THEN "puts" ELSE "removes"
      /\ frame'.affected \in {frame.affected, frame.affected \cup {t}}
  BY <1>1 DEF Frame
<1>3. call[Main] = "none" /\ frame.ok
  BY <1>1 DEF PInv, MainPlace
<1>4. /\ WorkerTruth' /\ Asked' /\ CleanIsLast' /\ Live' = Live
      /\ \A u : AllBuffered(u)' = AllBuffered(u) /\ Joined(u)' = Joined(u)
  BY <1>1, <1>2, <1>3, GoKeeps
<1>5. IsReadOnly(t) => On(t) = {}
  BY <1>1, <1>3 DEF PInv, WorkerTruth, IsReadOnly, On, Range, Live
<1>6. MainTruth'
  <2>1. \A u \in Table : tx[u] = NoTx => AllBuffered(u)
    BY <1>1, <1>3 DEF PInv, MainTruth, Undecided
  <2>2. frame'.pc = "removes" => Range(tx[t].puts) = {}
    BY <1>2 DEF Range
  <2>3. IsReadOnly(t) => AllBuffered(t)
    BY <1>5 DEF AllBuffered
  <2> QED
    BY <1>1, <1>2, <1>3, <1>4, <2>1, <2>2, <2>3 DEF MainTruth
<1>7. MainPlace'
  <2>1. Live \subseteq frame.todo /\ (setting => \A u \in Live : tx[u].immediate)
    BY <1>1 DEF PInv, MainPlace
  <2> QED
    BY <1>1, <1>2, <1>3, <1>4, <2>1 DEF MainPlace
<1>8. CleanAfterJoin'
  <2>1. setting => \A u \in frame.affected : tx[u] = NoTx \/ u = frame.cur
    BY <1>1 DEF PInv, CleanAfterJoin
  <2>2. frame.cur = NoTable /\ frame.affected \subseteq Table
    BY <1>1 DEF PInv, MainPlace, Frame
  <2>3. setting => \A u \in frame'.affected : tx'[u] = NoTx \/ u = frame'.cur
    BY <1>1, <1>2, <2>1, <2>2, TableAssumption
  <2> QED
    BY <1>1, <1>2, <1>4, <2>3 DEF PInv, CleanAfterJoin
<1> QED
  BY <1>4, <1>6, <1>7, <1>8 DEF PInv

LEMMA WorkersReturnedPInv ==
  ASSUME IInv, PInv, WorkersReturned
  PROVE  PInv'
<1>1. /\ frame.pc = "workers" /\ Joined(frame.cur) /\ frame \in Frame /\ frame.cur \in Live
      /\ frame' = Judged(tx[frame.cur].success)
      /\ UNCHANGED <<setting, tx, ops, call, pool, chain>>
  BY DEF WorkersReturned, Go, IInv, TypeOK
<1>2. /\ frame'.cur = frame.cur /\ frame'.affected = frame.affected
      /\ IF tx[frame.cur].success
         THEN frame'.pc = "drop" /\ frame'.todo = frame.todo /\ frame'.ok = frame.ok
         ELSE frame'.pc = "undo" /\ frame'.todo = frame.affected /\ frame'.ok = FALSE
  BY <1>1 DEF Frame, Judged
<1>3. call[Main] = "none" /\ frame.ok /\ tx[frame.cur].immediate /\ Live \subseteq frame.todo
  BY <1>1 DEF PInv, MainPlace
<1>4. /\ WorkerTruth' /\ Asked' /\ CleanIsLast' /\ Live' = Live
      /\ \A u : AllBuffered(u)' = AllBuffered(u) /\ Joined(u)' = Joined(u)
  BY <1>1, <1>2, <1>3, GoKeeps
<1>5. tx[frame.cur].success => AllBuffered(frame.cur)
  <2>1. ASSUME tx[frame.cur].success, NEW n \in On(frame.cur) PROVE Buffered(n)
    <3>1. n \in DOMAIN ops /\ ops[n].table = frame.cur /\ n \in Worker /\ tx[frame.cur] # NoTx
      BY <1>1, OpFacts DEF On, Live
    <3>2. call[n] \in {"none", "done"}
      BY <1>1, <3>1 DEF Joined, On, Running
    <3> QED
      BY <1>3, <2>1, <3>1, <3>2 DEF PInv, WorkerTruth
  <2> QED
    BY <2>1 DEF AllBuffered
<1>6. MainTruth'
  <2>1. \A u \in Table : tx[u] = NoTx => AllBuffered(u)
    BY <1>1, <1>3 DEF PInv, MainTruth, Undecided
  <2> QED
    BY <1>1, <1>2, <1>3, <1>4, <1>5, <2>1 DEF MainTruth
<1>7. MainPlace'
  <2>1. setting => \A u \in Live : tx[u].immediate
    BY <1>1 DEF PInv, MainPlace
  <2> QED
    BY <1>1, <1>2, <1>3, <1>4, <2>1 DEF MainPlace
<1>8. CleanAfterJoin'
  BY <1>1, <1>2, <1>4 DEF PInv, CleanAfterJoin
<1> QED
  BY <1>4, <1>6, <1>7, <1>8 DEF PInv

\* Steps that go on in bc_commit with no table left, or in bc_rollback.
LEMMA AllPreparedPInv ==
  ASSUME IInv, PInv, AllPrepared
  PROVE  PInv'
<1>1. /\ frame.pc = "tables" /\ frame.todo = {} /\ frame \in Frame
      /\ frame' = [frame EXCEPT !.pc = "commit"]
      /\ UNCHANGED <<setting, tx, ops, call, pool, chain>>
  BY DEF AllPrepared, Go, IInv, TypeOK
<1>2. frame'.pc = "commit" /\ frame'.ok = frame.ok
  BY <1>1 DEF Frame
<1>3. call[Main] = "none" /\ frame.ok /\ Live = {}
  BY <1>1 DEF PInv, MainPlace
<1>4. /\ WorkerTruth' /\ Asked' /\ CleanIsLast' /\ Live' = Live
      /\ \A u : AllBuffered(u)' = AllBuffered(u) /\ Joined(u)' = Joined(u)
  BY <1>1, <1>2, <1>3, GoKeeps
<1>5. MainTruth'
  BY <1>1, <1>2, <1>4 DEF PInv, MainTruth, Undecided
<1>6. MainPlace'
  BY <1>1, <1>2, <1>3, <1>4 DEF PInv, MainPlace
<1>7. CleanAfterJoin'
  BY <1>1, <1>2, <1>4 DEF PInv, CleanAfterJoin
<1> QED
  BY <1>4, <1>5, <1>6, <1>7 DEF PInv

LEMMA EndsPInv ==
  ASSUME IInv, PInv, NothingToCommit \/ RolledBack
  PROVE  PInv'
<1>1. /\ frame.pc \in {"tables", "rollback"} /\ frame \in Frame
      /\ frame' = [frame EXCEPT !.pc = "ended"]
      /\ UNCHANGED <<setting, tx, ops, call, pool, chain>>
  BY DEF NothingToCommit, RolledBack, End, IInv, TypeOK
<1>2. frame'.pc = "ended" /\ frame'.ok = frame.ok
  BY <1>1 DEF Frame
<1>3. call[Main] = "none" /\ Live = {}
  BY <1>1 DEF PInv, MainPlace, NothingToCommit, RolledBack
<1>4. /\ WorkerTruth' /\ Asked' /\ CleanIsLast' /\ Live' = Live
      /\ \A u : AllBuffered(u)' = AllBuffered(u) /\ Joined(u)' = Joined(u)
  BY <1>1, <1>2, <1>3, GoKeeps
<1>5. MainTruth'
  <2>1. Undecided' => Undecided
    BY <1>1, <1>2 DEF Undecided
  <2> QED
    BY <1>1, <1>2, <1>4, <2>1 DEF PInv, MainTruth
<1>6. MainPlace'
  BY <1>1, <1>2, <1>3, <1>4 DEF PInv, MainPlace
<1>7. CleanAfterJoin'
  BY <1>1, <1>2, <1>4 DEF PInv, CleanAfterJoin
<1> QED
  BY <1>4, <1>5, <1>6, <1>7 DEF PInv

LEMMA RollbacksPInv ==
  ASSUME IInv, PInv, Rollback \/ (\E t \in Table : RollbackTable(t)) \/ WorkersQuit
  PROVE  PInv'
<1>1. /\ frame.pc \in {"open", "rollback", "quit"} /\ frame \in Frame
      /\ frame'.pc \in {"rollback", "quit", "drop", "clear"} /\ frame'.ok = FALSE
      /\ frame'.pc = "clear" => Joined(frame'.cur)
      /\ UNCHANGED <<setting, tx, ops, call, pool, chain>>
  <2>1. frame \in Frame /\ (frame.pc \in {"rollback", "quit"} => frame.ok = FALSE)
    BY DEF IInv, TypeOK, FrameShape, Frame
  <2> QED
    BY <2>1 DEF Rollback, RollbackTable, WorkersQuit, Go, Frame
<1>3. call[Main] = "none"
  BY <1>1 DEF PInv, MainPlace
<1>4. /\ WorkerTruth' /\ Asked' /\ CleanIsLast' /\ Live' = Live
      /\ \A u : AllBuffered(u)' = AllBuffered(u) /\ Joined(u)' = Joined(u)
  BY <1>1, <1>3, GoKeeps
<1>5. MainTruth'
  BY <1>1, <1>4 DEF PInv, MainTruth
<1>6. MainPlace'
  BY <1>1, <1>3, <1>4 DEF PInv, MainPlace
<1>7. CleanAfterJoin'
  <2>1. frame'.pc = "clear" => Joined(frame.cur)'
    BY <1>1 DEF Joined, On, Running
  <2> QED
    BY <1>1, <1>4, <2>1 DEF PInv, CleanAfterJoin
<1> QED
  BY <1>4, <1>5, <1>6, <1>7 DEF PInv

LEMMA DestructorPInv ==
  ASSUME IInv, PInv, DestructorReturned
  PROVE  PInv'
<1>1. /\ frame.pc = "drop" /\ Joined(frame.cur) /\ frame \in Frame /\ frame.cur \in Live
      /\ tx' = [tx EXCEPT ![frame.cur] = NoTx]
      /\ UNCHANGED <<setting, ops, call, pool, chain>>
      /\ tx \in [Table -> TableTx \cup {NoTx}]
  BY DEF DestructorReturned, IInv, TypeOK
<1>2. /\ frame'.cur = NoTable /\ frame'.affected = frame.affected /\ frame'.ok = frame.ok
      /\ IF frame.ok THEN frame'.pc = "tables" /\ frame'.todo = frame.todo \ {frame.cur}
                     ELSE frame'.pc = "rollback" /\ frame'.todo = frame.todo
  BY <1>1 DEF DestructorReturned, Frame
<1>3. call[Main] = "none" /\ (frame.ok => Live \subseteq frame.todo)
      /\ (setting => \A u \in Live : tx[u].immediate)
  BY <1>1 DEF PInv, MainPlace
<1>4. /\ \A n : Buffered(n)' = Buffered(n)
      /\ \A u : AllBuffered(u)' = AllBuffered(u) /\ Joined(u)' = Joined(u)
  BY <1>1, BuffersKeep DEF chain, Joined, Running
<1>5. \A u \in Table : tx'[u] = IF u = frame.cur THEN NoTx ELSE tx[u]
  BY <1>1
<1>6. Live' = Live \ {frame.cur}
  BY <1>1, <1>5 DEF Live
<1>7. WorkerTruth'
  <2>1. ASSUME NEW n \in DOMAIN ops, tx'[ops[n].table] # NoTx
        PROVE  tx'[ops[n].table] = tx[ops[n].table]
    BY <1>5, <2>1, OpFacts
  <2> QED
    BY <1>1, <1>2, <1>4, <2>1 DEF PInv, WorkerTruth
<1>8. \A p \in DOMAIN pool : pool[p].by # Main /\ pool[p].kind # "commit"
  BY <1>1, <1>3, ActorAssumption DEF IInv, Callers, PInv, Asked, Actor
<1>9. Asked'
  BY <1>1, <1>2, <1>8 DEF PInv, Asked
<1>10. MainTruth'
  <2>1. frame.ok => AllBuffered(frame.cur) /\ \A u \in Table : tx[u] = NoTx => AllBuffered(u)
    BY <1>1 DEF PInv, MainTruth, Undecided
  <2> QED
    BY <1>2, <1>4, <1>5, <2>1 DEF MainTruth
<1>11. MainPlace'
  <2>1. setting' => \A u \in Live' : tx'[u].immediate
    BY <1>1, <1>3, <1>5, <1>6 DEF Live
  <2> QED
    BY <1>1, <1>2, <1>3, <1>6, <2>1 DEF MainPlace
<1>12. CleanAfterJoin'
  <2>1. setting /\ frame.ok => \A u \in frame.affected : tx[u] = NoTx \/ u = frame.cur
    BY <1>1 DEF PInv, CleanAfterJoin
  <2>2. setting' /\ frame.ok => \A u \in frame'.affected : tx'[u] = NoTx
    BY <1>1, <1>2, <1>5, <2>1 DEF Frame
  <2> QED
    BY <1>1, <1>2, <1>4, <2>2 DEF PInv, CleanAfterJoin
<1> QED
  BY <1>1, <1>7, <1>9, <1>10, <1>11, <1>12 DEF PInv, CleanIsLast

-----------------------------------------------------------------------------
(***************************************************************************)
(* The setting, the statements of the client, and the reports.             *)
(***************************************************************************)
LEMMA SwitchPInv ==
  ASSUME TRUE \notin Switches, IInv, PInv, Switch
  PROVE  PInv'
<1>1. setting' = FALSE /\ UNCHANGED <<tx, ops, frame, call, pool, chain>>
  BY FlagAssumption DEF Switch
<1>2. Live' = Live /\ \A t : AllBuffered(t)' = AllBuffered(t)
  BY <1>1, BuffersKeep DEF Live, chain
<1>3. WorkerTruth'
  BY <1>1, BuffersKeep DEF PInv, WorkerTruth, chain
<1>4. MainTruth'
  BY <1>1, <1>2 DEF PInv, MainTruth, Undecided, chain
<1>5. MainPlace' /\ Asked'
  BY <1>1, <1>2 DEF PInv, MainPlace, Asked
<1>6. CleanAfterJoin' /\ CleanIsLast'
  BY <1>1 DEF CleanAfterJoin, CleanIsLast
<1> QED
  BY <1>3, <1>4, <1>5, <1>6 DEF PInv

LEMMA StartTransactionPInv ==
  ASSUME IInv, PInv, NEW t \in Table, StartTransaction(t)
  PROVE  PInv'
<1>1. PICK x \in TableTx : x = [immediate |-> setting, puts |-> << >>, removes |-> << >>,
                                success |-> TRUE]
  <2>1. setting \in BOOLEAN /\ << >> \in Seq(Worker)
    BY DEF IInv, TypeOK
  <2> QED
    BY <2>1 DEF TableTx
<1>2. /\ x # NoTx /\ x.immediate = setting /\ tx' = [tx EXCEPT ![t] = x]
      /\ UNCHANGED <<setting, ops, frame, call, pool, chain>>
      /\ frame.pc = "open" /\ tx[t] = NoTx /\ tx \in [Table -> TableTx \cup {NoTx}]
  BY <1>1, TxFields DEF StartTransaction, IInv, TypeOK
<1>3. \A u \in Table : tx'[u] = IF u = t THEN x ELSE tx[u]
  BY <1>2
<1>4. frame.ok /\ AllBuffered(t) /\ call[Main] = "none"
  BY <1>2 DEF PInv, MainPlace, MainTruth, Undecided
<1>5. \A n \in DOMAIN ops : ops[n].table # t
  BY <1>2 DEF PInv, MainPlace
<1>6. /\ \A n : Buffered(n)' = Buffered(n)
      /\ \A u : AllBuffered(u)' = AllBuffered(u) /\ Joined(u)' = Joined(u)
  BY <1>2, BuffersKeep DEF chain, Joined, Running
<1>7. WorkerTruth'
  <2>1. \A n \in DOMAIN ops : tx'[ops[n].table] = tx[ops[n].table]
    BY <1>3, <1>5, OpFacts
  <2> QED
    BY <1>2, <1>6, <2>1 DEF PInv, WorkerTruth
<1>8. MainTruth'
  <2>1. \A u \in Table : tx'[u] = NoTx => tx[u] = NoTx
    BY <1>2, <1>3
  <2> QED
    BY <1>2, <1>6, <2>1 DEF PInv, MainTruth, Undecided
<1>9. MainPlace'
  <2>1. setting => \A u \in Live' : tx'[u].immediate
    BY <1>2, <1>3 DEF PInv, MainPlace, Live
  <2>2. \A n \in DOMAIN ops : tx'[ops[n].table] # NoTx
    BY <1>2, <1>3, OpFacts DEF PInv, MainPlace
  <2> QED
    BY <1>2, <2>1, <2>2 DEF PInv, MainPlace
<1>10. Asked'
  <2>1. \A p \in DOMAIN pool : pool[p].kind # "commit"
    BY <1>2 DEF PInv, Asked
  <2> QED
    BY <1>2, <2>1 DEF PInv, Asked
<1>11. CleanAfterJoin' /\ CleanIsLast'
  BY <1>2 DEF PInv, CleanAfterJoin, CleanIsLast
<1> QED
  BY <1>7, <1>8, <1>9, <1>10, <1>11 DEF PInv

\* The elements of the lists and buffers that grow.
LEMMA RangeGrows ==
  ASSUME NEW s \in Seq(Worker)
  PROVE  /\ \A n \in Worker : Range(Append(s, n)) = Range(s) \cup {n}
         /\ \A r \in Seq(Worker) : Range(s \o r) = Range(s) \cup Range(r)
<1>1. ASSUME NEW n \in Worker PROVE Range(Append(s, n)) = Range(s) \cup {n}
  <2> DEFINE a == Append(s, n)
  <2>1. /\ DOMAIN a = DOMAIN s \cup {Len(s) + 1} /\ a[Len(s) + 1] = n
        /\ \A i \in DOMAIN s : a[i] = s[i]
    OBVIOUS
  <2> HIDE DEF a
  <2>2. Range(a) = Range(s) \cup {n}
    BY <2>1 DEF Range
  <2> QED
    BY <2>2 DEF a
<1>2. ASSUME NEW r \in Seq(Worker) PROVE Range(s \o r) = Range(s) \cup Range(r)
  <2> DEFINE c == s \o r
  <2>1. /\ \A i \in DOMAIN c : \/ i \in DOMAIN s /\ c[i] = s[i]
                               \/ i - Len(s) \in DOMAIN r /\ c[i] = r[i - Len(s)]
        /\ \A i \in DOMAIN s : i \in DOMAIN c /\ c[i] = s[i]
        /\ \A i \in DOMAIN r : i + Len(s) \in DOMAIN c /\ c[i + Len(s)] = r[i]
    OBVIOUS
  <2> HIDE DEF c
  <2>2. Range(c) = Range(s) \cup Range(r)
    BY <2>1 DEF Range
  <2> QED
    BY <2>2 DEF c
<1> QED
  BY <1>1, <1>2

LEMMA AddPInv ==
  ASSUME IInv, PInv, NEW op \in Op, Add(op)
  PROVE  PInv'
<1>1. PICK n \in Worker, t \in Table :
        /\ n = Len(ops) + 1 /\ t = op.table
        /\ frame.pc = "open" /\ tx[t] # NoTx /\ ops' = Append(ops, op)
        /\ tx' = (IF op.deleteEntry THEN [tx EXCEPT ![t].removes = Append(@, n)]
                                    ELSE [tx EXCEPT ![t].puts = Append(@, n)])
        /\ call' = [call EXCEPT ![n] = IF tx[t].immediate THEN "started" ELSE "none"]
        /\ UNCHANGED <<setting, frame, pool, chain, answer>>
  BY DEF Add, Op
<1>2. /\ n \notin DOMAIN ops /\ DOMAIN ops' = DOMAIN ops \cup {n} /\ ops'[n] = op
      /\ \A m \in DOMAIN ops : ops'[m] = ops[m]
  BY <1>1 DEF IInv, TypeOK
<1>3. PICK x \in TableTx : x = tx[t]
  BY <1>1 DEF IInv, TypeOK
<1>4. PICK y \in TableTx :
        /\ tx' = [tx EXCEPT ![t] = y] /\ y.immediate = x.immediate /\ y.success = x.success
        /\ Range(y.puts) \cup Range(y.removes) = Range(x.puts) \cup Range(x.removes) \cup {n}
  <2>1. x.puts \in Seq(Worker) /\ x.removes \in Seq(Worker)
    BY TxFields
  <2>2. CASE op.deleteEntry
    <3>1. [x EXCEPT !.removes = Append(@, n)] \in TableTx
      BY TxFields
    <3>2. PICK y \in TableTx : y = [x EXCEPT !.removes = Append(@, n)]
      BY <3>1
    <3>3. /\ y.immediate = x.immediate /\ y.success = x.success /\ y.puts = x.puts
          /\ y.removes = Append(x.removes, n)
      BY <3>2 DEF TableTx
    <3>4. tx' = [tx EXCEPT ![t] = y]
      BY <1>1, <1>3, <2>2, <3>2 DEF IInv, TypeOK
    <3>5. Range(y.removes) = Range(x.removes) \cup {n}
      BY <2>1, <3>3, RangeGrows
    <3> QED
      BY <3>3, <3>4, <3>5
  <2>3. CASE ~op.deleteEntry
    <3>1. [x EXCEPT !.puts = Append(@, n)] \in TableTx
      BY TxFields
    <3>2. PICK y \in TableTx : y = [x EXCEPT !.puts = Append(@, n)]
      BY <3>1
    <3>3. /\ y.immediate = x.immediate /\ y.success = x.success /\ y.removes = x.removes
          /\ y.puts = Append(x.puts, n)
      BY <3>2 DEF TableTx
    <3>4. tx' = [tx EXCEPT ![t] = y]
      BY <1>1, <1>3, <2>3, <3>2 DEF IInv, TypeOK
    <3>5. Range(y.puts) = Range(x.puts) \cup {n}
      BY <2>1, <3>3, RangeGrows
    <3> QED
      BY <3>3, <3>4, <3>5
  <2> QED
    BY <2>2, <2>3
<1>5. /\ \A u \in Table : tx'[u] = IF u = t THEN y ELSE tx[u]
      /\ tx[t] = x /\ x # NoTx /\ y # NoTx
  BY <1>3, <1>4, TxFields DEF IInv, TypeOK
<1>6. /\ \A m \in DOMAIN ops : call'[m] = call[m] /\ m # n
      /\ call'[n] = IF x.immediate THEN "started" ELSE "none"
      /\ call'[Main] = call[Main]
  BY <1>1, <1>2, <1>5, OpFacts, ActorAssumption DEF IInv, TypeOK, Actor
<1>7. \A m \in DOMAIN ops : Buffered(m)' = Buffered(m)
  BY <1>1, <1>2 DEF Buffered, chain
<1>8. WorkerTruth'
  <2>1. ASSUME frame.ok, NEW m \in DOMAIN ops
        PROVE  /\ tx'[ops'[m].table] # NoTx
               /\ call'[m] = "mined" => Buffered(m)'
               /\ call'[m] = "done" /\ tx'[ops'[m].table].success => Buffered(m)'
               /\ tx'[ops'[m].table].immediate => call'[m] # "none"
               /\ m \in Range(tx'[ops'[m].table].puts) \cup Range(tx'[ops'[m].table].removes)
    <3>1. /\ tx[ops[m].table] # NoTx
          /\ call[m] = "mined" => Buffered(m)
          /\ call[m] = "done" /\ tx[ops[m].table].success => Buffered(m)
          /\ tx[ops[m].table].immediate => call[m] # "none"
          /\ m \in Range(tx[ops[m].table].puts) \cup Range(tx[ops[m].table].removes)
      BY <1>1, <2>1 DEF PInv, WorkerTruth, MainPlace
    <3>2. ops'[m] = ops[m] /\ ops[m].table \in Table
      BY <1>2, OpFacts
    <3>3. CASE ops[m].table = t
      BY <1>4, <1>5, <1>6, <1>7, <3>1, <3>2, <3>3
    <3>4. CASE ops[m].table # t
      BY <1>5, <1>6, <1>7, <3>1, <3>2, <3>4
    <3> QED
      BY <3>3, <3>4
  <2>2. /\ tx'[ops'[n].table] # NoTx /\ call'[n] \notin {"mined", "done"}
        /\ tx'[ops'[n].table].immediate => call'[n] # "none"
        /\ n \in Range(tx'[ops'[n].table].puts) \cup Range(tx'[ops'[n].table].removes)
    <3>1. ops'[n].table = t
      BY <1>1, <1>2
    <3>2. tx'[t] = y /\ y # NoTx
      BY <1>5
    <3>3. y.immediate = x.immediate /\ n \in Range(y.puts) \cup Range(y.removes)
      BY <1>4
    <3>4. call'[n] = IF x.immediate THEN "started" ELSE "none"
      BY <1>6
    <3> QED
      BY <3>1, <3>2, <3>3, <3>4
  <2> QED
    BY <1>1, <1>2, <2>1, <2>2 DEF WorkerTruth
<1>9. MainTruth'
  <2>1. ASSUME NEW u \in Table, tx'[u] = NoTx, frame.ok PROVE AllBuffered(u)'
    <3>1. u # t /\ tx[u] = NoTx
      BY <1>5, <2>1
    <3>2. AllBuffered(u)
      BY <1>1, <2>1, <3>1 DEF PInv, MainTruth, Undecided
    <3>3. \A m \in On(u)' : m \in On(u)
      BY <1>1, <1>2, <3>1 DEF On
    <3> QED
      BY <1>7, <3>2, <3>3 DEF AllBuffered, On
  <2> QED
    BY <1>1, <2>1 DEF MainTruth
<1>10. MainPlace'
  <2>1. setting => \A u \in Live' : tx'[u].immediate
    BY <1>1, <1>4, <1>5 DEF PInv, MainPlace, Live
  <2>2. \A m \in DOMAIN ops' : tx'[ops'[m].table] # NoTx
    <3>1. ops'[n].table = t /\ tx'[t] # NoTx
      BY <1>1, <1>2, <1>5
    <3>2. \A m \in DOMAIN ops : tx[ops[m].table] # NoTx /\ ops[m].table \in Table
      BY <1>1, OpFacts DEF PInv, MainPlace
    <3>3. \A m \in DOMAIN ops : tx'[ops[m].table] # NoTx
      BY <1>5, <3>2
    <3> QED
      BY <1>2, <3>1, <3>3
  <2> QED
    BY <1>1, <1>6, <2>1, <2>2 DEF PInv, MainPlace
<1>11. Asked'
  <2>1. \A p \in DOMAIN pool : pool[p].kind # "commit" /\ pool[p].by # Main
    BY <1>1, ActorAssumption DEF PInv, Asked, MainPlace, IInv, Callers, Actor
  <2>2. \A p \in DOMAIN pool : pool[p].by \in Worker => pool[p].by \in DOMAIN ops
    <3>1. ASSUME NEW p \in DOMAIN pool, pool[p].by \in Worker PROVE pool[p].by \in Running
      BY <3>1, ActorAssumption DEF IInv, Callers, Running, Actor
    <3> QED
      BY <3>1, OpFacts
  <2> QED
    BY <1>1, <1>2, <2>1, <2>2 DEF PInv, Asked
<1>12. CleanAfterJoin' /\ CleanIsLast'
  BY <1>1 DEF PInv, CleanAfterJoin, CleanIsLast
<1> QED
  BY <1>8, <1>9, <1>10, <1>11, <1>12 DEF PInv

LEMMA ReportPInv ==
  ASSUME IInv, PInv, NEW n \in Worker, Report(n)
  PROVE  PInv'
<1>1. /\ n \in Running /\ n \in DOMAIN ops /\ ops[n].table \in Table /\ tx[ops[n].table] # NoTx
      /\ call[n] \in {"mined", "failed"} /\ call' = [call EXCEPT ![n] = "done"]
      /\ UNCHANGED <<setting, ops, frame, pool, chain>>
  <2>1. n \in Running
    BY DEF Report, Running
  <2> QED
    BY <2>1, OpFacts DEF Report
<1>2. PICK t \in Table : t = ops[n].table
  BY <1>1
<1>3. PICK x \in TableTx : x = tx[t]
  BY <1>1, <1>2 DEF IInv, TypeOK
<1>4. PICK y \in TableTx :
        /\ tx' = [tx EXCEPT ![t] = y] /\ y.immediate = x.immediate
        /\ y.puts = x.puts /\ y.removes = x.removes
        /\ y.success => x.success /\ call[n] = "mined"
  <2>1. x.success \in BOOLEAN /\ (call[n] = "mined") \in BOOLEAN
    BY TxFields
  <2>2. [x EXCEPT !.success = @ /\ call[n] = "mined"] \in TableTx
    BY <2>1, TxFields
  <2>3. PICK y \in TableTx : y = [x EXCEPT !.success = @ /\ call[n] = "mined"]
    BY <2>2
  <2>4. /\ y.immediate = x.immediate /\ y.puts = x.puts /\ y.removes = x.removes
        /\ y.success = (x.success /\ call[n] = "mined")
    BY <2>3 DEF TableTx
  <2>5. tx' = [tx EXCEPT ![t] = y]
    BY <1>1, <1>2, <1>3, <2>3 DEF Report, IInv, TypeOK
  <2> QED
    BY <2>4, <2>5
<1>5. /\ \A u \in Table : tx'[u] = IF u = t THEN y ELSE tx[u]
      /\ tx[t] = x /\ x # NoTx /\ y # NoTx
  BY <1>3, <1>4, TxFields DEF IInv, TypeOK
<1>6. \A u \in Table : tx[u] # NoTx =>
        /\ tx'[u].immediate = tx[u].immediate
        /\ tx'[u].puts = tx[u].puts
        /\ tx'[u].removes = tx[u].removes
        /\ tx'[u].success => tx[u].success
  BY <1>4, <1>5
<1>16. /\ \A u \in Table : tx[u] # NoTx => tx'[u] # NoTx
       /\ \A u \in Table : tx[u] = NoTx => tx'[u] = NoTx
       /\ Live' = Live
  BY <1>5 DEF Live
<1>7. /\ \A m : Buffered(m)' = Buffered(m)
      /\ \A u : AllBuffered(u)' = AllBuffered(u) /\ On(u)' = On(u)
  BY <1>1, BuffersKeep DEF chain
<1>8. call'[n] = "done" /\ call'[Main] = call[Main] /\ \A a \in Actor : a # n => call'[a] = call[a]
  BY <1>1, ActorAssumption DEF IInv, TypeOK, Actor
<1>9. Running' \subseteq Running /\ \A u : Joined(u) => Joined(u)'
  <2>1. Running' \subseteq Running
    BY <1>1, <1>8 DEF Running, Actor
  <2> QED
    BY <1>7, <2>1 DEF Joined
<1>15. frame.pc \in {"workers", "puts", "removes"} => frame.cur \in Table /\ tx[frame.cur] # NoTx
  BY DEF IInv, TypeOK, Live
<1>10. WorkerTruth'
  <2>1. ASSUME frame.ok, NEW m \in DOMAIN ops, tx'[ops[m].table] # NoTx
        PROVE  /\ call'[m] = "mined" => Buffered(m)
               /\ call'[m] = "done" /\ tx'[ops[m].table].success => Buffered(m)
               /\ tx'[ops[m].table].immediate => call'[m] # "none"
               /\ m \in Range(tx'[ops[m].table].puts) \cup Range(tx'[ops[m].table].removes)
    <3>1. ops[m].table \in Table /\ m \in Actor
      BY OpFacts DEF Actor
    <3>2. /\ tx[ops[m].table] # NoTx
          /\ call[m] = "mined" => Buffered(m)
          /\ call[m] = "done" /\ tx[ops[m].table].success => Buffered(m)
          /\ tx[ops[m].table].immediate => call[m] # "none"
          /\ m \in Range(tx[ops[m].table].puts) \cup Range(tx[ops[m].table].removes)
      BY <1>16, <2>1, <3>1 DEF PInv, WorkerTruth
    <3>5. /\ tx'[ops[m].table].immediate = tx[ops[m].table].immediate
          /\ tx'[ops[m].table].puts = tx[ops[m].table].puts
          /\ tx'[ops[m].table].removes = tx[ops[m].table].removes
          /\ tx'[ops[m].table].success => tx[ops[m].table].success
      BY <1>6, <3>1, <3>2
    <3>3. CASE m = n
      <4>1. tx'[ops[n].table].success => call[n] = "mined"
        BY <1>2, <1>4, <1>5
      <4> QED
        BY <1>8, <3>2, <3>3, <3>5, <4>1
    <3>4. CASE m # n
      BY <1>8, <3>1, <3>2, <3>4, <3>5
    <3> QED
      BY <3>3, <3>4
  <2> QED
    BY <1>1, <1>7, <2>1 DEF WorkerTruth
<1>11. MainTruth'
  <2>1. frame.pc \in {"puts", "removes"} =>
          tx'[frame.cur].puts = tx[frame.cur].puts /\ tx'[frame.cur].removes = tx[frame.cur].removes
    BY <1>6, <1>15
  <2>2. Undecided' = Undecided
    BY <1>1, <1>8 DEF Undecided
  <2> QED
    BY <1>1, <1>16, <1>7, <1>8, <2>1, <2>2 DEF PInv, MainTruth, chain
<1>12. MainPlace'
  <2>1. frame.pc = "workers" => tx'[frame.cur].immediate
    BY <1>6, <1>15 DEF PInv, MainPlace
  <2>2. setting => \A u \in Live : tx'[u].immediate
    <3>1. setting => \A u \in Live : tx[u].immediate
      BY DEF PInv, MainPlace
    <3> QED
      BY <1>6, <1>16, <3>1 DEF Live
  <2>3. frame.pc = "open" => \A m \in DOMAIN ops : tx'[ops[m].table] # NoTx
    BY <1>16, OpFacts DEF PInv, MainPlace
  <2> QED
    BY <1>1, <1>16, <1>8, <2>1, <2>2, <2>3 DEF PInv, MainPlace
<1>13. Asked'
  <2>1. frame.pc \in {"puts", "removes"} =>
          tx'[frame.cur].puts = tx[frame.cur].puts /\ tx'[frame.cur].removes = tx[frame.cur].removes
    BY <1>6, <1>15
  <2> QED
    BY <1>1, <1>16, <1>8, <2>1 DEF PInv, Asked
<1>14. CleanAfterJoin' /\ CleanIsLast'
  <2>1. frame.affected \subseteq Table
    BY DEF IInv, TypeOK, Frame
  <2> QED
    BY <1>1, <1>16, <1>9, <2>1 DEF PInv, CleanAfterJoin, CleanIsLast
<1> QED
  BY <1>10, <1>11, <1>12, <1>13, <1>14 DEF PInv

-----------------------------------------------------------------------------
(***************************************************************************)
(* Calls start, fail and are given up.                                     *)
(***************************************************************************)
LEMMA RequestParts ==
  ASSUME IInv, NEW a \in Actor, Calling(a), NEW request \in Requests(a)
  PROVE  /\ a \in Worker =>
              /\ request.kind = "op" /\ request.tables = {ops[a].table}
              /\ request.ops = <<a>> /\ a \in Running
         /\ a = Main =>
              /\ request.kind # "op"
              /\ frame.pc = "puts" => /\ request.kind = "batch" /\ request.tables = {frame.cur}
                                      /\ request.ops = tx[frame.cur].puts
              /\ frame.pc = "removes" => /\ request.kind = "batch"
                                         /\ request.tables = {frame.cur}
                                         /\ request.ops = tx[frame.cur].removes
              /\ request.kind = "commit" => frame.pc = "commit"
              /\ request.kind = "clean" =>
                   \/ frame.pc = "undo" /\ \E t \in frame.todo : request.tables = {t}
                   \/ frame.pc = "clear" /\ request.tables = {frame.cur}
<1>1. CASE a \in Worker
  <2>1. request = [kind |-> "op", tables |-> {ops[a].table}, ops |-> <<a>>, by |-> a]
    BY <1>1 DEF Requests
  <2> QED
    BY <1>1, <2>1, ActorAssumption DEF Calling, Running
<1>2. CASE a = Main
  <2>1. PICK t \in IF frame.pc = "undo" THEN frame.todo ELSE {frame.cur} :
               request = MainRequest(t)
    BY <1>2, ActorAssumption DEF Requests
  <2>2. a \notin Worker /\ frame.pc \in {"puts", "removes", "undo", "commit", "clear"}
    BY <1>2, ActorAssumption DEF Calling
  <2> QED
    BY <1>2, <2>1, <2>2 DEF MainRequest
<1> QED
  BY <1>1, <1>2 DEF Actor

LEMMA AdvanceParts ==
  ASSUME IInv, PInv, NEW a \in Actor, Calling(a), NEW request \in Requests(a),
         NEW how \in {"sent", "failed"}, Advance(a, request, how),
         UNCHANGED <<setting, tx, ops, chain>>
  PROVE  /\ frame'.pc = frame.pc /\ frame'.cur = frame.cur /\ frame'.ok = frame.ok
         /\ frame'.affected = frame.affected /\ frame'.todo \subseteq frame.todo
         /\ frame.pc # "undo" => frame'.todo = frame.todo
         /\ call'[a] = how /\ \A b \in Actor : b # a => call'[b] = call[b]
         /\ Running' = Running /\ Live' = Live /\ frame.pc # "ended"
         /\ \A p \in DOMAIN pool : pool[p].kind # "commit"
         /\ WorkerTruth' /\ MainTruth' /\ MainPlace'
<1>1. /\ frame \in Frame /\ call' = [call EXCEPT ![a] = how] /\ call \in [Actor -> CallState]
      /\ frame' = IF a = Main /\ frame.pc = "undo"
                  THEN [frame EXCEPT !.todo = @ \ request.tables] ELSE frame
  BY DEF Advance, IInv, TypeOK, CallState
<1>2. /\ frame'.pc = frame.pc /\ frame'.cur = frame.cur /\ frame'.ok = frame.ok
      /\ frame'.affected = frame.affected /\ frame'.todo \subseteq frame.todo
      /\ frame.pc # "undo" => frame'.todo = frame.todo
  BY <1>1 DEF Frame
<1>3. call'[a] = how /\ \A b \in Actor : b # a => call'[b] = call[b]
  BY <1>1
<1>4. Running' = Running
  BY <1>1, <1>3, ActorAssumption DEF Running, Calling, Actor
<1>5. Live' = Live
  BY DEF Live
<1>6. \A p \in DOMAIN pool : pool[p].kind # "commit"
  BY CommitWaits
<1>7. /\ \A n : Buffered(n)' = Buffered(n)
      /\ \A u : AllBuffered(u)' = AllBuffered(u) /\ On(u)' = On(u)
  BY BuffersKeep DEF chain
<1>8. Undecided /\ frame.pc # "ended"
  <2>1. CASE a = Main
    BY <2>1, ActorAssumption DEF Calling, Undecided
  <2>2. CASE a \in Worker
    <3>1. a \in Running
      BY <2>2 DEF Calling, Running
    <3>2. Live # {}
      BY <3>1, OpFacts DEF Live
    <3> QED
      BY <3>2 DEF PInv, MainPlace, Undecided
  <2> QED
    BY <2>1, <2>2 DEF Actor
<1>9. WorkerTruth'
  <2>1. \A n \in DOMAIN ops : n \in Actor /\ (call'[n] = call[n] \/ call'[n] \in {"sent", "failed"})
    BY <1>1, OpFacts DEF Actor
  <2> QED
    BY <1>2, <1>7, <2>1 DEF PInv, WorkerTruth
<1>10. call'[Main] = call[Main] \/ (a = Main /\ call'[Main] \in {"sent", "failed"})
  BY <1>3 DEF Actor
<1>11. MainTruth'
  BY <1>2, <1>7, <1>8, <1>10 DEF PInv, MainTruth, chain
<1>12. MainPlace'
  <2>1. a = Main => frame.pc \in {"puts", "removes", "undo", "commit", "clear"}
    BY ActorAssumption DEF Calling
  <2>2. frame.pc \in {"tables", "workers", "puts", "removes", "drop"} => frame'.todo = frame.todo
    BY <1>2
  <2> QED
    BY <1>2, <1>5, <1>10, <2>1, <2>2 DEF PInv, MainPlace
<1> QED
  BY <1>2, <1>3, <1>4, <1>5, <1>6, <1>8, <1>9, <1>11, <1>12

LEMMA SendPInv ==
  ASSUME IInv, PInv, NEW a \in Actor, Send(a)
  PROVE  PInv'
<1>1. PICK request \in Requests(a) :
        pool' = Append(pool, request) /\ Advance(a, request, "sent")
  BY DEF Send
<1>2. Calling(a) /\ UNCHANGED <<setting, tx, ops, chain>>
  BY DEF Send
<1>3. /\ frame'.pc = frame.pc /\ frame'.cur = frame.cur /\ frame'.ok = frame.ok
      /\ frame'.affected = frame.affected /\ frame'.todo \subseteq frame.todo
      /\ call'[a] = "sent" /\ \A b \in Actor : b # a => call'[b] = call[b]
      /\ Running' = Running /\ Live' = Live /\ frame.pc # "ended"
      /\ \A p \in DOMAIN pool : pool[p].kind # "commit"
      /\ WorkerTruth' /\ MainTruth' /\ MainPlace'
  BY <1>1, <1>2, AdvanceParts
<1>4. request \in Entry /\ request.by = a /\ pool \in Seq(Entry)
  BY <1>2, RequestType DEF IInv, TypeOK
<1>5. /\ Len(pool') = Len(pool) + 1 /\ Len(pool) \in Nat /\ DOMAIN pool = 1..Len(pool)
      /\ DOMAIN pool' = DOMAIN pool \cup {Len(pool')}
      /\ pool'[Len(pool')] = request /\ \A p \in DOMAIN pool : pool'[p] = pool[p]
  BY <1>1, <1>4
<1>6. \A u : Joined(u)' = Joined(u)
  BY <1>2, <1>3 DEF Joined, On
<1>7. a \in Worker => a # Main
  BY ActorAssumption
<1>8. /\ a \in Worker =>
           /\ request.kind = "op" /\ request.tables = {ops[a].table}
           /\ request.ops = <<a>> /\ a \in Running
      /\ a = Main =>
           /\ request.kind # "op"
           /\ frame.pc = "puts" => /\ request.kind = "batch" /\ request.tables = {frame.cur}
                                   /\ request.ops = tx[frame.cur].puts
           /\ frame.pc = "removes" => /\ request.kind = "batch"
                                      /\ request.tables = {frame.cur}
                                      /\ request.ops = tx[frame.cur].removes
           /\ request.kind = "commit" => frame.pc = "commit"
           /\ request.kind = "clean" =>
                \/ frame.pc = "undo" /\ \E t \in frame.todo : request.tables = {t}
                \/ frame.pc = "clear" /\ request.tables = {frame.cur}
  BY <1>2, RequestParts
<1>9. request.kind = "clean" => ~frame.ok
  BY <1>8 DEF IInv, FrameShape, Actor
<1>10. request.kind = "commit" => a = Main /\ frame.pc = "commit" /\ frame.ok /\ Live = {}
  BY <1>8 DEF PInv, MainPlace, Actor
<1>11. Asked'
  <2>1. ASSUME NEW p \in DOMAIN pool
        PROVE  /\ pool[p].by \in Worker =>
                    /\ pool[p].kind = "op" /\ pool[p].ops = <<pool[p].by>>
                    /\ pool[p].tables = {ops[pool[p].by].table}
               /\ pool[p].by = Main /\ frame.pc = "puts" =>
                    /\ pool[p].kind = "batch" /\ pool[p].ops = tx[frame.cur].puts
                    /\ pool[p].tables = {frame.cur}
               /\ pool[p].by = Main /\ frame.pc = "removes" =>
                    /\ pool[p].kind = "batch" /\ pool[p].ops = tx[frame.cur].removes
                    /\ pool[p].tables = {frame.cur}
               /\ pool[p].kind = "clean" => ~frame.ok
               /\ pool[p].kind # "commit"
    BY <1>3 DEF PInv, Asked
  <2>2. ASSUME request.kind = "commit"
        PROVE  frame'.pc = "commit" /\ call'[Main] # "none" /\ Live' = {} /\ frame'.ok
    BY <1>3, <1>10, <2>2
  <2>3. request.by = Main => a = Main
    BY <1>4
  <2>4. request.by \in Worker => a \in Worker
    BY <1>4
  <2> QED
    BY <1>2, <1>3, <1>4, <1>5, <1>7, <1>8, <1>9, <2>1, <2>2, <2>3, <2>4 DEF Asked
<1>12. setting /\ request.kind = "clean" =>
         frame.pc # "open" /\ \A t \in request.tables : Joined(t)
  <2>1. request.kind = "clean" => a = Main
    BY <1>8 DEF Actor
  <2>2. ASSUME setting, frame.pc = "undo", NEW t \in frame.todo PROVE Joined(t)
    <3>1. tx[t] = NoTx \/ t = frame.cur
      BY <2>2 DEF PInv, CleanAfterJoin
    <3> QED
      BY <2>2, <3>1, NoTxJoined DEF PInv, CleanAfterJoin
  <2>3. setting /\ frame.pc = "clear" => Joined(frame.cur)
    BY DEF PInv, CleanAfterJoin
  <2> QED
    BY <1>8, <2>1, <2>2, <2>3
<1>13. CleanAfterJoin'
  BY <1>2, <1>3, <1>5, <1>6, <1>12 DEF PInv, CleanAfterJoin
<1>14. CleanIsLast'
  <2>1. ASSUME setting, NEW i \in DOMAIN pool, pool[i].kind = "clean", request.kind = "op"
        PROVE  pool[i].tables # request.tables
    <3>1. a \in Worker /\ request.tables = {ops[a].table} /\ a \in Running
      BY <1>8, <2>1 DEF Actor
    <3>2. ~Joined(ops[a].table)
      BY <3>1, OpFacts DEF Joined, On
    <3>3. \A t \in pool[i].tables : Joined(t)
      BY <2>1 DEF PInv, CleanAfterJoin
    <3> QED
      BY <3>1, <3>2, <3>3
  <2>2. \A j \in DOMAIN pool : j < Len(pool')
    BY <1>5
  <2> QED
    BY <1>2, <1>5, <2>1, <2>2 DEF PInv, CleanIsLast
<1> QED
  BY <1>3, <1>11, <1>13, <1>14 DEF PInv

LEMMA SendFailsPInv ==
  ASSUME IInv, PInv, NEW a \in Actor, SendFails(a)
  PROVE  PInv'
<1>1. PICK request \in Requests(a) : Advance(a, request, "failed")
  BY DEF SendFails
<1>2. Calling(a) /\ UNCHANGED <<setting, tx, ops, chain>>
  BY DEF SendFails
<1>3. /\ frame'.pc = frame.pc /\ frame'.cur = frame.cur /\ frame'.ok = frame.ok
      /\ frame'.affected = frame.affected /\ frame'.todo \subseteq frame.todo
      /\ Running' = Running /\ Live' = Live
      /\ \A p \in DOMAIN pool : pool[p].kind # "commit"
      /\ WorkerTruth' /\ MainTruth' /\ MainPlace'
  BY <1>1, <1>2, AdvanceParts
<1>4. Hole.by = NoOne /\ Hole.kind = "hole" /\ pool \in Seq(Entry) /\ Hole \in Entry
      /\ (pool' = pool \/ pool' = Append(pool, Hole))
  BY DEF Hole, Entry, SendFails, IInv, TypeOK
<1>5. \A p \in DOMAIN pool' : \/ p \in DOMAIN pool /\ pool'[p] = pool[p]
                              \/ pool'[p].by = NoOne /\ pool'[p].kind = "hole"
  BY <1>4
<1>6. \A u : Joined(u)' = Joined(u)
  BY <1>2, <1>3 DEF Joined, On
<1>7. Asked'
  BY <1>2, <1>3, <1>5, ActorAssumption DEF PInv, Asked, Actor
<1>8. CleanAfterJoin' /\ CleanIsLast'
  BY <1>2, <1>3, <1>5, <1>6 DEF PInv, CleanAfterJoin, CleanIsLast
<1> QED
  BY <1>3, <1>7, <1>8 DEF PInv

LEMMA TimeOutPInv ==
  ASSUME IInv, PInv, NEW a \in Actor, TimeOut(a)
  PROVE  PInv'
<1>1. /\ call' = [call EXCEPT ![a] = "failed"] /\ call \in [Actor -> CallState]
      /\ call[a] \in {"sent", "mined"} /\ UNCHANGED <<setting, tx, ops, frame, chain>>
  BY DEF TimeOut, IInv, TypeOK, CallState
<1>2. /\ DOMAIN pool' = DOMAIN pool /\ Len(pool') = Len(pool)
      /\ \A p \in DOMAIN pool :
           /\ pool'[p].by = IF pool[p].by = a THEN NoOne ELSE pool[p].by
           /\ pool'[p].kind = pool[p].kind /\ pool'[p].tables = pool[p].tables
           /\ pool'[p].ops = pool[p].ops
  <2>1. \A i \in DOMAIN pool : pool[i] \in Entry
    BY PoolEntry DEF IInv
  <2>2. DOMAIN pool' = DOMAIN pool
    BY DEF TimeOut
  <2>3. Len(pool') = Len(pool)
    <3>1. pool \in Seq(Entry) /\ pool' = [i \in 1..Len(pool) |->
             IF pool[i].by = a THEN [pool[i] EXCEPT !.by = NoOne] ELSE pool[i]]
      BY DEF TimeOut, IInv, TypeOK
    <3>2. Len(pool) \in Nat
      BY <3>1
    <3> QED
      BY <3>1, <3>2
  <2> QED
    BY <2>1, <2>2, <2>3 DEF TimeOut, Entry
<1>3. /\ \A n : Buffered(n)' = Buffered(n) /\ Live' = Live
      /\ \A u : AllBuffered(u)' = AllBuffered(u) /\ On(u)' = On(u)
  BY <1>1, BuffersKeep DEF chain, Live
<1>4. \A b \in Actor : call'[b] = IF b = a THEN "failed" ELSE call[b]
  BY <1>1
<1>5. Running' = Running /\ Main \in Actor
  BY <1>1, <1>4 DEF Running, Actor
<1>6. \A u : Joined(u)' = Joined(u)
  BY <1>3, <1>5 DEF Joined
<1>7. Undecided' = Undecided
  BY <1>1, <1>2, <1>4, <1>5 DEF Undecided
<1>8. WorkerTruth'
  <2>1. \A n \in DOMAIN ops : n \in Actor /\ (call'[n] = call[n] \/ call'[n] = "failed")
    BY <1>1, <1>4, OpFacts DEF Actor
  <2> QED
    BY <1>1, <1>3, <2>1 DEF PInv, WorkerTruth
<1>9. call'[Main] = call[Main] \/ (call'[Main] = "failed" /\ call[Main] # "none")
  BY <1>1, <1>4, <1>5
<1>10. MainTruth'
  BY <1>1, <1>3, <1>7, <1>9 DEF PInv, MainTruth, chain
<1>11. MainPlace'
  BY <1>1, <1>3, <1>9 DEF PInv, MainPlace
<1>12. Asked'
  <2>1. \A p \in DOMAIN pool : pool'[p].by \in Actor => pool'[p].by = pool[p].by
    BY <1>2, ActorAssumption
  <2> QED
    BY <1>1, <1>2, <1>3, <1>5, <1>9, <2>1 DEF PInv, Asked, Actor
<1>13. CleanAfterJoin' /\ CleanIsLast'
  BY <1>1, <1>2, <1>6 DEF PInv, CleanAfterJoin, CleanIsLast
<1> QED
  BY <1>8, <1>10, <1>11, <1>12, <1>13 DEF PInv

-----------------------------------------------------------------------------
(***************************************************************************)
(* What bc_commit and bc_rollback do with results.                         *)
(***************************************************************************)
LEMMA ReturnParts ==
  ASSUME IInv, PInv, Answered, call' = [call EXCEPT ![Main] = "none"],
         UNCHANGED <<setting, tx, ops, pool, chain>>, frame'.ok => frame.ok,
         frame.pc = "commit" => frame'.pc = "ended" /\ frame'.ok = frame.ok
  PROVE  /\ call'[Main] = "none" /\ Live' = Live
         /\ frame.pc \in {"puts", "removes", "undo", "commit", "clear"}
         /\ \A u : AllBuffered(u)' = AllBuffered(u) /\ Joined(u)' = Joined(u)
         /\ WorkerTruth' /\ Asked' /\ CleanIsLast'
<1>1. call'[Main] = "none" /\ \A n \in Worker : call'[n] = call[n]
  BY ActorAssumption DEF IInv, TypeOK, Actor
<1>2. Live' = Live /\ Running' = Running
  BY <1>1 DEF Live, Running
<1>3. frame.pc \in {"puts", "removes", "undo", "commit", "clear"}
  BY DEF Answered, PInv, MainPlace
<1>4. /\ \A n : Buffered(n)' = Buffered(n)
      /\ \A u : AllBuffered(u)' = AllBuffered(u) /\ Joined(u)' = Joined(u)
  BY <1>2, BuffersKeep DEF chain, Joined
<1>5. WorkerTruth'
  BY <1>1, <1>4, OpFacts DEF PInv, WorkerTruth
<1>6. \A p \in DOMAIN pool : pool[p].by # Main
  BY ActorAssumption DEF IInv, Callers, Answered, Actor
<1>7. Asked'
  BY <1>2, <1>3, <1>6 DEF PInv, Asked
<1> QED
  BY <1>1, <1>2, <1>3, <1>4, <1>5, <1>7 DEF PInv, CleanIsLast

\* What a batch sends are all operations on its table.
LEMMA CurBuffered ==
  ASSUME IInv, PInv, frame.ok, frame.cur \in Live,
         \A n \in Range(tx[frame.cur].puts) \cup Range(tx[frame.cur].removes) :
           n \in Range(buffer[frame.cur])
  PROVE  AllBuffered(frame.cur)
<1>1. ASSUME NEW n \in On(frame.cur) PROVE Buffered(n)
  <2>1. n \in DOMAIN ops /\ ops[n].table = frame.cur /\ tx[frame.cur] # NoTx
    BY DEF On, Live
  <2>2. n \in Range(tx[frame.cur].puts) \cup Range(tx[frame.cur].removes)
    BY <2>1 DEF PInv, WorkerTruth
  <2> QED
    BY <2>1, <2>2 DEF Buffered
<1> QED
  BY <1>1 DEF AllBuffered

LEMMA BatchReturnedPInv ==
  ASSUME IInv, PInv, PutsReturned \/ RemovesReturned
  PROVE  PInv'
<1>1. /\ frame.pc \in {"puts", "removes"} /\ Answered /\ call' = [call EXCEPT ![Main] = "none"]
      /\ UNCHANGED <<setting, tx, ops, pool, chain>> /\ frame \in Frame /\ frame.cur \in Live
  BY DEF PutsReturned, RemovesReturned, Return, IInv, TypeOK
<1>2. /\ frame'.cur = frame.cur /\ frame'.affected = frame.affected
      /\ \/ /\ frame.pc = "puts" /\ frame'.pc = "removes" /\ frame'.todo = frame.todo
            /\ frame'.ok = (call[Main] = "mined")
         \/ /\ frame'.pc = "drop" /\ frame'.todo = frame.todo /\ frame'.ok = frame.ok
            /\ call[Main] = "mined"
            /\ IF frame.pc = "puts" THEN tx[frame.cur].removes = << >> ELSE frame.ok
         \/ frame'.pc = "undo" /\ frame'.ok = FALSE
  <2>1. CASE PutsReturned /\ tx[frame.cur].removes # << >>
    <3>1. frame.pc = "puts" /\ frame' = [frame EXCEPT !.pc = "removes", !.ok = call[Main] = "mined"]
      BY <2>1 DEF PutsReturned, Return
    <3> QED
      BY <1>1, <3>1 DEF Frame
  <2>2. CASE PutsReturned /\ tx[frame.cur].removes = << >>
    <3>1. frame.pc = "puts" /\ frame' = Judged(call[Main] = "mined")
      BY <2>2 DEF PutsReturned, Return
    <3>2. frame.ok
      BY <3>1 DEF PInv, MainPlace
    <3> QED
      BY <1>1, <2>2, <3>1, <3>2 DEF Judged, Frame
  <2>3. CASE RemovesReturned
    <3>1. frame.pc = "removes" /\ frame' = Judged(frame.ok /\ call[Main] = "mined")
      BY <2>3 DEF RemovesReturned, Return
    <3> QED
      BY <1>1, <3>1 DEF Judged, Frame
  <2> QED
    BY <2>1, <2>2, <2>3
<1>3. /\ ~setting /\ Live \subseteq frame.todo /\ (frame.pc = "puts" => frame.ok)
  BY <1>1 DEF PInv, MainPlace
<1>4. /\ call'[Main] = "none" /\ Live' = Live
      /\ \A u : AllBuffered(u)' = AllBuffered(u) /\ Joined(u)' = Joined(u)
      /\ WorkerTruth' /\ Asked' /\ CleanIsLast'
  <2>1. frame'.ok => frame.ok
    BY <1>2, <1>3
  <2> QED
    BY <1>1, <2>1, ReturnParts
<1>5. MainTruth'
  <2>1. frame.ok => \A u \in Table : tx[u] = NoTx => AllBuffered(u)
    BY <1>1 DEF PInv, MainTruth, Undecided
  <2>2. frame'.pc = "removes" /\ frame'.ok =>
          \A n \in Range(tx[frame.cur].puts) : n \in Range(buffer[frame.cur])
    BY <1>2 DEF PInv, MainTruth
  <2>3. frame'.pc = "drop" /\ frame'.ok => AllBuffered(frame.cur)
    <3>1. ASSUME frame'.pc = "drop", frame'.ok
          PROVE  \A n \in Range(tx[frame.cur].puts) \cup Range(tx[frame.cur].removes) :
                   n \in Range(buffer[frame.cur])
      <4>1. CASE frame.pc = "puts"
        <5>1. Range(tx[frame.cur].removes) = {}
          BY <1>2, <3>1, <4>1 DEF Range
        <5> QED
          BY <1>2, <3>1, <4>1, <5>1 DEF PInv, MainTruth
      <4>2. CASE frame.pc = "removes"
        BY <1>2, <3>1, <4>2 DEF PInv, MainTruth
      <4> QED
        BY <1>1, <4>1, <4>2
    <3> QED
      BY <1>1, <1>2, <1>3, <3>1, CurBuffered
  <2>4. frame'.ok => frame.ok
    BY <1>2, <1>3
  <2> QED
    BY <1>1, <1>2, <1>4, <2>1, <2>2, <2>3, <2>4 DEF MainTruth, chain
<1>6. MainPlace'
  BY <1>1, <1>2, <1>3, <1>4 DEF MainPlace
<1>7. CleanAfterJoin'
  BY <1>1, <1>3 DEF CleanAfterJoin
<1> QED
  BY <1>4, <1>5, <1>6, <1>7 DEF PInv

LEMMA CleanReturnedPInv ==
  ASSUME IInv, PInv, CleanReturned
  PROVE  PInv'
<1>1. /\ frame.pc \in {"undo", "clear"} /\ Answered /\ call' = [call EXCEPT ![Main] = "none"]
      /\ UNCHANGED <<setting, tx, ops, pool, chain>> /\ frame \in Frame /\ ~frame.ok
      /\ ~frame'.ok /\ ((frame' = frame /\ frame.pc = "undo") \/ frame'.pc = "drop")
  BY DEF CleanReturned, Return, IInv, TypeOK, FrameShape, Frame
<1>2. /\ call'[Main] = "none" /\ Live' = Live
      /\ \A u : AllBuffered(u)' = AllBuffered(u) /\ Joined(u)' = Joined(u)
      /\ WorkerTruth' /\ Asked' /\ CleanIsLast'
  BY <1>1, ReturnParts
<1>3. MainTruth' /\ MainPlace'
  BY <1>1, <1>2 DEF PInv, MainTruth, MainPlace
<1>4. CleanAfterJoin'
  BY <1>1, <1>2 DEF PInv, CleanAfterJoin
<1> QED
  BY <1>2, <1>3, <1>4 DEF PInv

LEMMA CommitReturnedPInv ==
  ASSUME IInv, PInv, CommitReturned
  PROVE  PInv'
<1>1. /\ frame.pc = "commit" /\ Answered /\ call' = [call EXCEPT ![Main] = "none"]
      /\ UNCHANGED <<setting, tx, ops, pool, chain>> /\ frame \in Frame
      /\ frame'.ok = frame.ok /\ frame'.pc = "ended" /\ Live = {} /\ call[Main] # "none"
  BY DEF CommitReturned, Return, IInv, TypeOK, Frame, PInv, MainPlace, Answered
<1>2. /\ call'[Main] = "none" /\ Live' = Live
      /\ \A u : AllBuffered(u)' = AllBuffered(u) /\ Joined(u)' = Joined(u)
      /\ WorkerTruth' /\ Asked' /\ CleanIsLast'
  BY <1>1, ReturnParts
<1>3. MainTruth'
  <2>1. Undecided' => Undecided
    BY <1>1 DEF Undecided
  <2> QED
    BY <1>1, <1>2, <2>1 DEF PInv, MainTruth
<1>4. MainPlace' /\ CleanAfterJoin'
  BY <1>1, <1>2 DEF PInv, MainPlace, CleanAfterJoin
<1> QED
  BY <1>2, <1>3, <1>4 DEF PInv

-----------------------------------------------------------------------------
(***************************************************************************)
(* A block.                                                                *)
(***************************************************************************)
LEMMA MineParts ==
  ASSUME IInv, Mine
  PROVE  /\ 1 \in DOMAIN pool /\ pool[1] \in Entry /\ pool[1].kind # "hole"
         /\ Len(pool') = Len(pool) - 1 /\ Len(pool) \in Nat
         /\ \A p \in DOMAIN pool' : /\ p + 1 \in DOMAIN pool /\ p \in Nat \ {0}
                                    /\ pool'[p] = pool[p + 1]
         /\ UNCHANGED <<setting, tx, ops, frame, answer>>
         /\ \A b \in Actor : IF b = pool[1].by THEN call'[b] = "mined" /\ call[b] = "sent"
                                               ELSE call'[b] = call[b]
         /\ Running' = Running /\ Live' = Live
         /\ \A t \in Table : /\ buffer[t] \in Seq(Worker) /\ pool[1].ops \in Seq(Worker)
                             /\ buffer'[t] = IF t \notin pool[1].tables THEN buffer[t]
                                             ELSE IF pool[1].kind \in {"op", "batch"}
                                             THEN buffer[t] \o pool[1].ops ELSE << >>
<1>1. pool \in Seq(Entry) /\ pool # << >> /\ pool' = Tail(pool) /\ pool[1] = Head(pool)
  BY DEF Mine, IInv, TypeOK
<1>2. /\ 1 \in DOMAIN pool /\ pool[1] \in Entry /\ pool[1].kind # "hole"
      /\ Len(pool') = Len(pool) - 1 /\ Len(pool) \in Nat
      /\ \A p \in DOMAIN pool' : /\ p + 1 \in DOMAIN pool /\ p \in Nat \ {0}
                                 /\ pool'[p] = pool[p + 1]
  BY <1>1 DEF Mine
<1>3. UNCHANGED <<setting, tx, ops, frame, answer>> /\ Live' = Live
  BY DEF Mine, Live
<1>4. /\ call \in [Actor -> CallState]
      /\ call' = IF pool[1].by = NoOne THEN call ELSE [call EXCEPT ![pool[1].by] = "mined"]
  BY <1>1 DEF Mine, IInv, TypeOK, CallState
<1>5. pool[1].by \in Actor \cup {NoOne} /\ pool[1].ops \in Seq(Worker)
  BY <1>2 DEF Entry
<1>6. pool[1].by # NoOne => call[pool[1].by] = "sent"
  BY <1>2 DEF IInv, Callers
<1>7. \A b \in Actor : IF b = pool[1].by THEN call'[b] = "mined" /\ call[b] = "sent"
                                         ELSE call'[b] = call[b]
  BY <1>4, <1>5, <1>6, ActorAssumption
<1>8. Running' = Running
  BY <1>7 DEF Running, Actor
<1>9. \A t \in Table : /\ buffer[t] \in Seq(Worker)
                       /\ buffer'[t] = IF t \notin pool[1].tables THEN buffer[t]
                                       ELSE IF pool[1].kind \in {"op", "batch"}
                                       THEN buffer[t] \o pool[1].ops ELSE << >>
  BY <1>1 DEF Mine, IInv, TypeOK
<1> QED
  BY <1>2, <1>3, <1>5, <1>7, <1>8, <1>9

LEMMA MinePInv ==
  ASSUME IInv, PInv, Mine
  PROVE  PInv'
<1>1. /\ 1 \in DOMAIN pool /\ pool[1] \in Entry /\ pool[1].kind # "hole"
      /\ Len(pool') = Len(pool) - 1 /\ Len(pool) \in Nat
      /\ \A p \in DOMAIN pool' : /\ p + 1 \in DOMAIN pool /\ p \in Nat \ {0}
                                 /\ pool'[p] = pool[p + 1]
  BY MineParts
<1>2. UNCHANGED <<setting, tx, ops, frame>> /\ Running' = Running /\ Live' = Live
  BY MineParts
<1>3. \A b \in Actor : IF b = pool[1].by THEN call'[b] = "mined" /\ call[b] = "sent"
                                         ELSE call'[b] = call[b]
  BY MineParts
<1>4. \A u : Joined(u)' = Joined(u)
  BY <1>2 DEF Joined, On
<1>5. pool[1].kind \in {"op", "batch", "clean", "commit"}
  BY <1>1 DEF Entry
<1>6. pool[1].kind = "clean" => ~frame.ok
  BY <1>1 DEF PInv, Asked
<1>7. pool[1].kind = "commit" => /\ Live = {} /\ Len(pool) = 1 /\ frame.pc \in {"commit", "ended"}
                                 /\ frame.pc = "commit" => call[Main] # "none"
  BY <1>1 DEF PInv, Asked
\* What is in a buffer stays, unless it is cleaned or committed.
<1>8. ASSUME pool[1].kind \in {"op", "batch"}, NEW t \in Table
      PROVE  /\ Range(buffer[t]) \subseteq Range(buffer'[t])
             /\ t \in pool[1].tables => Range(pool[1].ops) \subseteq Range(buffer'[t])
  <2>1. /\ buffer[t] \in Seq(Worker) /\ pool[1].ops \in Seq(Worker)
        /\ buffer'[t] = IF t \notin pool[1].tables THEN buffer[t]
                        ELSE IF pool[1].kind \in {"op", "batch"}
                             THEN buffer[t] \o pool[1].ops ELSE << >>
    BY MineParts
  <2>2. buffer'[t] = IF t \notin pool[1].tables THEN buffer[t] ELSE buffer[t] \o pool[1].ops
    BY <1>8, <2>1
  <2>3. Range(buffer[t] \o pool[1].ops) = Range(buffer[t]) \cup Range(pool[1].ops)
    BY <2>1, RangeGrows
  <2> QED
    BY <2>2, <2>3
<1>9. ASSUME pool[1].kind \in {"op", "batch"}
      PROVE  /\ \A n \in DOMAIN ops : Buffered(n) => Buffered(n)'
             /\ \A t : AllBuffered(t) => AllBuffered(t)'
  <2>1. \A n \in DOMAIN ops : Buffered(n) => Buffered(n)'
    BY <1>2, <1>8, <1>9, OpFacts DEF Buffered
  <2> QED
    BY <1>2, <2>1 DEF AllBuffered, On
<1>10. ASSUME NEW n \in Worker, n = pool[1].by PROVE Buffered(n)'
  <2>1. /\ pool[1].kind = "op" /\ pool[1].ops = <<n>> /\ pool[1].tables = {ops[n].table}
    BY <1>1, <1>10 DEF PInv, Asked
  <2>2. n \in Running
    BY <1>1, <1>10, ActorAssumption DEF IInv, Callers, Running, Actor
  <2>3. ops[n].table \in Table
    BY <2>2, OpFacts
  <2>4. n \in Range(pool[1].ops)
    BY <2>1 DEF Range
  <2> QED
    BY <1>2, <1>8, <2>1, <2>3, <2>4 DEF Buffered
<1>11. WorkerTruth'
  <2>1. ASSUME frame.ok, NEW n \in DOMAIN ops, tx[ops[n].table] # NoTx
        PROVE  /\ call'[n] = "mined" => Buffered(n)'
               /\ call'[n] = "done" /\ tx[ops[n].table].success => Buffered(n)'
               /\ tx[ops[n].table].immediate => call'[n] # "none"
               /\ n \in Range(tx[ops[n].table].puts) \cup Range(tx[ops[n].table].removes)
    <3>1. pool[1].kind \in {"op", "batch"}
      BY <1>5, <1>6, <1>7, <2>1, OpFacts DEF Live
    <3>2. n \in Worker /\ n \in Actor
      BY OpFacts DEF Actor
    <3>3. /\ call[n] = "mined" => Buffered(n)
          /\ call[n] = "done" /\ tx[ops[n].table].success => Buffered(n)
          /\ tx[ops[n].table].immediate => call[n] # "none"
          /\ n \in Range(tx[ops[n].table].puts) \cup Range(tx[ops[n].table].removes)
      BY <2>1 DEF PInv, WorkerTruth
    <3>4. Buffered(n) => Buffered(n)'
      BY <1>9, <3>1
    <3>5. CASE n = pool[1].by
      BY <1>3, <1>10, <3>2, <3>3, <3>5
    <3>6. CASE n # pool[1].by
      BY <1>3, <3>2, <3>3, <3>4, <3>6
    <3> QED
      BY <3>5, <3>6
  <2> QED
    BY <1>2, <2>1 DEF WorkerTruth
<1>12. Main \in Actor
  BY DEF Actor
<1>13. MainTruth'
  <2>1. ASSUME frame.ok, Undecided', NEW t \in Table, tx[t] = NoTx PROVE AllBuffered(t)'
    <3>1. pool[1].kind # "commit"
      BY <1>1, <1>2, <1>3, <1>7, <1>12, <2>1 DEF Undecided
    <3>2. Undecided
      BY <1>1, <1>2, <1>3, <1>12, <2>1 DEF Undecided
    <3>3. AllBuffered(t)
      BY <2>1, <3>2 DEF PInv, MainTruth
    <3> QED
      BY <1>5, <1>6, <1>9, <2>1, <3>1, <3>3
  <2>2. ASSUME frame.pc \in {"puts", "removes", "drop"}, frame.ok
        PROVE  pool[1].kind \in {"op", "batch"} /\ frame.cur \in Table
               /\ Range(buffer[frame.cur]) \subseteq Range(buffer'[frame.cur])
    <3>1. pool[1].kind \in {"op", "batch"}
      BY <1>5, <1>6, <1>7, <2>2
    <3>2. frame.cur \in Table
      BY <2>2 DEF IInv, TypeOK, Live
    <3> QED
      BY <1>8, <3>1, <3>2
  <2>3. ASSUME frame.pc = "puts", call'[Main] = "mined"
        PROVE  \A n \in Range(tx[frame.cur].puts) : n \in Range(buffer'[frame.cur])
    <3>1. frame.ok
      BY <2>3 DEF PInv, MainPlace
    <3>2. CASE pool[1].by = Main
      <4>1. pool[1].ops = tx[frame.cur].puts /\ pool[1].tables = {frame.cur}
        BY <1>1, <2>3, <3>2 DEF PInv, Asked
      <4> QED
        BY <1>8, <2>2, <2>3, <3>1, <4>1
    <3>3. CASE pool[1].by # Main
      <4>1. call[Main] = "mined"
        BY <1>3, <1>12, <2>3, <3>3
      <4>2. \A n \in Range(tx[frame.cur].puts) : n \in Range(buffer[frame.cur])
        BY <2>3, <4>1 DEF PInv, MainTruth
      <4> QED
        BY <2>2, <2>3, <3>1, <4>2
    <3> QED
      BY <3>2, <3>3
  <2>4. ASSUME frame.pc = "removes", frame.ok
        PROVE  /\ \A n \in Range(tx[frame.cur].puts) : n \in Range(buffer'[frame.cur])
               /\ call'[Main] = "mined" =>
                    \A n \in Range(tx[frame.cur].removes) : n \in Range(buffer'[frame.cur])
    <3>1. /\ \A n \in Range(tx[frame.cur].puts) : n \in Range(buffer[frame.cur])
          /\ call[Main] = "mined" =>
               \A n \in Range(tx[frame.cur].removes) : n \in Range(buffer[frame.cur])
      BY <2>4 DEF PInv, MainTruth
    <3>2. CASE pool[1].by = Main
      <4>1. pool[1].ops = tx[frame.cur].removes /\ pool[1].tables = {frame.cur}
        BY <1>1, <2>4, <3>2 DEF PInv, Asked
      <4> QED
        BY <1>8, <2>2, <2>4, <3>1, <4>1
    <3>3. CASE pool[1].by # Main
      <4>1. call'[Main] = call[Main]
        BY <1>3, <1>12, <3>3
      <4> QED
        BY <2>2, <2>4, <3>1, <4>1
    <3> QED
      BY <3>2, <3>3
  <2>5. ASSUME frame.pc = "drop", frame.ok PROVE AllBuffered(frame.cur)'
    <3>1. pool[1].kind \in {"op", "batch"} /\ AllBuffered(frame.cur)
      BY <2>2, <2>5 DEF PInv, MainTruth
    <3>2. \A t : AllBuffered(t) => AllBuffered(t)'
      BY <1>9, <3>1
    <3>3. PICK u : u = frame.cur
      OBVIOUS
    <3>4. AllBuffered(u)'
      BY <3>1, <3>2, <3>3
    <3> QED
      BY <1>2, <3>3, <3>4
  <2> QED
    BY <1>2, <2>1, <2>3, <2>4, <2>5 DEF MainTruth
<1>14. MainPlace'
  BY <1>2, <1>3, <1>12 DEF PInv, MainPlace
<1>15. Asked'
  BY <1>1, <1>2, <1>3, <1>12 DEF PInv, Asked
<1>16. CleanAfterJoin'
  BY <1>1, <1>2, <1>4 DEF PInv, CleanAfterJoin
<1>17. CleanIsLast'
  <2>1. ASSUME setting, NEW i \in DOMAIN pool', NEW j \in DOMAIN pool',
               pool'[i].kind = "clean", pool'[j].kind = "op", pool'[i].tables = pool'[j].tables
        PROVE  j < i
    <3>1. j + 1 < i + 1
      BY <1>1, <2>1 DEF PInv, CleanIsLast
    <3> QED
      BY <1>1, <3>1
  <2> QED
    BY <1>2, <2>1 DEF CleanIsLast
<1> QED
  BY <1>11, <1>13, <1>14, <1>15, <1>16, <1>17 DEF PInv

-----------------------------------------------------------------------------
(***************************************************************************)
(* The theorems.                                                           *)
(***************************************************************************)
LEMMA InitPInv == Init => PInv
<1> SUFFICES ASSUME Init PROVE PInv
  OBVIOUS
<1>1. DOMAIN ops = {} /\ DOMAIN pool = {} /\ Live = {} /\ frame.pc = "open" /\ frame.ok
      /\ frame.cur = NoTable /\ frame.affected = {} /\ call[Main] = "none"
  BY DEF Init, Live, Actor
<1>2. \A t : AllBuffered(t)
  BY <1>1 DEF AllBuffered, On
<1>3. MainTruth /\ MainPlace
  BY <1>1, <1>2 DEF MainTruth, MainPlace
<1> QED
  BY <1>1, <1>3 DEF PInv, WorkerTruth, Asked, CleanAfterJoin, CleanIsLast

LEMMA NextPInv ==
  ASSUME TRUE \notin Switches, IInv, PInv, [Next]_vars
  PROVE  PInv'
<1>1. CASE UNCHANGED vars
  <2>1. /\ UNCHANGED <<setting, tx, ops, frame, call, pool, chain>> /\ Live' = Live
        /\ Undecided' = Undecided
    BY <1>1 DEF vars, Live, Undecided
  <2>2. /\ \A n : Buffered(n)' = Buffered(n)
        /\ \A u : AllBuffered(u)' = AllBuffered(u) /\ Joined(u)' = Joined(u)
    BY <2>1, BuffersKeep DEF chain, Joined, Running
  <2>3. WorkerTruth' /\ MainTruth'
    BY <2>1, <2>2 DEF PInv, WorkerTruth, MainTruth, chain
  <2>4. MainPlace' /\ Asked' /\ CleanAfterJoin' /\ CleanIsLast'
    BY <2>1, <2>2 DEF PInv, MainPlace, Asked, CleanAfterJoin, CleanIsLast
  <2> QED
    BY <2>3, <2>4 DEF PInv
<1>2. CASE Switch
  BY <1>2, SwitchPInv
<1>3. CASE Client
  BY <1>3, StartTransactionPInv, AddPInv, BcCommitPInv, RollbacksPInv DEF Client
<1>4. CASE MainStep
  <2>1. Main \in Actor
    BY DEF Actor
  <2> QED
    BY <1>4, <2>1, NextTablePInv, RollbacksPInv, WorkersReturnedPInv, AllPreparedPInv, EndsPInv,
       DestructorPInv, SendPInv, SendFailsPInv, TimeOutPInv, BatchReturnedPInv,
       CleanReturnedPInv, CommitReturnedPInv
       DEF MainStep
<1>5. ASSUME NEW n \in Worker, WorkerStep(n) PROVE PInv'
  <2>1. n \in Actor
    BY DEF Actor
  <2> QED
    BY <1>5, <2>1, SendPInv, SendFailsPInv, TimeOutPInv, ReportPInv DEF WorkerStep
<1>6. CASE Mine
  BY <1>6, MinePInv
<1> QED
  BY <1>1, <1>2, <1>3, <1>4, <1>5, <1>6 DEF Next

\* What workers report and bc_commit confirms is in the buffers, in every state
\* of a transaction within which the setting is not switched on.
THEOREM PreparedInvariant ==
  ASSUME TRUE \notin Switches
  PROVE  Spec => []PInv
<1>1. IInv /\ PInv /\ [Next]_vars => PInv'
  BY NextPInv
<1> QED
  BY <1>1, InitPInv, InductiveInvariant, PTL DEF Spec

\* When bc_commit has joined the workers, or sent the batches, and sends the
\* commit, the buffers have every operation of the transaction, and no call of
\* it is left that could change them: for any number of tables and workers, and
\* also when the setting was switched off in between.
THEOREM CommitPrepared ==
  ASSUME TRUE \notin Switches
  PROVE  Spec => []CommitIsPrepared
<1>1. ASSUME IInv, PInv PROVE CommitIsPrepared
  <2>1. ASSUME NEW i \in DOMAIN pool, pool[i].kind = "commit"
        PROVE  /\ i = Len(pool)
               /\ \A t \in Table : On(t) \subseteq Range(buffer[t])
               /\ \A j \in 1..(i - 1) : pool[j].kind # "clean"
    <3>1. i = Len(pool) /\ Live = {} /\ frame.ok
      BY <1>1, <2>1 DEF PInv, Asked
    <3>2. \A t \in Table : AllBuffered(t)
      BY <1>1, <2>1, <3>1 DEF PInv, MainTruth, Undecided, Live
    <3>3. \A t \in Table : On(t) \subseteq Range(buffer[t])
      BY <3>2 DEF AllBuffered, Buffered, On
    <3>4. \A j \in 1..(i - 1) : j \in DOMAIN pool
      BY <1>1, <2>1 DEF IInv, TypeOK
    <3> QED
      BY <1>1, <3>1, <3>3, <3>4 DEF PInv, Asked
  <2> QED
    BY <2>1 DEF CommitIsPrepared
<1>2. IInv /\ PInv => CommitIsPrepared
  BY <1>1
<1> QED
  BY <1>2, InductiveInvariant, PreparedInvariant, PTL

\* bc_rollback and the undo loop of bc_commit clean a buffer after the workers of
\* its table ended: no operation is behind the clean and left on the chain.
THEOREM CleanLast ==
  ASSUME TRUE \notin Switches
  PROVE  Spec => []CleanIsLast
<1>1. PInv => CleanIsLast
  BY DEF PInv
<1> QED
  BY <1>1, PreparedInvariant, PTL
-----------------------------------------------------------------------------
(***************************************************************************)
(* What a commit that is mined has applied.                                *)
(***************************************************************************)

\* Every list of operations is about the table that it is kept for.
OnTables ==
  /\ \A t \in Table : Range(buffer[t]) \subseteq On(t) /\ Range(store[t]) \subseteq On(t)
  /\ \A t \in Live : Range(tx[t].puts) \subseteq On(t) /\ Range(tx[t].removes) \subseteq On(t)
  /\ \A p \in DOMAIN pool : pool[p].kind \in {"op", "batch"} =>
       \A t \in pool[p].tables : Range(pool[p].ops) \subseteq On(t)

\* No table with operations is left out of the commit.
AffectedAll ==
  frame.ok =>
    /\ \A t \in Table : tx[t] = NoTx => On(t) = {} \/ t \in frame.affected
    /\ frame.pc \in {"workers", "puts", "removes", "drop"} =>
         On(frame.cur) = {} \/ frame.cur \in frame.affected

AskedCommit ==
  \A p \in DOMAIN pool :
    /\ pool[p].kind = "commit" => pool[p].tables = frame.affected
    /\ pool[p].by = Main /\ frame.pc = "commit" => pool[p].kind = "commit"

\* What bc_commit was answered and passes on, and what a commit without a caller
\* has done.
AppliedAll ==
  /\ answer = "ok" \/ (frame.pc = "commit" /\ call[Main] = "mined") \/ Published =>
       \A t \in Table : On(t) \subseteq Range(store[t])
  /\ answer # "none" \/ Published => frame.pc \in {"commit", "ended"}
  /\ answer # "none" => frame.pc = "ended"

SInv == OnTables /\ AffectedAll /\ AskedCommit /\ AppliedAll

\* Steps of the connection's thread that do not send.
LEMMA MovesSInv ==
  ASSUME IInv, PInv, SInv, frame.pc \notin {"commit", "ended"}, call[Main] # "sent",
         call'[Main] = "none", UNCHANGED <<ops, pool, chain>>
  PROVE  /\ UNCHANGED tx => OnTables'
         /\ AskedCommit'
         /\ UNCHANGED answer => AppliedAll'
         /\ \A t : On(t)' = On(t)
<1>1. \A t : On(t)' = On(t)
  BY DEF On
<1>2. \A p \in DOMAIN pool : pool[p].by # Main /\ pool[p].kind # "commit"
  BY ActorAssumption DEF IInv, Callers, PInv, Asked, Actor
<1>3. ASSUME UNCHANGED tx PROVE OnTables'
  <2>1. Live' = Live
    BY <1>3 DEF Live
  <2> QED
    BY <1>1, <1>3, <2>1 DEF SInv, OnTables, chain
<1>4. AskedCommit'
  BY <1>2 DEF AskedCommit
<1>5. UNCHANGED answer => AppliedAll'
  BY DEF SInv, AppliedAll, Published, chain
<1> QED
  BY <1>1, <1>3, <1>4, <1>5

LEMMA GoSInv ==
  ASSUME IInv, PInv, SInv,
         BcCommit \/ (\E t \in Table : NextTable(t) \/ RollbackTable(t)) \/ WorkersReturned
         \/ AllPrepared \/ Rollback \/ WorkersQuit
  PROVE  SInv'
<1>1. /\ UNCHANGED <<setting, tx, ops, call, pool, chain, answer>> /\ frame \in Frame
      /\ frame.pc \in {"open", "tables", "workers", "rollback", "quit"}
  BY DEF BcCommit, NextTable, RollbackTable, WorkersReturned, AllPrepared, Rollback, WorkersQuit,
         Go, IInv, TypeOK
<1>2. call[Main] = "none"
  BY <1>1 DEF PInv, MainPlace
<1>3. OnTables' /\ AskedCommit' /\ AppliedAll' /\ \A t : On(t)' = On(t)
  BY <1>1, <1>2, MovesSInv
<1>4. ASSUME frame'.ok
      PROVE  /\ frame.ok /\ frame.affected \subseteq frame'.affected
             /\ frame'.pc \in {"workers", "puts", "removes", "drop"} =>
                  On(frame'.cur) = {} \/ frame'.cur \in frame'.affected
  <2>1. CASE WorkersReturned
    <3>1. /\ frame'.cur = frame.cur /\ frame'.affected = frame.affected /\ frame.pc = "workers"
          /\ frame.ok
      BY <1>1, <1>4, <2>1 DEF WorkersReturned, Go, Judged, Frame
    <3> QED
      BY <1>4, <3>1 DEF SInv, AffectedAll
  <2>2. CASE \E t \in Table : NextTable(t)
    <3>1. PICK t \in Table : NextTable(t)
      BY <2>2
    <3>2. /\ frame'.cur = t /\ t \in frame.todo /\ (IsReadOnly(t) \/ t \in frame'.affected)
          /\ frame.affected \subseteq frame'.affected /\ frame.ok
      BY <1>1, <1>4, <3>1 DEF NextTable, Go, Frame
    <3>3. tx[t] # NoTx
      BY <3>1 DEF NextTable, IInv, TypeOK, Live
    <3>4. IsReadOnly(t) => On(t) = {}
      BY <3>2, <3>3 DEF PInv, WorkerTruth, IsReadOnly, On, Range
    <3> QED
      BY <3>2, <3>4
  <2>3. CASE BcCommit \/ AllPrepared
    BY <1>1, <1>4, <2>3 DEF BcCommit, AllPrepared, Go, Frame
  <2>4. CASE (\E t \in Table : RollbackTable(t)) \/ Rollback \/ WorkersQuit
    BY <1>1, <1>4, <2>4 DEF RollbackTable, Rollback, WorkersQuit, Go, Frame, IInv, FrameShape
  <2> QED
    BY <2>1, <2>2, <2>3, <2>4
<1>6. AffectedAll'
  <2>1. On(frame.cur)' = On(frame'.cur)
    BY <1>1 DEF On
  <2> QED
    BY <1>1, <1>3, <1>4, <2>1 DEF SInv, AffectedAll
<1> QED
  BY <1>3, <1>6 DEF SInv

LEMMA EndsSInv ==
  ASSUME IInv, PInv, SInv, NothingToCommit \/ RolledBack
  PROVE  SInv'
<1>1. /\ UNCHANGED <<setting, tx, ops, call, pool, chain>> /\ frame \in Frame
      /\ frame.pc \in {"tables", "rollback"} /\ frame' = [frame EXCEPT !.pc = "ended"]
  BY DEF NothingToCommit, RolledBack, End, IInv, TypeOK
<1>2. call[Main] = "none"
  BY <1>1 DEF PInv, MainPlace
<1>3. OnTables' /\ AskedCommit' /\ \A t : On(t)' = On(t)
  BY <1>1, <1>2, MovesSInv
<1>4. frame'.ok = frame.ok /\ frame'.affected = frame.affected /\ frame'.pc = "ended"
  BY <1>1 DEF Frame
<1>5. AffectedAll'
  BY <1>1, <1>3, <1>4 DEF SInv, AffectedAll
<1>6. ASSUME answer' = "ok", NEW t \in Table PROVE On(t) = {}
  <2>1. NothingToCommit
    BY <1>6 DEF NothingToCommit, RolledBack, End
  <2>2. frame.ok /\ Live = {} /\ frame.affected = {}
    BY <2>1 DEF NothingToCommit, PInv, MainPlace
  <2> QED
    BY <2>2 DEF SInv, AffectedAll, Live
<1>7. AppliedAll'
  <2>1. \A t \in Table : answer' = "ok" => On(t)' \subseteq Range(store'[t])
    BY <1>3, <1>6
  <2>2. ~Published'
    BY <1>1 DEF SInv, AppliedAll, Published, chain
  <2> QED
    BY <1>4, <2>1, <2>2 DEF AppliedAll
<1> QED
  BY <1>3, <1>5, <1>7 DEF SInv

LEMMA DestructorSInv ==
  ASSUME IInv, PInv, SInv, DestructorReturned
  PROVE  SInv'
<1>1. /\ frame.pc = "drop" /\ frame \in Frame /\ frame.cur \in Live
      /\ tx' = [tx EXCEPT ![frame.cur] = NoTx]
      /\ UNCHANGED <<setting, ops, call, pool, chain, answer>>
      /\ tx \in [Table -> TableTx \cup {NoTx}]
  BY DEF DestructorReturned, IInv, TypeOK
<1>2. /\ frame'.affected = frame.affected /\ frame'.ok = frame.ok
      /\ frame'.pc \in {"tables", "rollback"}
  BY <1>1 DEF DestructorReturned, Frame
<1>3. call[Main] = "none"
  BY <1>1 DEF PInv, MainPlace
<1>4. AskedCommit' /\ AppliedAll' /\ \A t : On(t)' = On(t)
  BY <1>1, <1>3, MovesSInv
<1>5. \A u \in Table : tx'[u] = IF u = frame.cur THEN NoTx ELSE tx[u]
  BY <1>1
<1>6. OnTables'
  <2>1. \A u \in Live' : u \in Live /\ tx'[u] = tx[u]
    BY <1>5 DEF Live
  <2> QED
    BY <1>1, <1>4, <2>1 DEF SInv, OnTables, chain
<1>7. AffectedAll'
  BY <1>1, <1>2, <1>4, <1>5 DEF SInv, AffectedAll
<1> QED
  BY <1>4, <1>6, <1>7 DEF SInv

LEMMA ReturnsSInv ==
  ASSUME IInv, PInv, SInv, PutsReturned \/ RemovesReturned \/ CleanReturned
  PROVE  SInv'
<1>1. /\ UNCHANGED <<setting, tx, ops, pool, chain, answer>> /\ frame \in Frame
      /\ frame.pc \in {"puts", "removes", "undo", "clear"} /\ Answered
      /\ call' = [call EXCEPT ![Main] = "none"] /\ call \in [Actor -> CallState]
  BY DEF PutsReturned, RemovesReturned, CleanReturned, Return, IInv, TypeOK, CallState
<1>2. call[Main] # "sent" /\ call'[Main] = "none"
  BY <1>1 DEF Answered, Actor
<1>3. OnTables' /\ AskedCommit' /\ AppliedAll' /\ \A t : On(t)' = On(t)
  BY <1>1, <1>2, MovesSInv
<1>4. ASSUME frame'.ok
      PROVE  frame'.cur = frame.cur /\ frame'.affected = frame.affected
             /\ frame.ok /\ frame.pc \in {"puts", "removes"}
  <2>1. frame.pc = "puts" => frame.ok
    BY DEF PInv, MainPlace
  <2> QED
    BY <1>1, <1>4, <2>1 DEF PutsReturned, RemovesReturned, CleanReturned, Return, Judged, Frame,
         IInv, FrameShape
<1>5. AffectedAll'
  <2>1. On(frame.cur)' = On(frame'.cur)
    BY <1>1 DEF On
  <2> QED
    BY <1>1, <1>3, <1>4, <2>1 DEF SInv, AffectedAll
<1> QED
  BY <1>3, <1>5 DEF SInv

LEMMA CommitReturnedSInv ==
  ASSUME IInv, PInv, SInv, CommitReturned
  PROVE  SInv'
<1>1. /\ UNCHANGED <<setting, tx, ops, pool, chain>> /\ frame \in Frame
      /\ frame.pc = "commit" /\ frame' = [frame EXCEPT !.pc = "ended"]
      /\ answer' = "ok" => call[Main] = "mined"
  BY DEF CommitReturned, Return, IInv, TypeOK
<1>2. frame'.ok = frame.ok /\ frame'.affected = frame.affected /\ frame'.pc = "ended"
  BY <1>1 DEF Frame
<1>3. Live' = Live /\ \A t : On(t)' = On(t)
  BY <1>1 DEF On, Live
<1>4. OnTables' /\ AskedCommit'
  BY <1>1, <1>2, <1>3 DEF SInv, OnTables, AskedCommit, chain
<1>5. AffectedAll' /\ AppliedAll'
  BY <1>1, <1>2, <1>3 DEF SInv, AffectedAll, AppliedAll, Published, chain
<1> QED
  BY <1>4, <1>5 DEF SInv

LEMMA SwitchSInv ==
  ASSUME SInv, Switch
  PROVE  SInv'
<1>1. UNCHANGED <<tx, ops, frame, call, pool, chain, answer>>
  BY DEF Switch
<1>2. Live' = Live /\ \A t : On(t)' = On(t)
  BY <1>1 DEF On, Live
<1> QED
  BY <1>1, <1>2 DEF SInv, OnTables, AffectedAll, AskedCommit, AppliedAll, Published, chain

LEMMA StartTransactionSInv ==
  ASSUME IInv, PInv, SInv, NEW t \in Table, StartTransaction(t)
  PROVE  SInv'
<1>1. PICK x : x = [immediate |-> setting, puts |-> << >>, removes |-> << >>, success |-> TRUE]
  OBVIOUS
<1>2. /\ x.puts = << >> /\ x.removes = << >> /\ tx' = [tx EXCEPT ![t] = x]
      /\ UNCHANGED <<setting, ops, frame, call, pool, chain, answer>>
      /\ frame.pc = "open" /\ tx \in [Table -> TableTx \cup {NoTx}] /\ tx[t] = NoTx
  BY <1>1 DEF StartTransaction, IInv, TypeOK
<1>3. \A u \in Table : tx'[u] = IF u = t THEN x ELSE tx[u]
  BY <1>2
<1>4. \A u : On(u)' = On(u)
  BY <1>2 DEF On
<1>5. OnTables'
  <2>1. ASSUME NEW u \in Live'
        PROVE  Range(tx'[u].puts) \subseteq On(u) /\ Range(tx'[u].removes) \subseteq On(u)
    <3>1. CASE u = t
      BY <1>2, <1>3, <3>1 DEF Range
    <3>2. CASE u # t
      BY <1>3, <2>1, <3>2 DEF SInv, OnTables, Live
    <3> QED
      BY <3>1, <3>2
  <2> QED
    BY <1>2, <1>4, <2>1 DEF SInv, OnTables, chain
<1>6. AffectedAll'
  <2>1. \A u \in Table : tx'[u] = NoTx => tx[u] = NoTx
    BY <1>2, <1>3
  <2> QED
    BY <1>2, <1>4, <2>1 DEF SInv, AffectedAll
<1>7. AskedCommit' /\ AppliedAll'
  BY <1>2 DEF SInv, AskedCommit, AppliedAll, Published, chain
<1> QED
  BY <1>5, <1>6, <1>7 DEF SInv

LEMMA AddSInv ==
  ASSUME IInv, PInv, SInv, NEW op \in Op, Add(op)
  PROVE  SInv'
<1>1. PICK n \in Worker, t \in Table :
        /\ n = Len(ops) + 1 /\ t = op.table
        /\ frame.pc = "open" /\ tx[t] # NoTx /\ ops' = Append(ops, op)
        /\ tx' = (IF op.deleteEntry THEN [tx EXCEPT ![t].removes = Append(@, n)]
                                    ELSE [tx EXCEPT ![t].puts = Append(@, n)])
        /\ call' = [call EXCEPT ![n] = IF tx[t].immediate THEN "started" ELSE "none"]
        /\ UNCHANGED <<setting, frame, pool, chain, answer>>
  BY DEF Add, Op
<1>2. /\ DOMAIN ops' = DOMAIN ops \cup {n} /\ ops'[n] = op
      /\ n \notin DOMAIN ops /\ \A m \in DOMAIN ops : ops'[m] = ops[m]
  BY <1>1 DEF IInv, TypeOK
<1>3. /\ \A u : On(u) \subseteq On(u)' /\ (u # t => On(u)' = On(u))
      /\ On(t)' = On(t) \cup {n}
  BY <1>1, <1>2 DEF On
<1>4. PICK x \in TableTx : x = tx[t]
  BY <1>1 DEF IInv, TypeOK
<1>5. /\ tx \in [Table -> TableTx \cup {NoTx}] /\ x.puts \in Seq(Worker)
      /\ x.removes \in Seq(Worker)
  BY TxFields DEF IInv, TypeOK
<1>6. /\ \A u \in Table : u # t => tx'[u] = tx[u]
      /\ IF op.deleteEntry THEN tx'[t] = [x EXCEPT !.removes = Append(x.removes, n)]
                           ELSE tx'[t] = [x EXCEPT !.puts = Append(x.puts, n)]
  BY <1>1, <1>4, <1>5
<1>7. IF op.deleteEntry THEN tx'[t].puts = x.puts /\ tx'[t].removes = Append(x.removes, n)
                        ELSE tx'[t].removes = x.removes /\ tx'[t].puts = Append(x.puts, n)
  <2>1. CASE op.deleteEntry
    <3>1. tx'[t] = [x EXCEPT !.removes = Append(x.removes, n)]
      BY <1>6, <2>1
    <3> QED
      BY <2>1, <3>1 DEF TableTx
  <2>2. CASE ~op.deleteEntry
    <3>1. tx'[t] = [x EXCEPT !.puts = Append(x.puts, n)]
      BY <1>6, <2>2
    <3> QED
      BY <2>2, <3>1 DEF TableTx
  <2> QED
    BY <2>1, <2>2
<1>8. /\ Range(tx'[t].puts) \subseteq Range(x.puts) \cup {n}
      /\ Range(tx'[t].removes) \subseteq Range(x.removes) \cup {n}
  <2>1. /\ Range(Append(x.puts, n)) = Range(x.puts) \cup {n}
        /\ Range(Append(x.removes, n)) = Range(x.removes) \cup {n}
    BY <1>5, RangeGrows
  <2> QED
    BY <1>7, <2>1
<1>9. OnTables'
  <2>1. ASSUME NEW u \in Live'
        PROVE  Range(tx'[u].puts) \subseteq On(u)' /\ Range(tx'[u].removes) \subseteq On(u)'
    <3>1. CASE u = t
      <4>1. Range(x.puts) \subseteq On(t) /\ Range(x.removes) \subseteq On(t)
        BY <1>1, <1>4 DEF SInv, OnTables, Live
      <4> QED
        BY <1>3, <1>8, <3>1, <4>1
    <3>2. CASE u # t
      <4>1. u \in Live /\ tx'[u] = tx[u]
        BY <1>6, <2>1, <3>2 DEF Live
      <4> QED
        BY <1>3, <3>2, <4>1 DEF SInv, OnTables
    <3> QED
      BY <3>1, <3>2
  <2>2. \A u \in Table : Range(buffer'[u]) \subseteq On(u)' /\ Range(store'[u]) \subseteq On(u)'
    BY <1>1, <1>3 DEF SInv, OnTables, chain
  <2>3. \A p \in DOMAIN pool' : pool'[p].kind \in {"op", "batch"} =>
          \A u \in pool'[p].tables : Range(pool'[p].ops) \subseteq On(u)'
    BY <1>1, <1>3 DEF SInv, OnTables
  <2> QED
    BY <2>1, <2>2, <2>3 DEF OnTables
<1>10. AffectedAll'
  <2>1. \A u \in Table : tx'[u] = NoTx => u # t /\ tx[u] = NoTx
    <3>1. tx'[t] \in TableTx
      BY <1>4, <1>6, TxFields
    <3> QED
      BY <1>6, <3>1, TxFields
  <2> QED
    BY <1>1, <1>3, <2>1 DEF SInv, AffectedAll
<1>11. AskedCommit'
  BY <1>1 DEF SInv, AskedCommit
<1>12. AppliedAll'
  BY <1>1 DEF SInv, AppliedAll, Published, chain
<1> QED
  BY <1>9, <1>10, <1>11, <1>12 DEF SInv

LEMMA ReportSInv ==
  ASSUME IInv, PInv, SInv, NEW n \in Worker, Report(n)
  PROVE  SInv'
<1>1. /\ n \in DOMAIN ops /\ ops[n].table \in Table /\ tx[ops[n].table] # NoTx
      /\ call' = [call EXCEPT ![n] = "done"]
      /\ UNCHANGED <<setting, ops, frame, pool, chain, answer>>
  <2>1. n \in Running
    BY DEF Report, Running
  <2> QED
    BY <2>1, OpFacts DEF Report
<1>2. PICK t \in Table : t = ops[n].table
  BY <1>1
<1>3. PICK x \in TableTx : x = tx[t]
  BY <1>1, <1>2 DEF IInv, TypeOK
<1>4. PICK y \in TableTx : tx' = [tx EXCEPT ![t] = y] /\ y.puts = x.puts /\ y.removes = x.removes
  <2>1. x.success \in BOOLEAN /\ (call[n] = "mined") \in BOOLEAN
    BY TxFields
  <2>2. [x EXCEPT !.success = @ /\ call[n] = "mined"] \in TableTx
    BY <2>1, TxFields
  <2>3. PICK y \in TableTx : y = [x EXCEPT !.success = @ /\ call[n] = "mined"]
    BY <2>2
  <2>4. y.puts = x.puts /\ y.removes = x.removes
    BY <2>3 DEF TableTx
  <2>5. tx' = [tx EXCEPT ![t] = y]
    BY <1>1, <1>2, <1>3, <2>3 DEF Report, IInv, TypeOK
  <2> QED
    BY <2>4, <2>5
<1>8. /\ \A u \in Table : tx'[u] = IF u = t THEN y ELSE tx[u]
      /\ tx[t] = x /\ x # NoTx /\ y # NoTx
  BY <1>3, <1>4, TxFields DEF IInv, TypeOK
<1>9. \A u : On(u)' = On(u)
  BY <1>1 DEF On
<1>10. Live' = Live /\ \A u \in Table : tx'[u] = NoTx => tx[u] = NoTx
  BY <1>8 DEF Live
<1>11. \A u \in Live : tx'[u].puts = tx[u].puts /\ tx'[u].removes = tx[u].removes
  BY <1>4, <1>8 DEF Live
<1>12. OnTables'
  BY <1>1, <1>9, <1>10, <1>11 DEF SInv, OnTables, chain
<1>13. AffectedAll' /\ AskedCommit'
  BY <1>1, <1>9, <1>10 DEF SInv, AffectedAll, AskedCommit
<1>14. call'[Main] = call[Main]
  BY <1>1, ActorAssumption DEF IInv, TypeOK, Actor
<1>15. AppliedAll'
  BY <1>1, <1>9, <1>14 DEF SInv, AppliedAll, Published, chain
<1> QED
  BY <1>12, <1>13, <1>15 DEF SInv

\* Calls start or fail: the pool gets an entry, or stays.
LEMMA CallsSInv ==
  ASSUME IInv, PInv, SInv, NEW a \in Actor, Send(a) \/ SendFails(a)
  PROVE  SInv'
<1>1. PICK request \in Requests(a), how \in {"sent", "failed"} :
        /\ Advance(a, request, how)
        /\ pool' \in {pool, Append(pool, Hole), Append(pool, request)}
        /\ Calling(a) /\ UNCHANGED <<setting, tx, ops, chain, answer>>
  BY DEF Send, SendFails
<1>2. /\ frame'.pc = frame.pc /\ frame'.cur = frame.cur /\ frame'.ok = frame.ok
      /\ frame'.affected = frame.affected
      /\ call'[a] = how /\ \A b \in Actor : b # a => call'[b] = call[b]
      /\ Live' = Live /\ frame.pc # "ended"
  BY <1>1, AdvanceParts
<1>3. \A u : On(u)' = On(u)
  BY <1>1 DEF On
<1>4. request \in Entry /\ pool \in Seq(Entry)
  BY <1>1, RequestType DEF IInv, TypeOK
<1>5. ASSUME NEW p \in DOMAIN pool'
      PROVE  (p \in DOMAIN pool /\ pool'[p] = pool[p]) \/ pool'[p] = Hole \/ pool'[p] = request
  BY <1>1, <1>4, <1>5
<1>6. /\ request.kind \in {"op", "batch"} => \A t \in request.tables : Range(request.ops) \subseteq On(t)
      /\ request.kind = "commit" => request.tables = frame.affected
      /\ request.by = Main /\ frame.pc = "commit" => request.kind = "commit"
  <2>1. CASE a \in Worker
    <3>1. request = [kind |-> "op", tables |-> {ops[a].table}, ops |-> <<a>>, by |-> a]
      BY <1>1, <2>1 DEF Requests
    <3>2. a \in Running
      BY <1>1, <2>1 DEF Calling, Running
    <3>3. a \in On(ops[a].table)
      BY <3>2, OpFacts DEF On
    <3>4. Range(<<a>>) = {a}
      BY DEF Range
    <3> QED
      BY <2>1, <3>1, <3>3, <3>4, ActorAssumption
  <2>2. CASE a = Main
    <3>1. PICK t \in IF frame.pc = "undo" THEN frame.todo ELSE {frame.cur} : request = MainRequest(t)
      BY <1>1, <2>2, ActorAssumption DEF Requests
    <3>2. frame.pc \in {"puts", "removes", "undo", "commit", "clear"}
      BY <1>1, <2>2, ActorAssumption DEF Calling
    <3>3. CASE frame.pc \in {"puts", "removes"}
      <4>1. /\ request.tables = {frame.cur} /\ request.kind = "batch"
            /\ request.ops \in {tx[frame.cur].puts, tx[frame.cur].removes}
        BY <3>1, <3>3 DEF MainRequest
      <4>2. frame.cur \in Live
        BY <3>3 DEF IInv, TypeOK
      <4> QED
        BY <3>3, <4>1, <4>2 DEF SInv, OnTables
    <3>4. CASE frame.pc \notin {"puts", "removes"}
      BY <3>1, <3>2, <3>4 DEF MainRequest
    <3> QED
      BY <3>3, <3>4
  <2> QED
    BY <2>1, <2>2 DEF Actor
<1>7. Hole.kind = "hole" /\ Hole.by # Main
  BY ActorAssumption DEF Hole, Actor
<1>8. OnTables'
  <2>1. \A p \in DOMAIN pool' : pool'[p].kind \in {"op", "batch"} =>
          \A t \in pool'[p].tables : Range(pool'[p].ops) \subseteq On(t)
    BY <1>5, <1>6, <1>7 DEF SInv, OnTables
  <2> QED
    BY <1>1, <1>2, <1>3, <2>1 DEF SInv, OnTables, chain
<1>9. AffectedAll'
  <2>1. On(frame.cur)' = On(frame'.cur)
    BY <1>1, <1>2 DEF On
  <2> QED
    BY <1>1, <1>2, <1>3, <2>1 DEF SInv, AffectedAll
<1>10. AskedCommit'
  BY <1>2, <1>5, <1>6, <1>7 DEF SInv, AskedCommit
<1>11. AppliedAll'
  <2>1. call'[Main] = "mined" => call[Main] = "mined"
    BY <1>2 DEF Actor
  <2> QED
    BY <1>1, <1>2, <1>3, <2>1 DEF SInv, AppliedAll, Published, chain
<1> QED
  BY <1>8, <1>9, <1>10, <1>11 DEF SInv

LEMMA TimeOutSInv ==
  ASSUME IInv, PInv, SInv, NEW a \in Actor, TimeOut(a)
  PROVE  SInv'
<1>1. /\ call' = [call EXCEPT ![a] = "failed"] /\ call \in [Actor -> CallState]
      /\ UNCHANGED <<setting, tx, ops, frame, chain, answer>>
  BY DEF TimeOut, IInv, TypeOK, CallState
<1>2. /\ DOMAIN pool' = DOMAIN pool
      /\ \A p \in DOMAIN pool :
           /\ pool'[p].by = IF pool[p].by = a THEN NoOne ELSE pool[p].by
           /\ pool'[p].kind = pool[p].kind /\ pool'[p].tables = pool[p].tables
           /\ pool'[p].ops = pool[p].ops
  <2>1. \A i \in DOMAIN pool : pool[i] \in Entry
    BY PoolEntry DEF IInv
  <2>2. DOMAIN pool' = DOMAIN pool
    BY DEF TimeOut
  <2> QED
    BY <2>1, <2>2 DEF TimeOut, Entry
<1>3. Live' = Live /\ \A u : On(u)' = On(u)
  BY <1>1 DEF On, Live
<1>4. OnTables'
  BY <1>1, <1>2, <1>3 DEF SInv, OnTables, chain
<1>5. AffectedAll'
  BY <1>1, <1>3 DEF SInv, AffectedAll
<1>6. AskedCommit'
  <2>1. NoOne # Main
    BY ActorAssumption DEF Actor
  <2> QED
    BY <1>1, <1>2, <2>1 DEF SInv, AskedCommit
<1>7. AppliedAll'
  <2>1. call'[Main] = "mined" => call[Main] = "mined"
    BY <1>1 DEF Actor
  <2> QED
    BY <1>1, <1>3, <2>1 DEF SInv, AppliedAll, Published, chain
<1> QED
  BY <1>4, <1>5, <1>6, <1>7 DEF SInv

LEMMA MineSInv ==
  ASSUME IInv, PInv, SInv, Mine
  PROVE  SInv'
<1>1. /\ 1 \in DOMAIN pool /\ pool[1] \in Entry /\ pool[1].kind # "hole"
      /\ \A p \in DOMAIN pool' : /\ p + 1 \in DOMAIN pool /\ p \in Nat \ {0}
                                 /\ pool'[p] = pool[p + 1]
      /\ UNCHANGED <<setting, tx, ops, frame, answer>>
      /\ \A b \in Actor : IF b = pool[1].by THEN call'[b] = "mined" /\ call[b] = "sent"
                                            ELSE call'[b] = call[b]
      /\ Live' = Live
  BY MineParts
<1>2. \A t \in Table : /\ buffer[t] \in Seq(Worker) /\ pool[1].ops \in Seq(Worker)
                       /\ buffer'[t] = IF t \notin pool[1].tables THEN buffer[t]
                                       ELSE IF pool[1].kind \in {"op", "batch"}
                                       THEN buffer[t] \o pool[1].ops ELSE << >>
  BY MineParts
<1>3. \A t \in Table : /\ store[t] \in Seq(Worker)
                       /\ store'[t] = IF pool[1].kind = "commit" /\ t \in pool[1].tables
                                      THEN store[t] \o buffer[t] ELSE store[t]
  <2>1. pool \in Seq(Entry) /\ pool # << >> /\ pool[1] = Head(pool)
    BY DEF Mine, IInv, TypeOK
  <2> QED
    BY <2>1 DEF Mine, IInv, TypeOK
<1>4. \A u : On(u)' = On(u)
  BY <1>1 DEF On
<1>5. /\ \A t \in Table : Range(buffer'[t]) \subseteq On(t)
      /\ \A t \in Table : Range(store'[t]) \subseteq On(t) /\ Range(store[t]) \subseteq Range(store'[t])
  <2>1. ASSUME NEW t \in Table
        PROVE  /\ Range(buffer'[t]) \subseteq On(t) /\ Range(store'[t]) \subseteq On(t)
               /\ Range(store[t]) \subseteq Range(store'[t])
    <3>1. /\ Range(buffer[t]) \subseteq On(t) /\ Range(store[t]) \subseteq On(t)
          /\ t \in pool[1].tables /\ pool[1].kind \in {"op", "batch"} => Range(pool[1].ops) \subseteq On(t)
      BY <1>1 DEF SInv, OnTables
    <3>2. /\ Range(buffer[t] \o pool[1].ops) = Range(buffer[t]) \cup Range(pool[1].ops)
          /\ Range(store[t] \o buffer[t]) = Range(store[t]) \cup Range(buffer[t])
      BY <1>2, <1>3, RangeGrows
    <3>3. Range(<< >>) = {}
      BY DEF Range
    <3>4. Range(buffer'[t]) \subseteq On(t)
      BY <1>2, <3>1, <3>2, <3>3
    <3> QED
      BY <1>3, <3>1, <3>2, <3>4
  <2> QED
    BY <2>1
<1>6. OnTables'
  <2>1. \A p \in DOMAIN pool' : pool'[p].kind \in {"op", "batch"} =>
          \A t \in pool'[p].tables : Range(pool'[p].ops) \subseteq On(t)
    BY <1>1 DEF SInv, OnTables
  <2> QED
    BY <1>1, <1>4, <1>5, <2>1 DEF SInv, OnTables
<1>7. AffectedAll' /\ AskedCommit'
  BY <1>1, <1>4 DEF SInv, AffectedAll, AskedCommit
\* A commit is mined with complete buffers, on every table that has operations.
<1>8. ASSUME pool[1].kind = "commit", NEW t \in Table
      PROVE  On(t) \subseteq Range(store'[t])
  <2>1. pool[1].kind = "commit" /\ pool[1].tables = frame.affected
    BY <1>1, <1>8 DEF SInv, AskedCommit
  <2>2. Live = {} /\ frame.ok
    BY <1>1, <2>1 DEF PInv, Asked
  <2>3. On(t) \subseteq Range(buffer[t])
    BY <1>1, <2>1, <2>2 DEF PInv, MainTruth, Undecided, Live, AllBuffered, Buffered, On
  <2>4. On(t) = {} \/ t \in pool[1].tables
    BY <2>1, <2>2 DEF SInv, AffectedAll, Live
  <2>5. Range(store[t] \o buffer[t]) = Range(store[t]) \cup Range(buffer[t])
    BY <1>2, <1>3, RangeGrows
  <2> QED
    BY <1>3, <2>1, <2>3, <2>4, <2>5
<1>9. AppliedAll'
  <2>1. ASSUME answer' = "ok" \/ (frame'.pc = "commit" /\ call'[Main] = "mined") \/ Published',
               NEW t \in Table
        PROVE  On(t)' \subseteq Range(store'[t])
    <3>1. CASE answer = "ok" \/ (frame.pc = "commit" /\ call[Main] = "mined") \/ Published
      BY <1>4, <1>5, <3>1 DEF SInv, AppliedAll
    <3>2. CASE pool[1].kind = "commit"
      BY <1>4, <1>8, <3>2
    <3>3. CASE /\ ~(answer = "ok" \/ (frame.pc = "commit" /\ call[Main] = "mined") \/ Published)
               /\ pool[1].kind # "commit"
      <4>1. ~Published'
        BY <1>3, <3>3 DEF Published
      <4>2. frame.pc = "commit" /\ call'[Main] = "mined" /\ call[Main] # "mined"
        BY <1>1, <2>1, <3>3, <4>1
      <4>3. pool[1].by = Main
        BY <1>1, <4>2 DEF Actor
      <4> QED
        BY <1>1, <3>3, <4>2, <4>3 DEF SInv, AskedCommit
    <3> QED
      BY <3>1, <3>2, <3>3
  <2>2. Published' => frame.pc \in {"commit", "ended"}
    <3>1. pool[1].kind = "commit" => frame.pc \in {"commit", "ended"}
      BY <1>1 DEF PInv, Asked
    <3> QED
      BY <1>3, <3>1 DEF Published, SInv, AppliedAll
  <2> QED
    BY <1>1, <2>1, <2>2 DEF SInv, AppliedAll
<1> QED
  BY <1>6, <1>7, <1>9 DEF SInv

LEMMA InitSInv == Init => SInv
<1> SUFFICES ASSUME Init PROVE SInv
  OBVIOUS
<1>1. /\ DOMAIN ops = {} /\ DOMAIN pool = {} /\ Live = {} /\ frame.pc = "open" /\ answer = "none"
      /\ \A t \in Table : Range(buffer[t]) = {} /\ Range(store[t]) = {}
  BY DEF Init, Live, Range
<1>2. ~Published /\ \A t : On(t) = {}
  BY <1>1 DEF Init, Published, On
<1> QED
  BY <1>1, <1>2 DEF SInv, OnTables, AffectedAll, AskedCommit, AppliedAll

LEMMA NextSInv ==
  ASSUME IInv, PInv, SInv, [Next]_vars
  PROVE  SInv'
<1>1. CASE UNCHANGED vars
  <2>1. /\ UNCHANGED <<tx, ops, frame, call, pool, chain, answer>> /\ Live' = Live
        /\ \A t : On(t)' = On(t)
    BY <1>1 DEF vars, On, Live
  <2> QED
    BY <2>1 DEF SInv, OnTables, AffectedAll, AskedCommit, AppliedAll, Published, chain
<1>2. CASE Switch
  BY <1>2, SwitchSInv
<1>3. CASE Client
  BY <1>3, StartTransactionSInv, AddSInv, GoSInv DEF Client
<1>4. CASE MainStep
  <2>1. Main \in Actor
    BY DEF Actor
  <2> QED
    BY <1>4, <2>1, GoSInv, EndsSInv, DestructorSInv, CallsSInv, TimeOutSInv, ReturnsSInv,
       CommitReturnedSInv DEF MainStep
<1>5. ASSUME NEW n \in Worker, WorkerStep(n) PROVE SInv'
  <2>1. n \in Actor
    BY DEF Actor
  <2> QED
    BY <1>5, <2>1, CallsSInv, TimeOutSInv, ReportSInv DEF WorkerStep
<1>6. CASE Mine
  BY <1>6, MineSInv
<1> QED
  BY <1>1, <1>2, <1>3, <1>4, <1>5, <1>6 DEF Next

\* The commit covers every table with operations, and what it covers is applied,
\* also when nobody waits for it any more.
THEOREM AppliedInvariant ==
  ASSUME TRUE \notin Switches
  PROVE  Spec => []SInv
<1>1. IInv /\ PInv /\ SInv /\ [Next]_vars => SInv'
  BY NextSInv
<1> QED
  BY <1>1, InitSInv, InductiveInvariant, PreparedInvariant, PTL DEF Spec

\* Once COMMIT was answered with success, or anything of the transaction took
\* effect, all operations have, on all tables: each worker reported what became of
\* its own, and the commit call, also one that was given up and mined late, finds
\* every buffer complete and forgets none.
THEOREM WholeApplied ==
  ASSUME TRUE \notin Switches
  PROVE  Spec => []AppliedWhole
<1>1. SInv => AppliedWhole
  BY DEF SInv, AppliedAll, AppliedWhole
<1> QED
  BY <1>1, AppliedInvariant, PTL

=============================================================================

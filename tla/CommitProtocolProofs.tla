------------------------ MODULE CommitProtocolProofs ------------------------
(***************************************************************************)
(* Proofs about CommitProtocol, for any connections, tables, identifiers   *)
(* and bounds, with or without reverting calls, and whether or not the     *)
(* MySQL core rolls back after a failed commit: types are right, one       *)
(* transaction has one identifier, a commit is alone in the pool, and only *)
(* a failed commit leaves table transactions that the core does not know.  *)
(***************************************************************************)
EXTENDS CommitProtocol, TLAPS

(***************************************************************************)
(* The inductive invariant.                                                *)
(***************************************************************************)
\* No call under identifier i waits to be mined.
Clear(i) == \A p \in DOMAIN pool : pool[p].id # i

\* Everything in the pool and in memory was drawn, so a new draw is new.
DrawnIds ==
  /\ \A c \in Conn : Ids(c) \subseteq used
  /\ \A p \in DOMAIN pool :
       IF pool[p].kind = "hole" THEN pool[p].id = NoId ELSE pool[p].id \in used

\* bc_commit has a table transaction at hand when it makes calls, and it has
\* moved all of them out of ha_data when it makes the last one.
Shape(c) ==
  /\ frame[c].pc = "idle" => frame[c].tx = NoTx
  /\ frame[c].pc # "idle" => turn[c] <= MaxTx
  /\ frame[c].pc \in {"idle", "tables"} => frame[c].call = "none"
  /\ frame[c].pc \in {"tables", "puts", "removes"} => Live(c) = frame[c].todo
  /\ frame[c].pc \in {"puts", "removes"} => frame[c].cur \cap frame[c].todo = {}
  /\ frame[c].pc = "tables" /\ frame[c].affected # {} => frame[c].tx # NoTx
  /\ frame[c].pc = "commit" => Live(c) = {}
  /\ Calling(c) => frame[c].tx # NoTx

FrameShape == \A c \in Conn : Shape(c)

\* The call that a thread waits for is in the pool, behind every other call
\* under its identifier, and the thread waits for one call only.
AwaitedCall ==
  /\ \A c \in Conn : frame[c].call = "sent" =>
       \E p \in DOMAIN pool :
         /\ pool[p].by = c
         /\ \A q \in DOMAIN pool : pool[q].id = frame[c].tx.id => q <= p
  /\ \A p, q \in DOMAIN pool : pool[p].by \in Conn /\ pool[q].by = pool[p].by => p = q
  /\ \A p \in DOMAIN pool : pool[p].by \in Conn => frame[pool[p].by].call = "sent"

\* Once a call is confirmed, all earlier calls under its identifier were mined
\* too: nonces are mined in order.
Confirmed(c) ==
  /\ frame[c].call = "mined" => Clear(frame[c].tx.id)
  /\ frame[c].pc \in {"tables", "commit"} /\ frame[c].tx # NoTx /\ frame[c].call = "none"
       => Clear(frame[c].tx.id)

ConfirmedIsClear == \A c \in Conn : Confirmed(c)

\* The identifier of a waiting commit is held by nobody but the thread that
\* sent it.
CommitOwned ==
  \A p \in DOMAIN pool : pool[p].kind = "commit" =>
    \A c \in Conn : pool[p].id \in Ids(c) =>
      frame[c].pc = "commit" /\ frame[c].call # "none"

IInv ==
  /\ TypeOK
  /\ OneIdPerTransaction
  /\ DrawnIds
  /\ FrameShape
  /\ AwaitedCall
  /\ ConfirmedIsClear
  /\ CommitOwned
  /\ CommitIsAlone

-----------------------------------------------------------------------------
(***************************************************************************)
(* Types.                                                                  *)
(***************************************************************************)
LEMMA IdleType == Idle \in Frame /\ Idle.pc = "idle" /\ Idle.call = "none" /\ Idle.tx = NoTx
BY DEF Idle, Frame

LEMMA CurrentType ==
  ASSUME TypeOK, NEW c \in Conn, turn[c] <= MaxTx
  PROVE  Current(c) \in Tx /\ turn[c] + 1 \in 1..(MaxTx + 1)
BY BoundAssumption DEF TypeOK, Current, Tx

LEMMA HoleType == Hole \in Entry
<1>1. << >> \in Seq(Op)
  OBVIOUS
<1> QED
  BY <1>1 DEF Hole, Entry

\* What a call sends, in terms of the frame that sends it.
LEMMA RequestType ==
  ASSUME TypeOK, NEW c \in Conn, Calling(c), frame[c].tx # NoTx, NEW S \in SUBSET Table
  PROVE  /\ Request(c, S) \in Entry
         /\ Request(c, S).id = frame[c].tx.id
         /\ Request(c, S).by = c
         /\ Request(c, S).kind = "commit" => frame[c].pc = "commit"
<1> DEFINE f == frame[c]
           r == Request(c, S)
<1>1. f \in Frame /\ f.tx \in TableTx
  BY DEF TypeOK, Frame
<1>2. f.tx.id \in TxId /\ f.tx.puts \in Seq(Op) /\ f.tx.removes \in Seq(Op)
  BY <1>1 DEF TableTx
<1>3. r.kind \in {"batch", "clean", "commit"} /\ (r.kind = "commit" => f.pc = "commit")
  BY DEF Request
<1>4. r.ops \in Seq(Op)
  <2>1. << >> \in Seq(Op)
    OBVIOUS
  <2> QED
    BY <1>2, <2>1 DEF Request, Calling
<1>5. r.id = f.tx.id /\ r.by = c /\ r.tables = S
  BY DEF Request
<1>6. r = [kind |-> r.kind, tables |-> r.tables, id |-> r.id, ops |-> r.ops, by |-> r.by]
  BY DEF Request
<1> HIDE DEF r
<1>7. r \in Entry
  BY <1>2, <1>3, <1>4, <1>5, <1>6 DEF Entry
<1> QED
  BY <1>3, <1>5, <1>7 DEF r

LEMMA TargetsType ==
  ASSUME NEW f \in Frame
  PROVE  Targets(f) \subseteq SUBSET Table
BY DEF Targets, Frame

\* Giving up calls changes nothing but who waits for them.
LEMMA ForgetType ==
  ASSUME TypeOK, NEW cs, ForgetCalls(cs)
  PROVE  /\ pool' \in Seq(Entry) /\ DOMAIN pool' = DOMAIN pool
         /\ \A p \in DOMAIN pool :
              /\ pool'[p].id = pool[p].id /\ pool'[p].kind = pool[p].kind
              /\ pool'[p].by = IF pool[p].by \in cs THEN NoConn ELSE pool[p].by
<1>1. pool \in Seq(Entry) /\ DOMAIN pool = 1..Len(pool) /\ Len(pool) \in Nat
  BY DEF TypeOK
<1>2. ASSUME NEW p \in DOMAIN pool
      PROVE  /\ Forget(pool[p], cs) \in Entry
             /\ Forget(pool[p], cs).id = pool[p].id
             /\ Forget(pool[p], cs).kind = pool[p].kind
             /\ Forget(pool[p], cs).by = IF pool[p].by \in cs THEN NoConn ELSE pool[p].by
  <2>1. pool[p] \in Entry
    BY <1>1
  <2> QED
    BY <2>1 DEF Forget, Entry
<1>3. pool' = [p \in 1..Len(pool) |-> Forget(pool[p], cs)]
  BY <1>1 DEF ForgetCalls
<1>4. pool' \in Seq(Entry)
  BY <1>1, <1>2, <1>3
<1> QED
  BY <1>1, <1>2, <1>3, <1>4

\* A frame keeps its type when some of its fields are assigned.
LEMMA FrameFields ==
  ASSUME NEW f \in Frame
  PROVE  /\ \A S \in SUBSET Table, k \in {"none", "sent", "mined", "failed"} :
              [f EXCEPT !.todo = @ \ S, !.call = k] \in Frame
         /\ \A k \in {"none", "sent", "mined", "failed"} : [f EXCEPT !.call = k] \in Frame
         /\ \A k \in BOOLEAN :
              [f EXCEPT !.pc = "removes", !.ok = k, !.call = "none"] \in Frame
         /\ [f EXCEPT !.pc = "commit", !.cur = f.affected] \in Frame
         /\ \A k \in BOOLEAN : Judge(f, k) \in Frame
BY DEF Frame, Judge

LEMMA EndType ==
  ASSUME TypeOK, NEW c \in Conn, turn[c] <= MaxTx, NEW how \in Answers, End(c, how)
  PROVE  /\ answer' \in [Tx -> Answers]
         /\ turn' \in [Conn -> 1..(MaxTx + 1)]
         /\ registered' \in [Conn -> BOOLEAN]
BY CurrentType DEF TypeOK, End

LEMMA DropAllType ==
  ASSUME TypeOK, NEW c \in Conn, DropAll(c)
  PROVE  /\ ha' \in [Conn -> [Table -> TableTx \cup {NoTx}]]
         /\ \A d \in Conn, t \in Table : ha'[d][t] = IF d = c THEN NoTx ELSE ha[d][t]
BY DEF TypeOK, DropAll

\* Appending an operation keeps the type of what a transaction asked for and
\* of the table transaction that buffers it.
LEMMA AppendOp ==
  ASSUME NEW op \in Op
  PROVE  /\ \A w \in [puts : Seq(Op), removes : Seq(Op)] :
              /\ [w EXCEPT !.puts = Append(@, op)] \in [puts : Seq(Op), removes : Seq(Op)]
              /\ [w EXCEPT !.removes = Append(@, op)] \in [puts : Seq(Op), removes : Seq(Op)]
         /\ \A tx \in TableTx :
              /\ [tx EXCEPT !.puts = Append(@, op)] \in TableTx
              /\ [tx EXCEPT !.removes = Append(@, op)] \in TableTx
              /\ [tx EXCEPT !.puts = Append(@, op)].id = tx.id
              /\ [tx EXCEPT !.removes = Append(@, op)].id = tx.id
<1>1. \A ops \in Seq(Op) : Append(ops, op) \in Seq(Op)
  OBVIOUS
<1> QED
  BY <1>1 DEF TableTx

LEMMA TypeStatement ==
  ASSUME IInv, NEW c \in Conn, Statement(c)
  PROVE  TypeOK'
<1> USE DEF IInv
<1>1. ASSUME NEW t \in Table, StartTransaction(c, t) PROVE TypeOK'
  <2> DEFINE I == IF Live(c) = {} THEN TxId \ used ELSE {ha[c][u].id : u \in Live(c)}
  <2>0. I \subseteq TxId
    <3>1. \A u \in Live(c) : ha[c][u].id \in TxId
      BY DEF TypeOK, Live, TableTx
    <3> QED
      BY <3>1
  <2>1. PICK i \in I :
          /\ ha' = [ha EXCEPT ![c][t] = [id |-> i, puts |-> << >>, removes |-> << >>]]
          /\ used' = used \cup {i}
    BY <1>1, Zenon DEF StartTransaction
  <2>2. [id |-> i, puts |-> << >>, removes |-> << >>] \in TableTx
    BY <2>0 DEF TableTx
  <2>3. ha' \in [Conn -> [Table -> TableTx \cup {NoTx}]]
    BY <2>1, <2>2 DEF TypeOK
  <2>4. registered' \in [Conn -> BOOLEAN] /\ used' \subseteq TxId
    BY <1>1, <2>0, <2>1 DEF StartTransaction, TypeOK
  <2> QED
    BY <1>1, <2>3, <2>4 DEF StartTransaction, TypeOK, chain, client
<1>2. ASSUME NEW t \in Table, WriteRow(c, t) PROVE TypeOK'
  <2> DEFINE op == [tx |-> Current(c), deleteEntry |-> FALSE]
             x  == Current(c)
  <2>1. x \in Tx /\ op \in Op
    BY <1>2, CurrentType DEF WriteRow, CanWrite, CanIssue, Op
  <2>2. ha[c][t] \in TableTx
    BY <1>2 DEF WriteRow, CanWrite, TypeOK
  <2>3. /\ ha' = [ha EXCEPT ![c][t].puts = Append(@, op)]
        /\ work' = [work EXCEPT ![x][t].puts = Append(@, op)]
        /\ UNCHANGED <<registered, turn, used, frame, chain, answer>>
    BY <1>2 DEF WriteRow
  <2> HIDE DEF op, x
  <2>4. [ha[c][t] EXCEPT !.puts = Append(@, op)] \in TableTx
    BY <2>1, <2>2, AppendOp
  <2>5. ha' \in [Conn -> [Table -> TableTx \cup {NoTx}]]
    BY <2>3, <2>4 DEF TypeOK
  <2>6. [work[x][t] EXCEPT !.puts = Append(@, op)] \in [puts : Seq(Op), removes : Seq(Op)]
    <3>1. work[x][t] \in [puts : Seq(Op), removes : Seq(Op)]
      BY <2>1 DEF TypeOK
    <3> QED
      BY <2>1, <3>1, AppendOp
  <2>7. work' \in [Tx -> [Table -> [puts : Seq(Op), removes : Seq(Op)]]]
    BY <2>1, <2>3, <2>6 DEF TypeOK
  <2> QED
    BY <2>3, <2>5, <2>7 DEF TypeOK, chain
<1>3. ASSUME NEW t \in Table, DeleteRow(c, t) PROVE TypeOK'
  <2> DEFINE op == [tx |-> Current(c), deleteEntry |-> TRUE]
             x  == Current(c)
  <2>1. x \in Tx /\ op \in Op
    BY <1>3, CurrentType DEF DeleteRow, CanWrite, CanIssue, Op
  <2>2. ha[c][t] \in TableTx
    BY <1>3 DEF DeleteRow, CanWrite, TypeOK
  <2>3. /\ ha' = [ha EXCEPT ![c][t].removes = Append(@, op)]
        /\ work' = [work EXCEPT ![x][t].removes = Append(@, op)]
        /\ UNCHANGED <<registered, turn, used, frame, chain, answer>>
    BY <1>3 DEF DeleteRow
  <2> HIDE DEF op, x
  <2>4. [ha[c][t] EXCEPT !.removes = Append(@, op)] \in TableTx
    BY <2>1, <2>2, AppendOp
  <2>5. ha' \in [Conn -> [Table -> TableTx \cup {NoTx}]]
    BY <2>3, <2>4 DEF TypeOK
  <2>6. [work[x][t] EXCEPT !.removes = Append(@, op)] \in [puts : Seq(Op), removes : Seq(Op)]
    <3>1. work[x][t] \in [puts : Seq(Op), removes : Seq(Op)]
      BY <2>1 DEF TypeOK
    <3> QED
      BY <2>1, <3>1, AppendOp
  <2>7. work' \in [Tx -> [Table -> [puts : Seq(Op), removes : Seq(Op)]]]
    BY <2>1, <2>3, <2>6 DEF TypeOK
  <2> QED
    BY <2>3, <2>5, <2>7 DEF TypeOK, chain
<1>4. CASE Rollback(c)
  <2>1. turn[c] <= MaxTx /\ End(c, "rolledBack") /\ (DropAll(c) \/ UNCHANGED ha)
        /\ UNCHANGED <<used, frame, chain, work>>
    BY <1>4 DEF Rollback, CanIssue
  <2>2. ha' \in [Conn -> [Table -> TableTx \cup {NoTx}]]
    BY <2>1, DropAllType DEF TypeOK
  <2>3. "rolledBack" \in Answers
    BY DEF Answers
  <2> QED
    BY <2>1, <2>2, <2>3, EndType DEF TypeOK, chain
<1>5. CASE CommitUnregistered(c)
  <2>1. turn[c] <= MaxTx /\ End(c, "ok") /\ UNCHANGED <<ha, used, frame, chain, work>>
        /\ "ok" \in Answers
    BY <1>5 DEF CommitUnregistered, CanIssue, Answers
  <2> QED
    BY <2>1, EndType DEF TypeOK, chain
<1>6. CASE BcCommit(c)
  <2>1. [Idle EXCEPT !.pc = "tables", !.todo = Live(c)] \in Frame
    BY DEF Idle, Frame, Live
  <2> QED
    BY <1>6, <2>1 DEF BcCommit, TypeOK, session, chain, client
<1> QED
  BY <1>1, <1>2, <1>3, <1>4, <1>5, <1>6 DEF Statement

LEMMA TypeStep ==
  ASSUME IInv, NEW c \in Conn, Step(c)
  PROVE  TypeOK'
<1> USE DEF IInv
<1> DEFINE f == frame[c]
<1>0. /\ f \in Frame /\ (f.pc # "idle" => turn[c] <= MaxTx)
      /\ (Calling(c) => f.tx # NoTx) /\ f.affected \in SUBSET Table
  BY DEF TypeOK, FrameShape, Shape, Frame
<1>1. ASSUME NEW t \in Table, NextTable(c, t) PROVE TypeOK'
  <2> DEFINE tx == ha[c][t]
             g  == [f EXCEPT !.todo = @ \ {t}]
             r  == IF IsReadOnly(tx) THEN g
                   ELSE [g EXCEPT !.affected = @ \cup {t}, !.cur = {t}, !.tx = tx, !.ok = TRUE,
                                  !.pc = IF tx.puts # << >> THEN "puts" ELSE "removes"]
  <2>1. tx \in TableTx \cup {NoTx} /\ g \in Frame
    BY <1>0 DEF TypeOK, Frame
  <2>2. r \in Frame
    BY <2>1 DEF Frame
  <2>3. ha' = [ha EXCEPT ![c][t] = NoTx] /\ frame' = [frame EXCEPT ![c] = r]
        /\ UNCHANGED <<registered, turn, used, chain, client>>
    BY <1>1 DEF NextTable
  <2> HIDE DEF r
  <2>4. ha' \in [Conn -> [Table -> TableTx \cup {NoTx}]] /\ frame' \in [Conn -> Frame]
    BY <2>2, <2>3 DEF TypeOK
  <2> QED
    BY <2>3, <2>4 DEF TypeOK, chain, client
<1>2. CASE NothingToCommit(c)
  BY <1>0, <1>2, EndType, IdleType DEF NothingToCommit, TypeOK, Answers, chain
<1>3. CASE AllPrepared(c)
  <2>1. frame' = [frame EXCEPT ![c] = [f EXCEPT !.pc = "commit", !.cur = f.affected]]
        /\ UNCHANGED <<session, chain, client>>
    BY <1>3 DEF AllPrepared, TypeOK
  <2> QED
    BY <1>0, <2>1, FrameFields DEF TypeOK, session, chain, client
<1>4. ASSUME NEW S \in SUBSET Table, NEW k \in {"none", "sent", "mined", "failed"},
             AfterSend(c, S, k)
      PROVE  frame' \in [Conn -> Frame]
  <2>1. frame' = [frame EXCEPT ![c] = [f EXCEPT !.todo = @ \ S, !.call = k]]
    BY <1>4 DEF AfterSend, TypeOK
  <2> QED
    BY <1>0, <2>1, FrameFields DEF TypeOK
<1>5. CASE Send(c)
  <2>1. PICK S \in Targets(f) : pool' = Append(pool, Request(c, S)) /\ AfterSend(c, S, "sent")
    BY <1>5 DEF Send
  <2>2. S \in SUBSET Table
    BY <1>0, TargetsType
  <2>3. Request(c, S) \in Entry
    BY <1>0, <1>5, <2>2, RequestType DEF Send
  <2>4. pool' \in Seq(Entry)
    BY <2>1, <2>3 DEF TypeOK
  <2> QED
    BY <1>4, <1>5, <2>1, <2>2, <2>4 DEF Send, TypeOK, session, client
<1>6. CASE SendFails(c)
  <2>1. PICK S \in Targets(f) : AfterSend(c, S, "failed")
    BY <1>6 DEF SendFails
  <2>2. S \in SUBSET Table
    BY <1>0, TargetsType
  <2>3. pool' \in Seq(Entry)
    <3>1. pool' = Append(pool, Hole) \/ pool' = pool
      BY <1>6 DEF SendFails
    <3>2. pool \in Seq(Entry)
      BY DEF TypeOK
    <3> QED
      BY <3>1, <3>2, HoleType
  <2> QED
    BY <1>4, <1>6, <2>1, <2>2, <2>3 DEF SendFails, TypeOK, session, client
<1>7. CASE TimeOut(c)
  <2>1. frame' = [frame EXCEPT ![c] = [f EXCEPT !.call = "failed"]] /\ ForgetCalls({c})
        /\ UNCHANGED <<session, buffer, store, client>>
    BY <1>7 DEF TimeOut, TypeOK
  <2>2. pool' \in Seq(Entry)
    BY <2>1, ForgetType
  <2> QED
    BY <1>0, <2>1, <2>2, FrameFields DEF TypeOK, session, client
<1>8. ASSUME NEW r \in Frame, frame' = [frame EXCEPT ![c] = r],
             UNCHANGED <<session, chain, client>>
      PROVE  TypeOK'
  BY <1>8 DEF TypeOK, session, chain, client
<1>9. CASE PutsReturned(c)
  <2> DEFINE ok == f.call = "mined"
             r  == IF f.tx.removes # << >>
                   THEN [f EXCEPT !.pc = "removes", !.ok = ok, !.call = "none"]
                   ELSE Judge(f, ok)
  <2>1. ok \in BOOLEAN
    OBVIOUS
  <2>2. r \in Frame
    <3> HIDE DEF ok
    <3> QED
      BY <1>0, <2>1, FrameFields
  <2>3. frame' = [frame EXCEPT ![c] = r] /\ UNCHANGED <<session, chain, client>>
    BY <1>9 DEF PutsReturned
  <2> HIDE DEF r
  <2> QED
    BY <1>8, <2>2, <2>3
<1>10. CASE RemovesReturned(c)
  <2> DEFINE r == Judge(f, f.ok /\ f.call = "mined")
  <2>1. r \in Frame
    <3>1. (f.ok /\ f.call = "mined") \in BOOLEAN
      BY <1>0
    <3> QED
      BY <1>0, <3>1, FrameFields
  <2>2. frame' = [frame EXCEPT ![c] = r] /\ UNCHANGED <<session, chain, client>>
    BY <1>10 DEF RemovesReturned
  <2> HIDE DEF r
  <2> QED
    BY <1>8, <2>1, <2>2
<1>11. CASE CleanReturned(c)
  <2>1. frame' = [frame EXCEPT ![c] = [f EXCEPT !.call = "none"]]
        /\ UNCHANGED <<session, chain, client>>
    BY <1>11 DEF CleanReturned, TypeOK
  <2> QED
    BY <1>0, <1>8, <2>1, FrameFields
<1>12. CASE PrepareFailed(c)
  <2>1. ha' \in [Conn -> [Table -> TableTx \cup {NoTx}]]
    BY <1>12, DropAllType DEF PrepareFailed, TypeOK
  <2>2. "prepareFailed" \in Answers
    BY DEF Answers
  <2> QED
    BY <1>0, <1>12, <2>1, <2>2, EndType, IdleType DEF PrepareFailed, TypeOK, chain
<1>13. CASE CommitReturned(c)
  <2>1. (IF f.call = "mined" THEN "ok" ELSE "commitFailed") \in Answers
    BY DEF Answers
  <2> QED
    BY <1>0, <1>13, <2>1, EndType, IdleType DEF CommitReturned, TypeOK, chain
<1> QED
  BY <1>1, <1>2, <1>3, <1>5, <1>6, <1>7, <1>9, <1>10, <1>11, <1>12, <1>13 DEF Step

\* The confirmation of a call changes one field of the frame that waits.
LEMMA TellType ==
  ASSUME TypeOK, NEW e \in Entry, frame' = Tell(e)
  PROVE  /\ frame' \in [Conn -> Frame]
         /\ \A c \in Conn : frame'[c] = IF c = e.by THEN [frame[c] EXCEPT !.call = "mined"]
                                                    ELSE frame[c]
<1>1. CASE e.by \in Conn
  <2>1. frame' = [frame EXCEPT ![e.by] = [frame[e.by] EXCEPT !.call = "mined"]]
    BY <1>1 DEF Tell, TypeOK
  <2>2. [frame[e.by] EXCEPT !.call = "mined"] \in Frame
    BY <1>1, FrameFields DEF TypeOK
  <2> QED
    BY <2>1, <2>2 DEF TypeOK
<1>2. CASE e.by \notin Conn
  BY <1>2 DEF Tell, TypeOK
<1> QED
  BY <1>1, <1>2

\* The front of a pool that is not empty, and what is behind it.
LEMMA PoolTail ==
  ASSUME pool \in Seq(Entry), pool # << >>
  PROVE  /\ Head(pool) \in Entry /\ Head(pool) = pool[1] /\ 1 \in DOMAIN pool
         /\ Tail(pool) \in Seq(Entry)
         /\ \A p \in DOMAIN Tail(pool) : p + 1 \in DOMAIN pool /\ Tail(pool)[p] = pool[p + 1]
         /\ \A p \in DOMAIN pool : p # 1 =>
              p - 1 \in DOMAIN Tail(pool) /\ Tail(pool)[p - 1] = pool[p]
OBVIOUS

LEMMA TypeMine ==
  ASSUME IInv, Mine \/ Revert
  PROVE  TypeOK'
<1> USE DEF IInv
<1> DEFINE e == Head(pool)
<1>1. pool # << >> /\ pool' = Tail(pool) /\ frame' = Tell(e) /\ UNCHANGED <<session, client>>
  BY Zenon DEF Mine, Revert
<1>2. e \in Entry /\ pool' \in Seq(Entry)
  BY <1>1, PoolTail DEF TypeOK
<1>3. frame' \in [Conn -> Frame]
  BY <1>1, <1>2, TellType
<1>4. CASE Mine
  <2>1. e.ops \in Seq(Op) /\ << >> \in Seq(Op)
    BY <1>2 DEF Entry
  <2>2. \A t \in Table, i \in TxId : buffer[t][i] \in Seq(Op) /\ buffer[t][i] \o e.ops \in Seq(Op)
    BY <2>1 DEF TypeOK
  <2>3. buffer' \in [Table -> [TxId -> Seq(Op)]]
    <3>1. \A t \in Table : buffer[t] \in [TxId -> Seq(Op)]
      BY DEF TypeOK
    <3>2. buffer' = [t \in Table |->
              IF t \notin e.tables THEN buffer[t]
              ELSE [buffer[t] EXCEPT ![e.id] =
                      IF e.kind = "batch" THEN @ \o e.ops ELSE << >>]]
      BY <1>4 DEF Mine
    <3> HIDE DEF e
    <3>3. ASSUME NEW t \in Table
          PROVE  [buffer[t] EXCEPT ![e.id] =
                    IF e.kind = "batch" THEN @ \o e.ops ELSE << >>] \in [TxId -> Seq(Op)]
      BY <2>1, <2>2, <3>1
    <3> QED
      BY <3>1, <3>2, <3>3
  <2>4. store' \in [Table -> Seq(Op)]
    <3>1. ASSUME NEW t \in Table PROVE store[t] \o Applied(e, t) \in Seq(Op)
      <4>1. Applied(e, t) \in Seq(Op)
        <5>1. e.kind = "commit" => e.id \in TxId
          BY <1>1, PoolTail DEF DrawnIds, TypeOK
        <5> QED
          BY <2>1, <2>2, <5>1 DEF Applied
      <4> QED
        BY <4>1 DEF TypeOK
    <3> QED
      BY <1>4, <3>1 DEF Mine
  <2> QED
    BY <1>1, <1>2, <1>3, <2>3, <2>4 DEF TypeOK, session, client
<1>5. CASE Revert
  BY <1>1, <1>2, <1>3, <1>5 DEF Revert, TypeOK, session, client
<1> QED
  BY <1>4, <1>5

LEMMA TypeCrash ==
  ASSUME IInv, Crash
  PROVE  TypeOK'
<1> USE DEF IInv
<1> DEFINE active == {c \in Conn : turn[c] <= MaxTx /\ (Live(c) # {} \/ frame[c].pc # "idle")}
<1>1. /\ ha' = [c \in Conn |-> [t \in Table |-> NoTx]]
      /\ registered' = [c \in Conn |-> FALSE]
      /\ frame' = [c \in Conn |-> Idle]
      /\ answer' = [x \in Tx |-> IF x[1] \in active /\ x[2] = turn[x[1]] THEN "lost"
                                                                        ELSE answer[x]]
      /\ turn' = [c \in Conn |-> IF c \in active THEN turn[c] + 1 ELSE turn[c]]
      /\ UNCHANGED <<used, buffer, store, work>>
  BY DEF Crash
<1>2. pool' \in Seq(Entry)
  BY ForgetType DEF Crash
<1>3. \A c \in Conn : (c \in active => turn[c] <= MaxTx) /\ turn[c] \in 1..(MaxTx + 1)
  BY DEF TypeOK
<1> HIDE DEF active
<1>4. turn' \in [Conn -> 1..(MaxTx + 1)]
  BY <1>1, <1>3, BoundAssumption
<1>5. answer' \in [Tx -> Answers]
  BY <1>1 DEF TypeOK, Answers
<1>6. ha' \in [Conn -> [Table -> TableTx \cup {NoTx}]] /\ registered' \in [Conn -> BOOLEAN]
      /\ frame' \in [Conn -> Frame]
  BY <1>1, IdleType
<1> QED
  BY <1>1, <1>2, <1>4, <1>5, <1>6 DEF TypeOK

LEMMA TypeNext ==
  ASSUME IInv, [Next]_vars
  PROVE  TypeOK'
<1>1. CASE UNCHANGED vars
  BY <1>1 DEF IInv, TypeOK, vars, session, chain, client
<1>2. CASE Next
  BY <1>2, TypeStatement, TypeStep, TypeMine, TypeCrash DEF Next
<1> QED
  BY <1>1, <1>2

-----------------------------------------------------------------------------
(***************************************************************************)
(* Identifiers, awaited calls and waiting commits.                         *)
(***************************************************************************)
\* What the other connections hold is not touched.
Others(c) ==
  \A d \in Conn : d # c => ha'[d] = ha[d] /\ frame'[d] = frame[d] /\ turn'[d] = turn[d]

LEMMA OthersKeep ==
  ASSUME NEW c \in Conn, Others(c), NEW d \in Conn, d # c
  PROVE  Ids(d)' = Ids(d) /\ Live(d)' = Live(d) /\ (Shape(d) => Shape(d)')
BY DEF Others, Ids, Live, Shape, Calling

\* A step of one connection that sends nothing, waits for nothing and draws no
\* identifier.
LEMMA LocalStep ==
  ASSUME IInv, NEW c \in Conn, Others(c), pool' = pool, used \subseteq used',
         Ids(c)' \subseteq Ids(c),
         frame[c].call # "sent", frame'[c].call # "sent",
         \/ frame[c].pc # "commit"
         \/ frame[c].call = "none"
         \/ Ids(c)' = {},
         TypeOK', Shape(c)', Confirmed(c)'
  PROVE  IInv'
<1> USE DEF IInv
<1>1. \A d \in Conn : Ids(d)' \subseteq Ids(d)
  BY OthersKeep
<1>2. OneIdPerTransaction'
  BY <1>1 DEF OneIdPerTransaction
<1>3. DrawnIds'
  BY <1>1 DEF DrawnIds
<1>4. FrameShape'
  BY OthersKeep DEF FrameShape
<1>5. AwaitedCall'
  BY DEF AwaitedCall, Others
<1>6. ConfirmedIsClear'
  <2>1. ASSUME NEW d \in Conn, d # c PROVE Confirmed(d)'
    BY <2>1 DEF ConfirmedIsClear, Confirmed, Others, Clear
  <2> QED
    BY <2>1 DEF ConfirmedIsClear
<1>7. CommitOwned'
  BY <1>1 DEF CommitOwned, Others
<1>8. CommitIsAlone'
  BY DEF CommitIsAlone
<1> QED
  BY <1>2, <1>3, <1>4, <1>5, <1>6, <1>7, <1>8

\* A step that leaves the connection without a transaction and its frame idle,
\* or that keeps the frame idle and draws nothing.
LEMMA IdleStep ==
  ASSUME IInv, NEW c \in Conn, Others(c), pool' = pool, used' = used,
         frame'[c] = Idle, Live(c)' \subseteq Live(c),
         \A t \in Live(c)' : ha'[c][t].id = ha[c][t].id,
         frame[c].call # "sent",
         frame[c].pc # "commit" \/ Live(c)' = {},
         TypeOK'
  PROVE  IInv'
<1>1. Ids(c)' \subseteq Ids(c) /\ (Live(c)' = {} => Ids(c)' = {})
  BY IdleType DEF Ids
<1>2. Shape(c)' /\ Confirmed(c)'
  BY IdleType DEF Shape, Confirmed, Calling
<1> QED
  BY <1>1, <1>2, IdleType, LocalStep

LEMMA StatementKeeps ==
  ASSUME IInv, NEW c \in Conn, Statement(c)
  PROVE  IInv'
<1>0. TypeOK' /\ frame[c].pc = "idle" /\ frame[c].call = "none" /\ frame[c].tx = NoTx
      /\ TypeOK /\ Shape(c)
  <2>1. frame[c].pc = "idle"
    BY DEF Statement, StartTransaction, WriteRow, CanWrite, DeleteRow, Rollback,
           CommitUnregistered, BcCommit, CanIssue
  <2> QED
    BY <2>1, TypeStatement DEF IInv, FrameShape, Shape
<1>1. ASSUME NEW t \in Table, StartTransaction(c, t) PROVE IInv'
  <2> DEFINE I == IF Live(c) = {} THEN TxId \ used ELSE {ha[c][u].id : u \in Live(c)}
  <2>1. PICK i \in I :
          /\ ha' = [ha EXCEPT ![c][t] = [id |-> i, puts |-> << >>, removes |-> << >>]]
          /\ used' = used \cup {i}
    BY <1>1, Zenon DEF StartTransaction
  <2>2. Others(c) /\ pool' = pool /\ frame' = frame
    BY <1>1, <2>1 DEF Others, StartTransaction, chain, TypeOK, IInv
  <2>3. Ids(c)' \subseteq Ids(c) \cup {i}
    BY <1>0, <2>1, <2>2 DEF Ids, Live, TypeOK
  <2>4. Shape(c)' /\ Confirmed(c)'
    BY <1>0, <2>2 DEF Shape, Confirmed, Calling
  <2>5. CASE Live(c) # {}
    <3>1. i \in Ids(c)
      BY <2>5 DEF Ids
    <3>2. used \subseteq used'
      BY <2>1
    <3> QED
      BY <1>0, <2>2, <2>3, <2>4, <3>1, <3>2, LocalStep
  <2>6. CASE Live(c) = {}
    <3>1. i \in TxId \ used /\ Ids(c) = {}
      BY <1>0, <2>6 DEF Ids
    <3>2. Ids(c)' \subseteq {i}
      BY <2>3, <3>1
    <3>3. \A d \in Conn : d # c => Ids(d)' = Ids(d) /\ i \notin Ids(d)
      BY <2>2, <3>1, OthersKeep DEF IInv, DrawnIds
    <3>4. OneIdPerTransaction'
      BY <3>2, <3>3 DEF IInv, OneIdPerTransaction
    <3>5. DrawnIds'
      BY <2>1, <2>2, <3>2, <3>3 DEF IInv, DrawnIds
    <3>6. FrameShape'
      BY <2>2, <2>4, OthersKeep DEF IInv, FrameShape
    <3>7. AwaitedCall' /\ ConfirmedIsClear' /\ CommitIsAlone'
      BY <2>2 DEF IInv, AwaitedCall, ConfirmedIsClear, Confirmed, Clear, CommitIsAlone
    <3>8. CommitOwned'
      <4>1. \A p \in DOMAIN pool : pool[p].kind = "commit" => pool[p].id # i
        BY <3>1 DEF IInv, DrawnIds
      <4> QED
        BY <2>2, <3>2, <3>3, <4>1 DEF IInv, CommitOwned
    <3> QED
      BY <1>0, <3>4, <3>5, <3>6, <3>7, <3>8 DEF IInv
  <2> QED
    BY <2>5, <2>6
<1>2. ASSUME NEW tx \in TableTx, NEW t \in Table, ha[c][t] # NoTx, tx.id = ha[c][t].id,
             ha' = [ha EXCEPT ![c][t] = tx], UNCHANGED <<turn, used, frame, pool>>
      PROVE  IInv'
  <2>1. Others(c)
    BY <1>0, <1>2 DEF Others, TypeOK
  <2>2. Live(c)' = Live(c) /\ \A u \in Live(c) : ha'[c][u].id = ha[c][u].id
    BY <1>0, <1>2, NoTxAssumption DEF Live, TypeOK
  <2>3. Ids(c)' = Ids(c)
    BY <1>2, <2>2 DEF Ids
  <2>4. Shape(c)' /\ Confirmed(c)'
    BY <1>0, <1>2 DEF Shape, Confirmed, Calling
  <2> QED
    BY <1>0, <1>2, <2>1, <2>3, <2>4, LocalStep
<1>3. ASSUME NEW t \in Table, WriteRow(c, t) \/ DeleteRow(c, t) PROVE IInv'
  <2> DEFINE op(b) == [tx |-> Current(c), deleteEntry |-> b]
  <2>0. CanWrite(c, t)
    BY <1>3 DEF WriteRow, DeleteRow
  <2>1. ha[c][t] \in TableTx /\ ha[c][t] # NoTx
    BY <1>0, <2>0 DEF CanWrite, TypeOK
  <2>5. op(FALSE) \in Op /\ op(TRUE) \in Op
    <3>1. Current(c) \in Tx
      BY <1>0, <2>0, CurrentType DEF CanWrite, CanIssue
    <3> QED
      BY <3>1 DEF Op
  <2>2. UNCHANGED <<turn, used, frame, pool>>
    BY <1>3 DEF WriteRow, DeleteRow, chain
  <2>3. \/ ha' = [ha EXCEPT ![c][t] = [ha[c][t] EXCEPT !.puts = Append(@, op(FALSE))]]
        \/ ha' = [ha EXCEPT ![c][t] = [ha[c][t] EXCEPT !.removes = Append(@, op(TRUE))]]
    BY <1>0, <1>3 DEF WriteRow, DeleteRow, TypeOK
  <2> HIDE DEF op
  <2>4. /\ [ha[c][t] EXCEPT !.puts = Append(@, op(FALSE))] \in TableTx
        /\ [ha[c][t] EXCEPT !.puts = Append(@, op(FALSE))].id = ha[c][t].id
        /\ [ha[c][t] EXCEPT !.removes = Append(@, op(TRUE))] \in TableTx
        /\ [ha[c][t] EXCEPT !.removes = Append(@, op(TRUE))].id = ha[c][t].id
    <3>1. ASSUME NEW o \in Op
          PROVE  /\ [ha[c][t] EXCEPT !.puts = Append(@, o)] \in TableTx
                 /\ [ha[c][t] EXCEPT !.puts = Append(@, o)].id = ha[c][t].id
                 /\ [ha[c][t] EXCEPT !.removes = Append(@, o)] \in TableTx
                 /\ [ha[c][t] EXCEPT !.removes = Append(@, o)].id = ha[c][t].id
      BY <2>1, AppendOp
    <3> QED
      BY <2>5, <3>1, Zenon
  <2> QED
    BY <1>2, <2>1, <2>2, <2>3, <2>4
<1>4. ASSUME turn' = [turn EXCEPT ![c] = @ + 1], DropAll(c) \/ UNCHANGED ha,
             UNCHANGED <<used, frame, pool>>
      PROVE  IInv'
  <2>1. Others(c) /\ Live(c)' \subseteq Live(c) /\ \A t \in Live(c)' : ha'[c][t].id = ha[c][t].id
    BY <1>0, <1>4, DropAllType DEF Others, Live, TypeOK
  <2>2. Ids(c)' \subseteq Ids(c)
    BY <1>4, <2>1 DEF Ids
  <2>3. Shape(c)' /\ Confirmed(c)'
    BY <1>0, <1>4 DEF Shape, Confirmed, Calling
  <2> QED
    BY <1>0, <1>4, <2>1, <2>2, <2>3, LocalStep
<1>5. CASE Rollback(c) \/ CommitUnregistered(c)
  BY <1>4, <1>5 DEF Rollback, CommitUnregistered, End, chain
<1>6. CASE BcCommit(c)
  <2>1. /\ frame' = [frame EXCEPT ![c] = [Idle EXCEPT !.pc = "tables", !.todo = Live(c)]]
        /\ UNCHANGED <<ha, turn, used, pool>> /\ turn[c] <= MaxTx
    BY <1>6 DEF BcCommit, session, chain, CanIssue
  <2>2. /\ frame'[c].pc = "tables" /\ frame'[c].todo = Live(c) /\ frame'[c].affected = {}
        /\ frame'[c].call = "none" /\ frame'[c].tx = NoTx
    BY <1>0, <2>1 DEF Idle, TypeOK
  <2>3. Others(c) /\ Live(c)' = Live(c)
    BY <1>0, <2>1 DEF Others, Live, TypeOK
  <2>4. Ids(c)' = Ids(c)
    BY <1>0, <2>1, <2>2, <2>3 DEF Ids
  <2>5. Shape(c)' /\ Confirmed(c)'
    BY <2>1, <2>2, <2>3 DEF Shape, Confirmed, Calling
  <2> QED
    BY <1>0, <2>1, <2>2, <2>3, <2>4, <2>5, LocalStep
<1> QED
  BY <1>1, <1>3, <1>5, <1>6 DEF Statement

\* A call joins the end of the pool: a request of the frame of c, or a lost
\* nonce.
LEMMA AppendCall ==
  ASSUME IInv, NEW c \in Conn, Others(c), Calling(c), frame[c].call = "none",
         NEW e \in Entry, pool' = Append(pool, e), UNCHANGED <<ha, used>>,
         frame'[c].pc = frame[c].pc, frame'[c].tx = frame[c].tx,
         \/ /\ e.by = c /\ e.kind # "hole" /\ e.id = frame[c].tx.id
            /\ e.kind = "commit" => frame[c].pc = "commit"
            /\ frame'[c].call = "sent"
         \/ e = Hole /\ frame'[c].call = "failed",
         TypeOK', Shape(c)'
  PROVE  IInv'
<1> USE DEF IInv
<1> DEFINE n == Len(pool) + 1
<1>1. /\ DOMAIN pool' = DOMAIN pool \cup {n} /\ n \notin DOMAIN pool
      /\ n \in DOMAIN pool' /\ pool'[n] = e
      /\ \A p \in DOMAIN pool : pool'[p] = pool[p] /\ p \in Nat /\ p < n
  BY DEF TypeOK
<1>2. n \in Nat
  BY DEF TypeOK
<1> HIDE DEF n
<1>3. \A d \in Conn : Ids(d)' = Ids(d)
  <2>1. Ids(c)' = Ids(c)
    BY DEF Ids, Live
  <2> QED
    BY <2>1, OthersKeep
<1>4. frame[c].tx # NoTx /\ frame[c].tx.id \in Ids(c) /\ frame[c].tx.id \in TxId
      /\ frame'[c].tx # NoTx
  BY DEF FrameShape, Shape, Ids, TypeOK, Frame, TableTx
<1>5. e = Hole => e.kind = "hole" /\ e.id = NoId /\ e.by = NoConn
  BY DEF Hole
<1>6. OneIdPerTransaction'
  BY <1>3 DEF OneIdPerTransaction
<1>7. DrawnIds'
  BY <1>1, <1>3, <1>4, <1>5 DEF DrawnIds
<1>8. FrameShape'
  BY OthersKeep DEF FrameShape
<1>9. \A d \in Conn : frame[d].call # "none" => frame[d].tx # NoTx /\ frame[d].tx.id \in Ids(d)
  <2>1. ASSUME NEW d \in Conn, frame[d].call # "none" PROVE frame[d].tx # NoTx
    BY <2>1 DEF FrameShape, Shape, Calling, TypeOK, Frame
  <2> QED
    BY <2>1 DEF Ids
<1>10. \A d \in Conn : d # c /\ frame[d].tx # NoTx =>
         frame[d].tx.id # e.id /\ frame'[d] = frame[d] /\ frame[d].tx.id \in TxId
  <2>1. ASSUME NEW d \in Conn, d # c, frame[d].tx # NoTx
        PROVE  frame[d].tx.id # frame[c].tx.id /\ frame[d].tx.id \in TxId
    <3>1. frame[d].tx.id \in Ids(d)
      BY <2>1 DEF Ids
    <3>2. frame[d].tx \in TableTx
      BY <2>1 DEF TypeOK, Frame
    <3> QED
      BY <1>4, <2>1, <3>1, <3>2 DEF OneIdPerTransaction, TableTx
  <2> QED
    BY <1>5, <2>1, NoIdAssumption DEF Others
<1>11. AwaitedCall'
  <2>1. ASSUME NEW d \in Conn, frame'[d].call = "sent"
        PROVE  \E p \in DOMAIN pool' :
                 /\ pool'[p].by = d
                 /\ \A q \in DOMAIN pool' : pool'[q].id = frame'[d].tx.id => q <= p
    <3>1. CASE d = c
      <4>1. \A q \in DOMAIN pool' : q <= n
        BY <1>1, <1>2
      <4> QED
        BY <1>1, <1>2, <2>1, <3>1, <4>1
    <3>2. CASE d # c
      <4>1. frame'[d] = frame[d] /\ frame[d].call = "sent"
        BY <2>1, <3>2 DEF Others
      <4>2. PICK p \in DOMAIN pool :
              /\ pool[p].by = d
              /\ \A q \in DOMAIN pool : pool[q].id = frame[d].tx.id => q <= p
        BY <4>1 DEF AwaitedCall
      <4> QED
        BY <1>1, <1>9, <1>10, <3>2, <4>1, <4>2
    <3> QED
      BY <3>1, <3>2
  <2>2. \A p \in DOMAIN pool : pool[p].by # c
    BY DEF AwaitedCall
  <2>3. \A p, q \in DOMAIN pool' : pool'[p].by \in Conn /\ pool'[q].by = pool'[p].by => p = q
    BY <1>1, <1>5, <2>2, NoConnAssumption DEF AwaitedCall
  <2>4. \A p \in DOMAIN pool' : pool'[p].by \in Conn => frame'[pool'[p].by].call = "sent"
    BY <1>1, <1>5, <2>2, NoConnAssumption DEF AwaitedCall, Others
  <2> QED
    BY <2>1, <2>3, <2>4 DEF AwaitedCall
<1>12. ConfirmedIsClear'
  <2>1. ASSUME NEW d \in Conn, d # c PROVE Confirmed(d)'
    <3>1. frame'[d] = frame[d]
      BY <2>1 DEF Others
    <3>2. frame[d].tx # NoTx /\ Clear(frame[d].tx.id) => Clear(frame[d].tx.id)'
      BY <1>1, <1>10, <2>1, <3>1 DEF Clear
    <3> QED
      BY <1>9, <3>1, <3>2 DEF ConfirmedIsClear, Confirmed
  <2>2. Confirmed(c)'
    BY DEF Confirmed
  <2> QED
    BY <2>1, <2>2 DEF ConfirmedIsClear
<1>13. \A p \in DOMAIN pool : pool[p].kind = "commit" => pool[p].id # frame[c].tx.id
  BY <1>4 DEF CommitOwned
<1>14. CommitOwned'
  <2>1. ASSUME NEW p \in DOMAIN pool', pool'[p].kind = "commit", NEW d \in Conn,
               pool'[p].id \in Ids(d)'
        PROVE  frame'[d].pc = "commit" /\ frame'[d].call # "none"
    <3>1. CASE p \in DOMAIN pool
      BY <1>1, <1>3, <2>1, <3>1 DEF CommitOwned, Others
    <3>2. CASE p = n
      <4>1. pool'[p] = e /\ e.kind = "commit" /\ e.id = frame[c].tx.id
            /\ frame[c].pc = "commit" /\ frame'[c].call = "sent"
        BY <1>1, <1>5, <2>1, <3>2
      <4>2. d = c
        BY <1>3, <1>4, <2>1, <4>1 DEF OneIdPerTransaction
      <4> QED
        BY <4>1, <4>2
    <3> QED
      BY <1>1, <3>1, <3>2
  <2> QED
    BY <2>1 DEF CommitOwned
<1>15. CommitIsAlone'
  <2>1. e.kind = "commit" => e.id = frame[c].tx.id /\ Clear(e.id)
    BY <1>4, <1>5 DEF ConfirmedIsClear, Confirmed
  <2>2. ASSUME NEW p \in DOMAIN pool', NEW q \in DOMAIN pool',
               pool'[p].kind = "commit", pool'[q].id = pool'[p].id
        PROVE  p = q
    <3>1. CASE p \in DOMAIN pool /\ q \in DOMAIN pool
      BY <1>1, <2>2, <3>1 DEF CommitIsAlone
    <3>2. CASE p \in DOMAIN pool /\ q = n
      <4>1. pool[p].kind = "commit" /\ pool[p].id = e.id
        BY <1>1, <2>2, <3>2
      <4>2. pool[p].id \in TxId
        BY <4>1, <3>2 DEF DrawnIds, TypeOK
      <4>3. e.id # NoId
        BY <4>1, <4>2, NoIdAssumption
      <4> QED
        BY <1>5, <1>13, <3>2, <4>1, <4>3
    <3>3. CASE p = n /\ q \in DOMAIN pool
      BY <1>1, <2>1, <2>2, <3>3 DEF Clear
    <3> QED
      BY <1>1, <3>1, <3>2, <3>3
  <2> QED
    BY <2>2 DEF CommitIsAlone
<1> QED
  BY <1>6, <1>7, <1>8, <1>11, <1>12, <1>14, <1>15

\* A step whose frame is the only thing to change.
LEMMA FrameStep ==
  ASSUME IInv, NEW c \in Conn, NEW r \in Frame, frame' = [frame EXCEPT ![c] = r],
         UNCHANGED <<ha, used, turn, pool>>,
         r.tx = frame[c].tx, frame[c].pc # "idle", r.pc # "idle",
         frame[c].call # "sent", r.call # "sent",
         frame[c].pc # "commit" \/ frame[c].call = "none",
         TypeOK', Shape(c)', Confirmed(c)'
  PROVE  IInv'
<1>1. Others(c) /\ frame'[c] = r
  BY DEF Others, IInv, TypeOK
<1>2. Ids(c)' = Ids(c)
  BY <1>1 DEF Ids, Live
<1> QED
  BY <1>1, <1>2, LocalStep

LEMMA StepKeeps ==
  ASSUME IInv, NEW c \in Conn, Step(c)
  PROVE  IInv'
<1> DEFINE f == frame[c]
<1>0. /\ TypeOK /\ TypeOK' /\ f \in Frame /\ Shape(c) /\ Confirmed(c)
      /\ frame \in [Conn -> Frame] /\ ha \in [Conn -> [Table -> TableTx \cup {NoTx}]]
  BY TypeStep DEF IInv, TypeOK, FrameShape, ConfirmedIsClear
<1>1. ASSUME NEW t \in Table, NextTable(c, t) PROVE IInv'
  <2> DEFINE tx == ha[c][t]
             g  == [f EXCEPT !.todo = @ \ {t}]
             r  == IF IsReadOnly(tx) THEN g
                   ELSE [g EXCEPT !.affected = @ \cup {t}, !.cur = {t}, !.tx = tx, !.ok = TRUE,
                                  !.pc = IF tx.puts # << >> THEN "puts" ELSE "removes"]
  <2>1. /\ ha' = [ha EXCEPT ![c][t] = NoTx] /\ frame' = [frame EXCEPT ![c] = r]
        /\ UNCHANGED <<turn, used, pool>> /\ f.pc = "tables" /\ t \in f.todo
    BY <1>1 DEF NextTable, chain
  <2>2. /\ r.todo = f.todo \ {t} /\ r.call = "none"
        /\ \/ r.pc = "tables" /\ r.tx = f.tx /\ r.affected = f.affected
           \/ r.pc \in {"puts", "removes"} /\ r.tx = tx /\ r.cur = {t}
    <3>1. f.call = "none"
      BY <1>0, <2>1 DEF Shape
    <3> QED
      BY <1>0, <2>1, <3>1 DEF Frame
  <2>3. f.call = "none" /\ Live(c) = f.todo /\ turn[c] <= MaxTx /\ tx # NoTx
    BY <1>0, <2>1 DEF Shape, Live
  <2>4. frame'[c] = r
    BY <1>0, <2>1
  <2> HIDE DEF r
  <2>5. Others(c) /\ Live(c)' = Live(c) \ {t} /\ \A u \in Live(c)' : ha'[c][u] = ha[c][u]
    BY <1>0, <2>1 DEF Others, Live
  <2>6. Ids(c)' \subseteq Ids(c)
    BY <2>2, <2>3, <2>4, <2>5 DEF Ids, Live
  <2>7. Shape(c)'
    BY <1>0, <2>1, <2>2, <2>3, <2>4, <2>5 DEF Shape, Calling
  <2>8. Confirmed(c)'
    BY <1>0, <2>1, <2>2, <2>3, <2>4 DEF Confirmed, Clear
  <2> QED
    BY <1>0, <2>1, <2>2, <2>3, <2>4, <2>5, <2>6, <2>7, <2>8, LocalStep
<1>2. ASSUME frame' = [frame EXCEPT ![c] = Idle], UNCHANGED <<used, pool>>,
             turn' = [turn EXCEPT ![c] = @ + 1], DropAll(c) \/ UNCHANGED ha,
             f.call # "sent", f.pc # "commit" \/ Live(c) = {}
      PROVE  IInv'
  <2>1. Others(c) /\ Live(c)' \subseteq Live(c) /\ \A t \in Live(c)' : ha'[c][t] = ha[c][t]
    BY <1>0, <1>2, DropAllType DEF Others, Live, TypeOK
  <2>2. frame'[c] = Idle
    BY <1>0, <1>2
  <2> QED
    BY <1>0, <1>2, <2>1, <2>2, IdleStep
<1>3. CASE NothingToCommit(c)
  BY <1>0, <1>2, <1>3 DEF NothingToCommit, End, chain, Shape
<1>4. CASE AllPrepared(c)
  <2> DEFINE r == [f EXCEPT !.pc = "commit", !.cur = f.affected]
  <2>1. /\ frame' = [frame EXCEPT ![c] = r] /\ UNCHANGED <<ha, turn, used, pool>>
        /\ f.pc = "tables" /\ f.todo = {} /\ f.affected # {}
    BY <1>0, <1>4 DEF AllPrepared, session, chain
  <2>2. r \in Frame /\ r.pc = "commit" /\ r.call = f.call /\ r.tx = f.tx
    <3>1. r \in Frame
      BY <1>0, FrameFields
    <3> QED
      BY <1>0, <3>1 DEF Frame
  <2>3. f.call = "none" /\ f.tx # NoTx /\ Live(c) = {} /\ turn[c] <= MaxTx
    BY <1>0, <2>1 DEF Shape
  <2>4. frame'[c] = r
    BY <1>0, <2>1
  <2> HIDE DEF r
  <2>5. Shape(c)'
    BY <2>1, <2>2, <2>3, <2>4 DEF Shape, Calling, Live
  <2>6. Confirmed(c)'
    BY <1>0, <2>1, <2>2, <2>3, <2>4 DEF Confirmed, Clear
  <2> QED
    BY <1>0, <2>1, <2>2, <2>3, <2>5, <2>6, FrameStep
<1>5. ASSUME NEW S \in Targets(f), NEW k \in {"sent", "failed"}, AfterSend(c, S, k),
             Calling(c), UNCHANGED session
      PROVE  /\ Others(c) /\ Shape(c)'
             /\ frame'[c].pc = f.pc /\ frame'[c].tx = f.tx /\ frame'[c].call = k
  <2> DEFINE r == [f EXCEPT !.todo = @ \ S, !.call = k]
  <2>1. frame' = [frame EXCEPT ![c] = r]
    BY <1>0, <1>5 DEF AfterSend
  <2>2. /\ r.todo = f.todo \ S /\ r.call = k /\ r.pc = f.pc /\ r.tx = f.tx /\ r.cur = f.cur
        /\ r.affected = f.affected
    BY <1>0 DEF Frame
  <2>3. f.pc \in {"puts", "removes"} => f.todo \ S = f.todo
    BY <1>0, <1>5 DEF Shape, Targets
  <2>4. frame'[c] = r /\ Others(c) /\ Live(c)' = Live(c) /\ turn' = turn
    BY <1>0, <1>5, <2>1 DEF Others, Live, session
  <2> HIDE DEF r
  <2>5. Shape(c)'
    BY <1>0, <1>5, <2>2, <2>3, <2>4 DEF Shape, Calling
  <2> QED
    BY <2>2, <2>4, <2>5
<1>6. CASE Send(c)
  <2>1. PICK S \in Targets(f) : pool' = Append(pool, Request(c, S)) /\ AfterSend(c, S, "sent")
    BY <1>6 DEF Send
  <2>2. Calling(c) /\ f.call = "none" /\ f.tx # NoTx /\ UNCHANGED session
    BY <1>0, <1>6 DEF Send, Shape
  <2>3. S \in SUBSET Table
    BY <1>0, TargetsType
  <2>4. /\ Request(c, S) \in Entry /\ Request(c, S).by = c
        /\ Request(c, S).id = f.tx.id
        /\ Request(c, S).kind = "commit" => f.pc = "commit"
        /\ Request(c, S).kind # "hole"
    <3>1. Request(c, S).kind \in {"batch", "clean", "commit"}
      BY DEF Request
    <3> QED
      BY <1>0, <2>2, <2>3, <3>1, RequestType
  <2>5. /\ Others(c) /\ Shape(c)'
        /\ frame'[c].pc = f.pc /\ frame'[c].tx = f.tx /\ frame'[c].call = "sent"
    BY <1>5, <2>1, <2>2
  <2> DEFINE e == Request(c, S)
  <2> HIDE DEF e
  <2>6. UNCHANGED <<ha, used>>
    BY <2>2 DEF session
  <2> QED
    BY <1>0, <2>1, <2>2, <2>4, <2>5, <2>6, AppendCall DEF e
<1>7. CASE SendFails(c)
  <2>1. PICK S \in Targets(f) : AfterSend(c, S, "failed")
    BY <1>7 DEF SendFails
  <2>2. Calling(c) /\ f.call = "none" /\ UNCHANGED session /\ UNCHANGED <<ha, used, turn>>
    BY <1>7 DEF SendFails, session
  <2>3. /\ Others(c) /\ Shape(c)'
        /\ frame'[c].pc = f.pc /\ frame'[c].tx = f.tx /\ frame'[c].call = "failed"
    BY <1>5, <2>1, <2>2
  <2>4. CASE pool' = Append(pool, Hole)
    BY <1>0, <2>2, <2>3, <2>4, HoleType, AppendCall
  <2>5. CASE pool' = pool
    <3>1. Ids(c)' = Ids(c)
      BY <2>2, <2>3 DEF Ids, Live
    <3>2. Confirmed(c)'
      BY <2>3 DEF Confirmed
    <3> QED
      BY <1>0, <2>2, <2>3, <2>5, <3>1, <3>2, LocalStep
  <2> QED
    BY <1>7, <2>4, <2>5 DEF SendFails
<1>8. CASE TimeOut(c)
  <2> DEFINE r == [f EXCEPT !.call = "failed"]
  <2>1. /\ frame' = [frame EXCEPT ![c] = r] /\ ForgetCalls({c}) /\ UNCHANGED <<ha, turn, used>>
        /\ f.call # "none"
    BY <1>0, <1>8 DEF TimeOut, session
  <2>2. r.call = "failed" /\ r.pc = f.pc /\ r.tx = f.tx /\ r.todo = f.todo /\ r.cur = f.cur
        /\ r.affected = f.affected
    BY <1>0 DEF Frame
  <2>3. frame'[c] = r /\ Others(c)
    BY <1>0, <2>1 DEF Others
  <2> HIDE DEF r
  <2>4. /\ DOMAIN pool' = DOMAIN pool
        /\ \A p \in DOMAIN pool :
             /\ pool'[p].id = pool[p].id /\ pool'[p].kind = pool[p].kind
             /\ pool'[p].by = IF pool[p].by = c THEN NoConn ELSE pool[p].by
    BY <1>0, <2>1, ForgetType
  <2>5. \A d \in Conn : Ids(d)' = Ids(d)
    <3>1. Ids(c)' = Ids(c)
      BY <2>1, <2>2, <2>3 DEF Ids, Live
    <3> QED
      BY <2>3, <3>1, OthersKeep
  <2>6. OneIdPerTransaction' /\ DrawnIds' /\ CommitIsAlone'
    BY <2>1, <2>4, <2>5 DEF IInv, OneIdPerTransaction, DrawnIds, CommitIsAlone
  <2>7. Shape(c)'
    BY <1>0, <2>1, <2>2, <2>3 DEF Shape, Calling, Live
  <2>8. FrameShape'
    BY <2>3, <2>7, OthersKeep DEF IInv, FrameShape
  <2>9. AwaitedCall'
    BY <2>2, <2>3, <2>4, NoConnAssumption DEF IInv, AwaitedCall, Others
  <2>10. ConfirmedIsClear'
    <3>1. \A i : Clear(i)' <=> Clear(i)
      BY <2>4 DEF Clear
    <3>2. Confirmed(c)'
      BY <2>2, <2>3 DEF Confirmed
    <3>3. ASSUME NEW d \in Conn, d # c PROVE Confirmed(d)'
      <4>1. frame'[d] = frame[d] /\ Confirmed(d)
        BY <2>3, <3>3 DEF Others, IInv, ConfirmedIsClear
      <4> QED
        BY <2>4, <4>1 DEF Confirmed, Clear
    <3> QED
      BY <3>2, <3>3 DEF ConfirmedIsClear
  <2>11. CommitOwned'
    BY <2>1, <2>2, <2>3, <2>4, <2>5 DEF IInv, CommitOwned, Others
  <2> QED
    BY <1>0, <2>6, <2>8, <2>9, <2>10, <2>11 DEF IInv
<1>9. ASSUME NEW k \in BOOLEAN, k => f.call = "mined", f.call \in {"mined", "failed"},
             f.pc \in {"puts", "removes"}, frame' = [frame EXCEPT ![c] = Judge(f, k)],
             UNCHANGED <<session, chain>>
      PROVE  IInv'
  <2> DEFINE r == Judge(f, k)
  <2>1. /\ r \in Frame /\ r.tx = f.tx /\ r.call = "none" /\ r.affected = f.affected
        /\ IF k THEN r.pc = "tables" /\ r.todo = f.todo ELSE r.pc = "undo"
    <3>1. r \in Frame
      BY <1>0, FrameFields
    <3> QED
      BY <1>0, <3>1 DEF Judge, Frame
  <2>2. frame'[c] = r /\ UNCHANGED <<ha, used, turn, pool>>
    BY <1>0, <1>9 DEF session, chain
  <2> HIDE DEF r
  <2>3. Live(c)' = Live(c) /\ f.tx # NoTx /\ turn[c] <= MaxTx /\ Live(c) = f.todo
    BY <1>0, <1>9, <2>2 DEF Live, Shape, Calling
  <2>4. Shape(c)'
    BY <2>1, <2>2, <2>3 DEF Shape, Calling
  <2>5. Confirmed(c)'
    BY <1>0, <1>9, <2>1, <2>2 DEF Confirmed, Clear
  <2> QED
    BY <1>0, <1>9, <2>1, <2>2, <2>4, <2>5, FrameStep DEF r
<1>10. CASE PutsReturned(c)
  <2>1. f.pc = "puts" /\ f.call \in {"mined", "failed"} /\ UNCHANGED <<session, chain>>
    BY <1>10 DEF PutsReturned, Answered
  <2>2. CASE f.tx.removes = << >>
    BY <1>9, <1>10, <2>1, <2>2 DEF PutsReturned
  <2>3. CASE f.tx.removes # << >>
    <3> DEFINE k == f.call = "mined"
               r == [f EXCEPT !.pc = "removes", !.ok = k, !.call = "none"]
    <3>1. frame' = [frame EXCEPT ![c] = r]
      BY <1>10, <2>3 DEF PutsReturned
    <3>2. /\ r \in Frame /\ r.tx = f.tx /\ r.call = "none" /\ r.pc = "removes"
          /\ r.todo = f.todo /\ r.cur = f.cur
      <4>1. k \in BOOLEAN
        OBVIOUS
      <4> HIDE DEF k
      <4>2. r \in Frame
        BY <1>0, <4>1, FrameFields
      <4> QED
        BY <1>0, <4>2 DEF Frame
    <3>3. frame'[c] = r /\ UNCHANGED <<ha, used, turn, pool>>
      BY <1>0, <2>1, <3>1 DEF session, chain
    <3> HIDE DEF r
    <3>4. Live(c)' = Live(c)
      BY <3>3 DEF Live
    <3>5. Shape(c)'
      BY <1>0, <2>1, <3>2, <3>3, <3>4 DEF Shape, Calling
    <3>6. Confirmed(c)'
      BY <3>2, <3>3 DEF Confirmed
    <3> QED
      BY <1>0, <2>1, <3>1, <3>2, <3>3, <3>5, <3>6, FrameStep
  <2> QED
    BY <2>2, <2>3
<1>11. CASE RemovesReturned(c)
  <2> DEFINE k == f.ok /\ f.call = "mined"
  <2>1. k \in BOOLEAN /\ (k => f.call = "mined")
    BY <1>0 DEF Frame
  <2>2. /\ f.pc = "removes" /\ f.call \in {"mined", "failed"} /\ UNCHANGED <<session, chain>>
        /\ frame' = [frame EXCEPT ![c] = Judge(f, k)]
    BY <1>11 DEF RemovesReturned, Answered
  <2> HIDE DEF k
  <2> QED
    BY <1>9, <2>1, <2>2
<1>12. CASE CleanReturned(c)
  <2> DEFINE r == [f EXCEPT !.call = "none"]
  <2>1. /\ frame' = [frame EXCEPT ![c] = r] /\ UNCHANGED <<ha, used, turn, pool>>
        /\ f.pc = "undo" /\ f.call \in {"mined", "failed"}
    BY <1>0, <1>12 DEF CleanReturned, Answered, session, chain
  <2>2. r \in Frame /\ r.pc = "undo" /\ r.tx = f.tx /\ r.call = "none"
    <3>1. r \in Frame
      BY <1>0, FrameFields
    <3> QED
      BY <1>0, <2>1, <3>1 DEF Frame
  <2>3. frame'[c] = r
    BY <1>0, <2>1
  <2> HIDE DEF r
  <2>4. Shape(c)' /\ Confirmed(c)'
    BY <1>0, <2>1, <2>2, <2>3 DEF Shape, Calling, Confirmed
  <2> QED
    BY <1>0, <2>1, <2>2, <2>4, FrameStep
<1>13. CASE PrepareFailed(c)
  <2>1. f.call # "sent" /\ f.pc = "undo" /\ (DropAll(c) \/ UNCHANGED ha)
    BY <1>13 DEF PrepareFailed, Answered
  <2> QED
    BY <1>2, <1>13, <2>1 DEF PrepareFailed, End, chain
<1>14. CASE CommitReturned(c)
  <2>1. f.call # "sent" /\ Live(c) = {}
    BY <1>0, <1>14 DEF CommitReturned, Answered, Shape
  <2> QED
    BY <1>2, <1>14, <2>1 DEF CommitReturned, End, chain
<1> QED
  BY <1>1, <1>3, <1>4, <1>6, <1>7, <1>8, <1>10, <1>11, <1>12, <1>13, <1>14 DEF Step

\* The chain confirms the call at the front of the pool.
LEMMA MineKeeps ==
  ASSUME IInv, Mine \/ Revert
  PROVE  IInv'
<1> DEFINE e == Head(pool)
<1>1. /\ TypeOK /\ TypeOK' /\ UNCHANGED <<ha, turn, used>>
      /\ pool # << >> /\ pool' = Tail(pool) /\ frame' = Tell(e)
  BY TypeMine DEF IInv, Mine, Revert, session
<1>2. /\ e \in Entry /\ e = pool[1] /\ 1 \in DOMAIN pool
      /\ \A p \in DOMAIN pool' : p + 1 \in DOMAIN pool /\ pool'[p] = pool[p + 1]
                                 /\ p \in Nat /\ p + 1 # 1
      /\ \A p \in DOMAIN pool : p # 1 => p - 1 \in DOMAIN pool' /\ pool'[p - 1] = pool[p]
  BY <1>1, PoolTail DEF TypeOK
<1>3. \A p \in DOMAIN pool : p \in Nat /\ p >= 1
  BY <1>1 DEF TypeOK
<1> HIDE DEF e
<1>4. \A d \in Conn :
        /\ frame'[d].pc = frame[d].pc /\ frame'[d].tx = frame[d].tx
        /\ frame'[d].todo = frame[d].todo /\ frame'[d].affected = frame[d].affected
        /\ frame'[d].cur = frame[d].cur
        /\ IF d = e.by THEN frame'[d].call = "mined" /\ frame[d].call = "sent"
                       ELSE frame'[d] = frame[d]
  <2>1. \A d \in Conn : frame'[d] = IF d = e.by THEN [frame[d] EXCEPT !.call = "mined"]
                                                ELSE frame[d]
    BY <1>1, <1>2, TellType
  <2>2. \A d \in Conn : d = e.by => frame[d].call = "sent"
    BY <1>2 DEF IInv, AwaitedCall
  <2>3. ASSUME NEW d \in Conn, d = e.by
        PROVE  /\ frame'[d].pc = frame[d].pc /\ frame'[d].tx = frame[d].tx
               /\ frame'[d].todo = frame[d].todo /\ frame'[d].affected = frame[d].affected
               /\ frame'[d].cur = frame[d].cur /\ frame'[d].call = "mined"
    <3>1. frame[d] \in Frame
      BY <1>1 DEF TypeOK
    <3>2. frame'[d] = [frame[d] EXCEPT !.call = "mined"]
      BY <2>1, <2>3
    <3> QED
      BY <3>1, <3>2 DEF Frame
  <2>4. \A d \in Conn : d # e.by => frame'[d] = frame[d]
    BY <2>1
  <2> QED
    BY <2>2, <2>3, <2>4
<1>5. \A d \in Conn : Live(d)' = Live(d) /\ Ids(d)' = Ids(d)
  BY <1>1, <1>4 DEF Live, Ids
<1>6. OneIdPerTransaction'
  BY <1>5 DEF IInv, OneIdPerTransaction
<1>7. DrawnIds'
  BY <1>1, <1>2, <1>5 DEF IInv, DrawnIds
<1>8. FrameShape'
  <2>1. ASSUME NEW d \in Conn PROVE Shape(d)'
    <3>1. Shape(d) /\ turn' = turn /\ Live(d)' = Live(d)
      BY <1>1, <1>5 DEF IInv, FrameShape
    <3>2. frame[d].pc \in {"idle", "tables"} => d # e.by
      BY <1>4, <3>1 DEF Shape
    <3> QED
      BY <1>4, <3>1, <3>2 DEF Shape, Calling
  <2> QED
    BY <2>1 DEF FrameShape
<1>9. AwaitedCall'
  <2>1. ASSUME NEW d \in Conn, frame'[d].call = "sent"
        PROVE  \E p \in DOMAIN pool' :
                 /\ pool'[p].by = d
                 /\ \A q \in DOMAIN pool' : pool'[q].id = frame'[d].tx.id => q <= p
    <3>1. d # e.by /\ frame'[d] = frame[d]
      BY <1>4, <2>1
    <3>2. PICK p \in DOMAIN pool :
            /\ pool[p].by = d
            /\ \A q \in DOMAIN pool : pool[q].id = frame[d].tx.id => q <= p
      BY <2>1, <3>1 DEF IInv, AwaitedCall
    <3>3. p # 1
      BY <1>2, <3>1, <3>2
    <3>4. p - 1 \in DOMAIN pool' /\ pool'[p - 1].by = d
      BY <1>2, <3>2, <3>3
    <3>5. \A q \in DOMAIN pool' : pool'[q].id = frame'[d].tx.id => q <= p - 1
      BY <1>2, <1>3, <3>1, <3>2
    <3> QED
      BY <3>4, <3>5
  <2>2. ASSUME NEW p \in DOMAIN pool', pool'[p].by \in Conn
        PROVE  /\ pool'[p].by # e.by /\ frame'[pool'[p].by].call = "sent"
               /\ \A q \in DOMAIN pool' : pool'[q].by = pool'[p].by => p = q
    <3>1. \A i, j \in DOMAIN pool : pool[i].by \in Conn /\ pool[j].by = pool[i].by => i = j
      BY DEF IInv, AwaitedCall
    <3>2. pool'[p].by # e.by
      BY <1>2, <2>2, <3>1
    <3>3. frame[pool'[p].by].call = "sent"
      BY <1>2, <2>2 DEF IInv, AwaitedCall
    <3>4. ASSUME NEW q \in DOMAIN pool', pool'[q].by = pool'[p].by PROVE p = q
      <4>1. p + 1 = q + 1 /\ p \in Nat /\ q \in Nat
        BY <1>2, <2>2, <3>1, <3>4
      <4> QED
        BY <4>1
    <3> QED
      BY <1>4, <2>2, <3>2, <3>3, <3>4
  <2> QED
    BY <2>1, <2>2 DEF AwaitedCall
<1>10. ConfirmedIsClear'
  <2>1. \A i : Clear(i) => Clear(i)'
    BY <1>2 DEF Clear
  <2>2. ASSUME NEW d \in Conn, d = e.by PROVE Confirmed(d)'
    <3>1. frame[d].call = "sent" /\ frame'[d].call = "mined" /\ frame'[d].tx = frame[d].tx
      BY <1>4, <2>2
    <3>2. PICK p \in DOMAIN pool :
            /\ pool[p].by = d
            /\ \A q \in DOMAIN pool : pool[q].id = frame[d].tx.id => q <= p
      BY <3>1 DEF IInv, AwaitedCall
    <3>3. p = 1
      BY <1>2, <2>2, <3>2 DEF IInv, AwaitedCall
    <3>4. \A q \in DOMAIN pool' : pool'[q].id # frame'[d].tx.id
      BY <1>2, <3>1, <3>2, <3>3
    <3> QED
      BY <3>1, <3>4 DEF Confirmed, Clear
  <2>3. ASSUME NEW d \in Conn, d # e.by PROVE Confirmed(d)'
    <3>1. frame'[d] = frame[d] /\ Confirmed(d)
      BY <1>4, <2>3 DEF IInv, ConfirmedIsClear
    <3>2. Clear(frame[d].tx.id) => Clear(frame[d].tx.id)'
      BY <1>2, <3>1 DEF Clear
    <3> QED
      BY <3>1, <3>2 DEF Confirmed
  <2> QED
    BY <2>2, <2>3 DEF ConfirmedIsClear
<1>11. CommitOwned'
  <2>1. ASSUME NEW p \in DOMAIN pool', pool'[p].kind = "commit", NEW d \in Conn,
               pool'[p].id \in Ids(d)'
        PROVE  frame'[d].pc = "commit" /\ frame'[d].call # "none"
    <3>1. frame[d].pc = "commit" /\ frame[d].call # "none"
      BY <1>2, <1>5, <2>1 DEF IInv, CommitOwned
    <3> QED
      BY <1>4, <3>1
  <2> QED
    BY <2>1 DEF CommitOwned
<1>12. CommitIsAlone'
  <2>1. ASSUME NEW p \in DOMAIN pool', NEW q \in DOMAIN pool',
               pool'[p].kind = "commit", pool'[q].id = pool'[p].id
        PROVE  p = q
    <3>1. p + 1 = q + 1 /\ p \in Nat /\ q \in Nat
      BY <1>2, <2>1 DEF IInv, CommitIsAlone
    <3> QED
      BY <3>1
  <2> QED
    BY <2>1 DEF CommitIsAlone
<1> QED
  BY <1>1, <1>6, <1>7, <1>8, <1>9, <1>10, <1>11, <1>12 DEF IInv

LEMMA CrashKeeps ==
  ASSUME IInv, Crash
  PROVE  IInv'
<1>1. /\ TypeOK /\ TypeOK' /\ used' = used
      /\ \A c \in Conn : frame'[c] = Idle /\ \A t \in Table : ha'[c][t] = NoTx
  BY TypeCrash DEF IInv, Crash
<1>2. /\ DOMAIN pool' = DOMAIN pool
      /\ \A p \in DOMAIN pool :
           /\ pool'[p].id = pool[p].id /\ pool'[p].kind = pool[p].kind
           /\ pool'[p].by = IF pool[p].by \in Conn THEN NoConn ELSE pool[p].by
  BY <1>1, ForgetType DEF Crash
<1>3. \A c \in Conn : Live(c)' = {} /\ Ids(c)' = {} /\ Shape(c)' /\ Confirmed(c)'
  <2>1. \A c \in Conn : Live(c)' = {}
    BY <1>1 DEF Live
  <2> QED
    BY <1>1, <2>1, IdleType DEF Ids, Shape, Confirmed, Calling
<1>4. OneIdPerTransaction' /\ FrameShape' /\ ConfirmedIsClear' /\ CommitOwned'
  BY <1>3 DEF OneIdPerTransaction, FrameShape, ConfirmedIsClear, CommitOwned
<1>5. DrawnIds' /\ CommitIsAlone'
  BY <1>1, <1>2, <1>3 DEF IInv, DrawnIds, CommitIsAlone
<1>6. AwaitedCall'
  BY <1>1, <1>2, IdleType, NoConnAssumption DEF AwaitedCall
<1> QED
  BY <1>1, <1>4, <1>5, <1>6 DEF IInv

-----------------------------------------------------------------------------
(***************************************************************************)
(* The theorems.                                                           *)
(***************************************************************************)
LEMMA InitInv == Init => IInv
<1> SUFFICES ASSUME Init PROVE IInv
  OBVIOUS
<1>1. TypeOK
  <2>1. << >> \in Seq(Op) /\ << >> \in Seq(Entry) /\ 1 \in 1..(MaxTx + 1) /\ "none" \in Answers
    BY BoundAssumption DEF Answers
  <2>2. NoWork \in [puts : Seq(Op), removes : Seq(Op)]
    BY <2>1 DEF NoWork
  <2> QED
    BY <2>1, <2>2, IdleType DEF Init, TypeOK
<1>2. \A c \in Conn : Live(c) = {} /\ frame[c] = Idle
  BY DEF Init, Live
<1>3. \A c \in Conn : Ids(c) = {} /\ Shape(c) /\ Confirmed(c)
  BY <1>2, IdleType DEF Ids, Shape, Confirmed, Calling
<1>4. DOMAIN pool = {}
  BY DEF Init
<1> QED
  BY <1>1, <1>2, <1>3, <1>4, IdleType
  DEF IInv, OneIdPerTransaction, DrawnIds, FrameShape, AwaitedCall, ConfirmedIsClear,
      CommitOwned, CommitIsAlone

LEMMA NextInv == IInv /\ [Next]_vars => IInv'
<1> SUFFICES ASSUME IInv, [Next]_vars PROVE IInv'
  OBVIOUS
<1>1. CASE UNCHANGED vars
  <2>1. UNCHANGED <<ha, turn, used, frame, pool>> /\ TypeOK'
    BY <1>1, TypeNext DEF vars, session, chain, client
  <2>2. \A c \in Conn : Live(c)' = Live(c)
    BY <2>1 DEF Live
  <2>3. \A c \in Conn : Ids(c)' = Ids(c)
    BY <2>1, <2>2 DEF Ids
  <2>4. OneIdPerTransaction' /\ DrawnIds' /\ CommitOwned' /\ CommitIsAlone'
    BY <2>1, <2>3 DEF IInv, OneIdPerTransaction, DrawnIds, CommitOwned, CommitIsAlone
  <2>5. FrameShape'
    BY <2>1, <2>2 DEF IInv, FrameShape, Shape, Calling
  <2>6. AwaitedCall' /\ ConfirmedIsClear'
    BY <2>1 DEF IInv, AwaitedCall, ConfirmedIsClear, Confirmed, Clear
  <2> QED
    BY <2>1, <2>4, <2>5, <2>6 DEF IInv
<1>2. CASE Next
  BY <1>2, StatementKeeps, StepKeeps, MineKeeps, CrashKeeps DEF Next
<1> QED
  BY <1>1, <1>2

\* The strengthening that the invariants below rest on holds in every
\* reachable state: identifiers, frames, awaited calls and waiting commits of
\* ha_blockchain.cc and ethereum.cpp fit together as IInv says.
THEOREM InductiveInvariant == Spec => []IInv
BY InitInv, NextInv, PTL DEF Spec

\* Types are right: in particular a frame never makes a call without a table
\* transaction at hand, and no block applies a commit without an identifier.
THEOREM TypeCorrect == Spec => []TypeOK
<1>1. IInv => TypeOK
  BY DEF IInv
<1> QED
  BY <1>1, InductiveInvariant, PTL

\* One identifier per transaction and none shared, although each table draws
\* or copies its own in the constructor of BlockchainTableTx.
THEOREM OneId == Spec => []OneIdPerTransaction
<1>1. IInv => OneIdPerTransaction
  BY DEF IInv
<1> QED
  BY <1>1, InductiveInvariant, PTL

\* A waiting commit is the only waiting call of its transaction, whatever was
\* lost, reverted, given up or forgotten in a crash before.
THEOREM CommitAlone == Spec => []CommitIsAlone
<1>1. IInv => CommitIsAlone
  BY DEF IInv
<1> QED
  BY <1>1, InductiveInvariant, PTL

-----------------------------------------------------------------------------
(***************************************************************************)
(* Table transactions that the core does not know of.                      *)
(***************************************************************************)
\* What a step may do: it orphans nothing, unless it returns from inside the loop
\* to a core that does not roll back.
NoneOrphaned ==
  \A c \in Conn : Orphaned(c)' => Orphaned(c) \/ (frame[c].pc = "undo" /\ ~CoreRollsBack)

\* A step that adds no table transaction and does not return from bc_commit.
LEMMA RegisteredStays ==
  ASSUME registered' = registered,
         \A c \in Conn : frame'[c].pc = "idle" => frame[c].pc = "idle" /\ Live(c)' \subseteq Live(c)
  PROVE  NoneOrphaned
BY DEF NoneOrphaned, Orphaned

\* A step of c that ends its transaction and leaves it no table transaction.
LEMMA RegisteredEnds ==
  ASSUME TypeOK, NEW c \in Conn, NEW how, End(c, how), Live(c)' = {},
         \A d \in Conn \ {c} : frame'[d] = frame[d] /\ Live(d)' = Live(d)
  PROVE  NoneOrphaned
BY DEF NoneOrphaned, Orphaned, End, TypeOK

\* A step of c that ends its transaction and keeps its table transactions, when
\* they are orphaned already or bc_commit returns from inside its loop.
LEMMA RegisteredLeaves ==
  ASSUME TypeOK, NEW c \in Conn, NEW how, End(c, how), UNCHANGED ha,
         Orphaned(c) \/ (frame[c].pc = "undo" /\ ~CoreRollsBack),
         \A d \in Conn \ {c} : frame'[d] = frame[d]
  PROVE  NoneOrphaned
BY DEF NoneOrphaned, Orphaned, End, TypeOK, Live

LEMMA DropAllLive ==
  ASSUME TypeOK, NEW c \in Conn, DropAll(c)
  PROVE  Live(c)' = {} /\ \A d \in Conn \ {c} : Live(d)' = Live(d)
BY DEF TypeOK, DropAll, Live

LEMMA SameLive ==
  ASSUME UNCHANGED ha
  PROVE  \A c \in Conn : Live(c)' = Live(c)
BY DEF Live

LEMMA RegisteredStatement ==
  ASSUME IInv, NEW c \in Conn, Statement(c)
  PROVE  NoneOrphaned
<1>1. TypeOK
  BY DEF IInv
<1>2. ASSUME NEW t \in Table, StartTransaction(c, t) PROVE NoneOrphaned
  <2>1. registered'[c] = TRUE /\ frame' = frame
    BY <1>1, <1>2 DEF StartTransaction, TypeOK
  <2>2. \A d \in Conn \ {c} : registered'[d] = registered[d] /\ ha'[d] = ha[d]
    BY <1>1, <1>2 DEF StartTransaction, TypeOK
  <2>3. \A d \in Conn \ {c} : Live(d)' = Live(d)
    BY <2>2 DEF Live
  <2> QED
    BY <2>1, <2>2, <2>3 DEF NoneOrphaned, Orphaned
<1>3. ASSUME NEW t \in Table, WriteRow(c, t) \/ DeleteRow(c, t) PROVE NoneOrphaned
  <2>1. registered' = registered /\ frame' = frame /\ ha[c][t] # NoTx
    BY <1>3 DEF WriteRow, DeleteRow, CanWrite
  <2>2. \A d \in Conn : \A u \in Table : ha'[d][u] = ha[d][u] \/ (d = c /\ u = t)
    BY <1>1, <1>3 DEF WriteRow, DeleteRow, TypeOK
  <2>3. \A d \in Conn : Live(d)' \subseteq Live(d)
    BY <2>1, <2>2 DEF Live
  <2> QED
    BY <2>1, <2>3, RegisteredStays
<1>4. CASE Rollback(c)
  <2>1. frame' = frame /\ frame[c].pc = "idle" /\ Live(c) # {} /\ End(c, "rolledBack")
    BY <1>4 DEF Rollback, CanIssue
  <2>2. CASE registered[c]
    <3>1. DropAll(c)
      BY <1>4, <2>2 DEF Rollback
    <3> QED
      BY <1>1, <2>1, <3>1, DropAllLive, RegisteredEnds
  <2>3. CASE ~registered[c]
    <3>1. UNCHANGED ha /\ Orphaned(c)
      BY <1>4, <2>1, <2>3 DEF Rollback, Orphaned
    <3> QED
      BY <1>1, <2>1, <3>1, RegisteredLeaves
  <2> QED
    BY <2>2, <2>3
<1>5. CASE CommitUnregistered(c)
  <2>1. UNCHANGED <<ha, frame>> /\ Orphaned(c) /\ End(c, "ok")
    BY <1>5 DEF CommitUnregistered, CanIssue, Orphaned
  <2> QED
    BY <1>1, <2>1, RegisteredLeaves
<1>6. CASE BcCommit(c)
  <2>1. registered' = registered /\ UNCHANGED ha
    BY <1>6 DEF BcCommit, session
  <2>2. \A d \in Conn : frame'[d].pc = "idle" => frame[d].pc = "idle"
    BY <1>1, <1>6 DEF BcCommit, TypeOK
  <2> QED
    BY <2>1, <2>2, SameLive, RegisteredStays
<1> QED
  BY <1>2, <1>3, <1>4, <1>5, <1>6 DEF Statement

LEMMA RegisteredStep ==
  ASSUME IInv, NEW c \in Conn, Step(c)
  PROVE  NoneOrphaned
<1>1. TypeOK /\ Shape(c)
  BY DEF IInv, FrameShape
<1>2. frame[c] \in Frame
  BY <1>1 DEF TypeOK
<1>3. ASSUME registered' = registered, frame[c].pc # "idle", frame'[c].pc # "idle",
             \A d \in Conn \ {c} : frame'[d] = frame[d] /\ ha'[d] = ha[d]
      PROVE  NoneOrphaned
  <2>1. \A d \in Conn \ {c} : Live(d)' = Live(d)
    BY <1>3 DEF Live
  <2> QED
    BY <1>3, <2>1, RegisteredStays
<1>4. ASSUME NEW t \in Table, NextTable(c, t) PROVE NoneOrphaned
  <2>1. frame[c].pc = "tables" /\ registered' = registered
    BY <1>4 DEF NextTable
  <2>2. frame'[c].pc \in {"tables", "puts", "removes"}
    BY <1>1, <1>2, <1>4 DEF NextTable, TypeOK, Frame
  <2>3. \A d \in Conn \ {c} : frame'[d] = frame[d] /\ ha'[d] = ha[d]
    BY <1>1, <1>4 DEF NextTable, TypeOK
  <2> QED
    BY <1>3, <2>1, <2>2, <2>3
<1>5. CASE NothingToCommit(c)
  <2>1. UNCHANGED ha /\ End(c, "ok") /\ Live(c) = {}
    BY <1>1, <1>5 DEF NothingToCommit, Shape
  <2>2. \A d \in Conn \ {c} : frame'[d] = frame[d]
    BY <1>1, <1>5 DEF NothingToCommit, TypeOK
  <2> QED
    BY <1>1, <2>1, <2>2, SameLive, RegisteredEnds
<1>6. CASE AllPrepared(c)
  BY <1>1, <1>3, <1>6 DEF AllPrepared, session, TypeOK
<1>7. ASSUME frame[c].pc # "idle", UNCHANGED <<ha, registered>>,
             NEW tables, NEW call, AfterSend(c, tables, call)
      PROVE  NoneOrphaned
  <2>1. frame'[c].pc = frame[c].pc /\ \A d \in Conn \ {c} : frame'[d] = frame[d]
    BY <1>1, <1>2, <1>7 DEF AfterSend, TypeOK, Frame
  <2> QED
    BY <1>3, <1>7, <2>1
<1>8. CASE Send(c) \/ SendFails(c)
  BY <1>7, <1>8 DEF Send, SendFails, Calling, session
<1>9. CASE TimeOut(c)
  <2>1. frame[c].pc # "idle"
    BY <1>1, <1>9 DEF TimeOut, Shape
  <2>2. frame'[c].pc = frame[c].pc /\ \A d \in Conn \ {c} : frame'[d] = frame[d]
    BY <1>1, <1>2, <1>9 DEF TimeOut, TypeOK, Frame
  <2> QED
    BY <1>3, <1>9, <2>1, <2>2 DEF TimeOut, session
<1>10. \A ok \in BOOLEAN : Judge(frame[c], ok).pc # "idle"
  BY <1>2 DEF Judge, Frame
<1>11. CASE PutsReturned(c)
  <2>1. frame[c].pc # "idle" /\ UNCHANGED <<ha, registered>>
    BY <1>11 DEF PutsReturned, session
  <2>2. frame'[c].pc # "idle"
    BY <1>1, <1>2, <1>10, <1>11 DEF PutsReturned, TypeOK, Frame
  <2>3. \A d \in Conn \ {c} : frame'[d] = frame[d]
    BY <1>1, <1>11 DEF PutsReturned, TypeOK
  <2> QED
    BY <1>3, <2>1, <2>2, <2>3
<1>12. CASE RemovesReturned(c)
  <2>1. frame[c].pc # "idle" /\ UNCHANGED <<ha, registered>>
    BY <1>12 DEF RemovesReturned, session
  <2>2. (frame[c].ok /\ frame[c].call = "mined") \in BOOLEAN
    OBVIOUS
  <2>3. frame'[c] = Judge(frame[c], frame[c].ok /\ frame[c].call = "mined")
    BY <1>1, <1>12 DEF RemovesReturned, TypeOK
  <2>4. \A d \in Conn \ {c} : frame'[d] = frame[d]
    BY <1>1, <1>12 DEF RemovesReturned, TypeOK
  <2> QED
    BY <1>3, <1>10, <2>1, <2>2, <2>3, <2>4
<1>13. CASE CleanReturned(c)
  <2>1. frame[c].pc # "idle" /\ UNCHANGED <<ha, registered>>
    BY <1>13 DEF CleanReturned, session
  <2>2. frame'[c].pc = frame[c].pc /\ \A d \in Conn \ {c} : frame'[d] = frame[d]
    BY <1>1, <1>2, <1>13 DEF CleanReturned, TypeOK, Frame
  <2> QED
    BY <1>3, <2>1, <2>2
<1>14. CASE PrepareFailed(c)
  <2>1. End(c, "prepareFailed") /\ frame[c].pc = "undo"
    BY <1>14 DEF PrepareFailed
  <2>2. \A d \in Conn \ {c} : frame'[d] = frame[d]
    BY <1>1, <1>14 DEF PrepareFailed, TypeOK
  <2>3. CASE CoreRollsBack
    <3>1. DropAll(c)
      BY <1>14, <2>3 DEF PrepareFailed
    <3> QED
      BY <1>1, <2>1, <2>2, <3>1, DropAllLive, RegisteredEnds
  <2>4. CASE ~CoreRollsBack
    <3>1. UNCHANGED ha
      BY <1>14, <2>4 DEF PrepareFailed
    <3> QED
      BY <1>1, <2>1, <2>2, <2>4, <3>1, RegisteredLeaves
  <2> QED
    BY <2>3, <2>4
<1>15. CASE CommitReturned(c)
  <2>1. UNCHANGED ha /\ Live(c) = {} /\ \E how : End(c, how)
    BY <1>1, <1>15 DEF CommitReturned, Shape
  <2>2. \A d \in Conn \ {c} : frame'[d] = frame[d]
    BY <1>1, <1>15 DEF CommitReturned, TypeOK
  <2> QED
    BY <1>1, <2>1, <2>2, SameLive, RegisteredEnds
<1> QED
  BY <1>4, <1>5, <1>6, <1>8, <1>9, <1>11, <1>12, <1>13, <1>14, <1>15 DEF Step

\* A block changes no table transaction, and a thread that it answers waits
\* for a call within bc_commit.
LEMMA RegisteredBlock ==
  ASSUME IInv, Mine \/ Revert
  PROVE  NoneOrphaned
<1>1. frame' = Tell(Head(pool)) /\ UNCHANGED <<ha, registered>>
  BY DEF Mine, Revert, session
<1>2. \A c \in Conn : frame'[c].pc = frame[c].pc
  BY <1>1 DEF IInv, TypeOK, Tell, Frame
<1> QED
  BY <1>1, <1>2, SameLive, RegisteredStays

LEMMA RegisteredNext ==
  ASSUME IInv, [Next]_vars
  PROVE  NoneOrphaned
<1>1. CASE UNCHANGED vars
  BY <1>1, SameLive, RegisteredStays DEF vars, session
<1>2. CASE Crash
  BY <1>2 DEF Crash, NoneOrphaned, Orphaned, Live
<1>3. CASE Next
  BY <1>2, <1>3, RegisteredStatement, RegisteredStep, RegisteredBlock DEF Next
<1> QED
  BY <1>1, <1>3

\* Whether or not the core rolls back: only the return of bc_commit from inside its
\* loop leaves table transactions behind that the core does not know of.  When it
\* returns from its end it has moved all of them out of ha_data.
THEOREM OrphansByFailure == Spec => OrphanedByFailure
<1>1. IInv /\ [Next]_vars =>
        [\A c \in Conn : Orphaned(c)' => Orphaned(c) \/ (frame[c].pc = "undo" /\ ~CoreRollsBack)]_vars
  BY RegisteredNext DEF NoneOrphaned
<1> QED
  BY <1>1, InductiveInvariant, PTL DEF Spec, OrphanedByFailure

\* With a core that rolls back there are none: no COMMIT passes over a table
\* transaction.
LEMMA LiveRegistered ==
  ASSUME CoreRollsBack
  PROVE  Spec => []LiveTxRegistered
<1>1. Init => LiveTxRegistered
  BY DEF Init, LiveTxRegistered, Orphaned, Live
<1>2. IInv /\ LiveTxRegistered /\ [Next]_vars => LiveTxRegistered'
  BY RegisteredNext DEF NoneOrphaned, LiveTxRegistered
<1> QED
  BY <1>1, <1>2, InductiveInvariant, PTL DEF Spec
=============================================================================

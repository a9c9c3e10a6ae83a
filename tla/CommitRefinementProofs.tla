----------------------- MODULE CommitRefinementProofs -----------------------
(***************************************************************************)
(* CommitProtocol implements AtomicCommit, for any connections, tables,    *)
(* identifiers and bounds, when calls do not revert and the MySQL core     *)
(* rolls back after a failed bc_commit; and an answered success is true.   *)
(***************************************************************************)
EXTENDS CommitProtocolProofs, SequenceTheorems

-----------------------------------------------------------------------------
(***************************************************************************)
(* The invariant that relates what a transaction asked for to what its     *)
(* connection still has and to what the buffers already have.              *)
(***************************************************************************)
\* Nothing failed in this bc_commit so far.
Smooth(c) ==
  /\ frame[c].pc # "undo" /\ frame[c].call # "failed"
  /\ frame[c].pc = "removes" => frame[c].ok

\* The table that bc_commit is about to prepare.
Building(c) == IF frame[c].pc \in {"puts", "removes"} THEN frame[c].cur ELSE {}

\* What the buffer of that table has of it so far.
SoFar(f) ==
  IF f.pc = "puts" THEN IF f.call = "mined" THEN f.tx.puts ELSE << >>
  ELSE IF f.call = "mined" THEN f.tx.puts \o f.tx.removes ELSE f.tx.puts

NoWorkOn(x, t) == work[x][t].puts = << >> /\ work[x][t].removes = << >>

\* The work of the current transaction is in ha_data, in the local variables of
\* bc_commit, or was prepared.
WorkHeld(c) ==
  LET f == frame[c]
      x == Current(c)
  IN  /\ f.pc = "idle" => f = Idle
      /\ turn[c] > MaxTx => Live(c) = {}
      /\ f.affected \cap Live(c) = {}
      /\ Building(c) \subseteq f.affected
      /\ f.pc \in {"puts", "removes", "undo", "commit"} => f.affected # {}
      /\ f.pc = "commit" => f.cur = f.affected
      /\ turn[c] <= MaxTx =>
           /\ \A t \in Live(c) :
                ha[c][t].puts = work[x][t].puts /\ ha[c][t].removes = work[x][t].removes
           /\ \A t \in Building(c) :
                f.tx.puts = work[x][t].puts /\ f.tx.removes = work[x][t].removes
           /\ \A t \in Table \ (Live(c) \cup f.affected) : NoWorkOn(x, t)
           /\ \A t \in f.affected : Planned(x, t) # << >>

\* As long as nothing failed, the buffers have what was prepared, the calls in
\* the pool add the rest of the current call, and the other buffers are empty.
Prepared(c) ==
  LET f == frame[c]
  IN  Smooth(c) => \A i \in Ids(c) :
        /\ \A t \in Table \ f.affected : buffer[t][i] = << >>
        /\ ~(f.pc = "commit" /\ f.call = "mined") =>
             \A t \in f.affected \ Building(c) : buffer[t][i] = Planned(Current(c), t)
        /\ \A t \in Building(c) : buffer[t][i] = SoFar(f)
        /\ f.call # "sent" => Clear(i)
        /\ f.call = "sent" /\ f.pc # "commit" =>
             \A p \in DOMAIN pool : pool[p].id = i =>
               /\ pool[p].kind = "batch" /\ pool[p].by = c /\ pool[p].tables = f.cur
               /\ pool[p].ops = IF f.pc = "puts" THEN f.tx.puts ELSE f.tx.removes

\* A waiting call is one of the thread that waits for it.
Caller ==
  \A p \in DOMAIN pool : pool[p].by \in Conn =>
    /\ frame[pool[p].by].tx # NoTx
    /\ pool[p].id = frame[pool[p].by].tx.id
    /\ pool[p].kind = "commit" <=> frame[pool[p].by].pc = "commit"

Refused == {"prepareFailed", "rolledBack"}

\* What is known of past, present and future transactions.
History(x) ==
  LET c == x[1]
  IN  /\ x[2] >= turn[c] => answer[x] = "none"
      /\ x[2] > turn[c] => \A t \in Table : NoWorkOn(x, t)
      /\ \A t \in Table :
           /\ \A n \in DOMAIN work[x][t].puts : work[x][t].puts[n].tx = x
           /\ \A n \in DOMAIN work[x][t].removes : work[x][t].removes[n].tx = x
      /\ Committed(x) =>
           /\ answer[x] \notin Refused
           /\ \/ x[2] < turn[c]
              \/ x[2] = turn[c] /\ frame[c].pc = "commit" /\ frame[c].call \in {"mined", "failed"}
           /\ \A t \in Table : AppliedOnce(x, t)
      /\ x[2] = turn[c] /\ frame[c].pc = "commit" /\ frame[c].call = "mined" => Committed(x)
      /\ answer[x] = "ok" => Committed(x) \/ \A t \in Table : NoWorkOn(x, t)

\* The transaction has drawn its identifier.
Begun(x) ==
  LET c == x[1]
  IN  x[2] < turn[c] \/ (x[2] = turn[c] /\ (Live(c) # {} \/ frame[c].pc # "idle"))

\* Which transaction drew each identifier.
Owned(owner) ==
  /\ \A i, j \in used : owner[i] = owner[j] => i = j
  /\ \A i \in used : Begun(owner[i])
  /\ \A c \in Conn : \A i \in Ids(c) : owner[i] = Current(c)

\* The buffers hold the whole work of x for the commit at place p of the pool, and
\* x is not decided.
Ready(p, x) ==
  LET c == x[1]
  IN  /\ answer[x] \notin Refused /\ ~Committed(x)
      /\ \A t \in pool[p].tables : buffer[t][pool[p].id] = Planned(x, t) /\ Planned(x, t) # << >>
      /\ \A t \in Table \ pool[p].tables : NoWorkOn(x, t)
      /\ pool[p].tables # {}
      /\ x[2] < turn[c] \/ (x[2] = turn[c] /\ frame[c].pc = "commit")

CommitsReady(owner) ==
  \A p \in DOMAIN pool : pool[p].kind = "commit" => Ready(p, owner[pool[p].id])

\* Nothing was ever sent under an identifier that is not drawn.
FreshIds == \A i \in TxId \ used : \A t \in Table : buffer[t][i] = << >>

RInv ==
  /\ \A c \in Conn : WorkHeld(c) /\ Prepared(c)
  /\ Caller /\ FreshIds
  /\ \A x \in Tx : History(x)
  /\ \E owner \in [used -> Tx] : Owned(owner) /\ CommitsReady(owner)

-----------------------------------------------------------------------------
(***************************************************************************)
(* What each part of the invariant depends on.                             *)
(***************************************************************************)
LEMMA TxParts ==
  ASSUME NEW x \in Tx
  PROVE  x[1] \in Conn /\ x[2] \in 1..MaxTx /\ x = <<x[1], x[2]>>
BY DEF Tx

LEMMA HeldIds ==
  ASSUME IInv, NEW c \in Conn
  PROVE  /\ Ids(c) \subseteq used /\ used \subseteq TxId
         /\ frame[c].pc # "idle" => turn[c] <= MaxTx
         /\ Calling(c) => frame[c].tx # NoTx /\ frame[c].tx.id \in Ids(c)
         /\ \A d \in Conn : d # c => Ids(c) \cap Ids(d) = {}
BY DEF IInv, DrawnIds, TypeOK, FrameShape, Shape, OneIdPerTransaction, Ids

\* A connection that a step does not touch.
LEMMA OtherKeeps ==
  ASSUME IInv, NEW d \in Conn, WorkHeld(d), Prepared(d),
         ha'[d] = ha[d], frame'[d] = frame[d], turn'[d] = turn[d],
         turn[d] <= MaxTx => work'[Current(d)] = work[Current(d)],
         \A i \in Ids(d), t \in Table : buffer'[t][i] = buffer[t][i],
         \A p \in DOMAIN pool' : pool'[p].id \in Ids(d) =>
           \E q \in DOMAIN pool : pool'[p] = pool[q]
  PROVE  WorkHeld(d)' /\ Prepared(d)'
<1>1. /\ Live(d)' = Live(d) /\ Building(d)' = Building(d) /\ Current(d)' = Current(d)
      /\ Ids(d)' = Ids(d) /\ Smooth(d)' = Smooth(d)
  BY DEF Live, Building, Current, Ids, Smooth
<1>2. WorkHeld(d)'
  BY <1>1 DEF WorkHeld, NoWorkOn, Planned
<1>3. Ids(d) # {} => turn[d] <= MaxTx
  <2>1. turn[d] \in Nat /\ MaxTx \in Nat
    BY BoundAssumption DEF IInv, TypeOK
  <2>2. frame[d].pc # "idle" => turn[d] <= MaxTx
    BY HeldIds
  <2>3. turn[d] > MaxTx => Live(d) = {}
    BY DEF WorkHeld
  <2>4. frame[d].pc = "idle" => frame[d].tx = NoTx
    BY DEF IInv, FrameShape, Shape
  <2> QED
    BY <2>1, <2>2, <2>3, <2>4 DEF Ids
<1>0. frame[d].affected \subseteq Table /\ Building(d) \subseteq Table
  BY DEF IInv, TypeOK, Frame, Building
<1>4. ASSUME Smooth(d), NEW i \in Ids(d)
      PROVE  /\ \A t \in Table \ frame'[d].affected : buffer'[t][i] = << >>
             /\ ~(frame'[d].pc = "commit" /\ frame'[d].call = "mined") =>
                  \A t \in frame'[d].affected \ Building(d)' :
                    buffer'[t][i] = Planned(Current(d), t)'
             /\ \A t \in Building(d)' : buffer'[t][i] = SoFar(frame'[d])
             /\ frame'[d].call # "sent" => Clear(i)'
             /\ frame'[d].call = "sent" /\ frame'[d].pc # "commit" =>
                  \A p \in DOMAIN pool' : pool'[p].id = i =>
                    /\ pool'[p].kind = "batch" /\ pool'[p].by = d
                    /\ pool'[p].tables = frame'[d].cur
                    /\ pool'[p].ops = IF frame'[d].pc = "puts" THEN frame'[d].tx.puts
                                                               ELSE frame'[d].tx.removes
  <2>0. \A t \in Table : buffer'[t][i] = buffer[t][i]
    BY <1>4
  <2>1. \A t \in Table \ frame[d].affected : buffer[t][i] = << >>
    BY <1>4 DEF Prepared
  <2>2. ~(frame[d].pc = "commit" /\ frame[d].call = "mined") =>
          \A t \in frame[d].affected \ Building(d) : buffer[t][i] = Planned(Current(d), t)
    BY <1>4 DEF Prepared
  <2>3. \A t \in Building(d) : buffer[t][i] = SoFar(frame[d])
    BY <1>4 DEF Prepared
  <2>4. frame[d].call # "sent" => Clear(i)
    BY <1>4 DEF Prepared
  <2>5. frame[d].call = "sent" /\ frame[d].pc # "commit" =>
          \A p \in DOMAIN pool : pool[p].id = i =>
            /\ pool[p].kind = "batch" /\ pool[p].by = d /\ pool[p].tables = frame[d].cur
            /\ pool[p].ops = IF frame[d].pc = "puts" THEN frame[d].tx.puts
                                                    ELSE frame[d].tx.removes
    BY <1>4 DEF Prepared
  <2>6. \A t \in Table : Planned(Current(d), t)' = Planned(Current(d), t)
    BY <1>3, <1>4 DEF Planned, Current
  <2>7. \A t \in Table \ frame'[d].affected : buffer'[t][i] = << >>
    BY <2>0, <2>1
  <2>8. ~(frame'[d].pc = "commit" /\ frame'[d].call = "mined") =>
          \A t \in frame'[d].affected \ Building(d)' : buffer'[t][i] = Planned(Current(d), t)'
    BY <1>0, <1>1, <2>0, <2>2, <2>6
  <2>9. \A t \in Building(d)' : buffer'[t][i] = SoFar(frame'[d])
    BY <1>0, <1>1, <2>0, <2>3
  <2>10. frame'[d].call # "sent" => Clear(i)'
    BY <1>4, <2>4 DEF Clear
  <2>11. frame'[d].call = "sent" /\ frame'[d].pc # "commit" =>
          \A p \in DOMAIN pool' : pool'[p].id = i =>
            /\ pool'[p].kind = "batch" /\ pool'[p].by = d /\ pool'[p].tables = frame'[d].cur
            /\ pool'[p].ops = IF frame'[d].pc = "puts" THEN frame'[d].tx.puts
                                                       ELSE frame'[d].tx.removes
    BY <1>4, <2>5
  <2> QED
    BY <2>7, <2>8, <2>9, <2>10, <2>11
<1> QED
  BY <1>1, <1>2, <1>4 DEF Prepared

\* A transaction whose connection does not get to know of its commit.
LEMMA HistoryKeeps ==
  ASSUME NEW x \in Tx, History(x), store' = store, turn'[x[1]] = turn[x[1]],
         answer'[x] = answer[x], work'[x] = work[x],
         frame[x[1]].pc = "commit" /\ frame[x[1]].call \in {"mined", "failed"} =>
           frame'[x[1]].pc = "commit" /\ frame'[x[1]].call \in {"mined", "failed"},
         frame'[x[1]].pc = "commit" /\ frame'[x[1]].call = "mined" =>
           frame[x[1]].pc = "commit" /\ frame[x[1]].call = "mined"
  PROVE  History(x)'
<1>1. Committed(x)' = Committed(x)
  BY DEF Committed
<1>2. \A t \in Table : AppliedOnce(x, t)' = AppliedOnce(x, t) /\ NoWorkOn(x, t)' = NoWorkOn(x, t)
  BY DEF AppliedOnce, Planned, NoWorkOn
<1> QED
  BY <1>1, <1>2 DEF History

LEMMA ReadyKeeps ==
  ASSUME IInv, NEW p \in DOMAIN pool, NEW x \in Tx, Ready(p, x), NEW q,
         pool'[q].id = pool[p].id, pool'[q].tables = pool[p].tables,
         \A t \in Table : buffer'[t][pool[p].id] = buffer[t][pool[p].id],
         work'[x] = work[x], answer'[x] \notin Refused, ~Committed(x)',
         x[2] < turn'[x[1]] \/ (x[2] = turn'[x[1]] /\ frame'[x[1]].pc = "commit")
  PROVE  Ready(q, x)'
<1>0. pool[p] \in Entry
  BY DEF IInv, TypeOK
<1>1. pool[p].tables \subseteq Table
  BY <1>0 DEF Entry
<1>2. \A t \in Table : Planned(x, t)' = Planned(x, t) /\ NoWorkOn(x, t)' = NoWorkOn(x, t)
  BY DEF Planned, NoWorkOn
<1> QED
  BY <1>1, <1>2 DEF Ready

-----------------------------------------------------------------------------
(***************************************************************************)
(* Steps within bc_commit.                                                 *)
(***************************************************************************)
LEMMA InsideStep ==
  ASSUME IInv, RInv, NEW c \in Conn, Others(c),
         UNCHANGED <<turn, used, buffer, store, work, answer>>,
         frame'[c].pc # "idle", Ids(c)' \subseteq Ids(c),
         \A p \in DOMAIN pool' :
           \/ \E q \in DOMAIN pool : pool'[p] = pool[q]
           \/ pool'[p].id \in Ids(c) \cup {NoId},
         \A p \in DOMAIN pool' : pool'[p].kind = "commit" =>
           \/ \E q \in DOMAIN pool : pool[q].kind = "commit" /\ pool'[p].id = pool[q].id
                                    /\ pool'[p].tables = pool[q].tables
           \/ pool'[p].id \in Ids(c) /\ Ready(p, Current(c))',
         frame[c].pc = "commit" => frame'[c].pc = "commit",
         frame[c].pc = "commit" /\ frame[c].call \in {"mined", "failed"} =>
           frame'[c].call \in {"mined", "failed"},
         frame'[c].pc = "commit" /\ frame'[c].call = "mined" =>
           frame[c].pc = "commit" /\ frame[c].call = "mined",
         WorkHeld(c)', Prepared(c)', Caller'
  PROVE  RInv'
<1>1. ASSUME NEW d \in Conn, d # c PROVE WorkHeld(d)' /\ Prepared(d)'
  <2>1. Ids(d) \subseteq TxId /\ Ids(d) \cap Ids(c) = {}
    BY <1>1, HeldIds
  <2>2. \A p \in DOMAIN pool' : pool'[p].id \in Ids(d) => \E q \in DOMAIN pool : pool'[p] = pool[q]
    BY <2>1, NoIdAssumption
  <2>3. WorkHeld(d) /\ Prepared(d)
    BY DEF RInv
  <2> QED
    BY <1>1, <2>2, <2>3, OtherKeeps DEF Others
<1>2. ASSUME NEW x \in Tx PROVE History(x)'
  BY TxParts, HistoryKeeps DEF RInv, Others
<1>3. PICK owner \in [used -> Tx] : Owned(owner) /\ CommitsReady(owner)
  BY DEF RInv
<1>4. ASSUME NEW x \in Tx, Begun(x) PROVE Begun(x)'
  BY <1>4, TxParts, OthersKeep DEF Begun, Others
<1>5. Owned(owner)'
  <2>1. ASSUME NEW d \in Conn, NEW i \in Ids(d)' PROVE owner[i] = Current(d)'
    BY <1>3, OthersKeep DEF Owned, Current
  <2> QED
    BY <1>3, <1>4, <2>1 DEF Owned
<1>6. CommitsReady(owner)'
  <2>1. ASSUME NEW p \in DOMAIN pool', pool'[p].kind = "commit"
        PROVE  Ready(p, owner[pool[p].id])'
    <3>1. CASE pool'[p].id \in Ids(c) /\ Ready(p, Current(c))'
      <4>1. owner[pool'[p].id] = Current(c)'
        BY <1>3, <3>1 DEF Owned, Current
      <4> QED
        BY <3>1, <4>1
    <3>2. ASSUME NEW q \in DOMAIN pool, pool[q].kind = "commit", pool'[p].id = pool[q].id,
                 pool'[p].tables = pool[q].tables
          PROVE  Ready(p, owner[pool[p].id])'
      <4>1. pool[q].id \in used
        BY <3>2 DEF IInv, DrawnIds
      <4>2. PICK x \in Tx : x = owner[pool[q].id]
        BY <1>3, <4>1
      <4>3. Ready(q, x)
        BY <1>3, <3>2, <4>2 DEF CommitsReady
      <4>4. ~Committed(x)' /\ answer'[x] \notin Refused
        BY <4>3 DEF Ready, Committed
      <4>5. x[2] < turn'[x[1]] \/ (x[2] = turn'[x[1]] /\ frame'[x[1]].pc = "commit")
        BY <4>3, TxParts DEF Ready, Others
      <4>6. Ready(p, x)'
        BY <3>2, <4>3, <4>4, <4>5, ReadyKeeps
      <4> QED
        BY <3>2, <4>2, <4>6
    <3> QED
      BY <2>1, <3>1, <3>2
  <2> QED
    BY <2>1 DEF CommitsReady
<1>7. FreshIds'
  BY DEF RInv, FreshIds
<1> QED
  BY <1>1, <1>2, <1>3, <1>5, <1>6, <1>7 DEF RInv

\* A step that neither sends nor gives up a call.
LEMMA QuietStep ==
  ASSUME IInv, RInv, NEW c \in Conn, Others(c),
         UNCHANGED <<turn, used, pool, buffer, store, work, answer>>,
         frame[c].call # "sent", frame'[c].pc # "idle", Ids(c)' \subseteq Ids(c),
         frame[c].pc = "commit" => frame[c].call = "none" /\ frame'[c].pc = "commit",
         frame'[c].pc = "commit" => frame'[c].call # "mined",
         WorkHeld(c)', Prepared(c)'
  PROVE  RInv'
<1>1. \A p \in DOMAIN pool : pool[p].by # c
  BY DEF IInv, AwaitedCall
<1>2. Caller'
  BY <1>1 DEF RInv, Caller, Others
<1> QED
  BY <1>2, InsideStep

\* The work of the transaction stays where it is while a call is made.
LEMMA HeldFrame ==
  ASSUME IInv, NEW c \in Conn, WorkHeld(c), UNCHANGED <<ha, turn, work>>,
         frame[c].pc # "idle", frame'[c].pc # "idle",
         frame'[c].affected = frame[c].affected, frame'[c].tx = frame[c].tx,
         Building(c)' \subseteq Building(c),
         frame'[c].pc \in {"puts", "removes", "undo", "commit"} => frame[c].affected # {},
         frame'[c].pc = "commit" => frame'[c].cur = frame[c].affected
  PROVE  WorkHeld(c)'
<1>1. Live(c)' = Live(c) /\ Current(c)' = Current(c)
  BY DEF Live, Current
<1>2. turn[c] \in Nat /\ MaxTx \in Nat /\ turn[c] <= MaxTx
  BY HeldIds, BoundAssumption DEF IInv, TypeOK
<1>3. \A t \in Table : NoWorkOn(Current(c), t)' = NoWorkOn(Current(c), t)
                       /\ Planned(Current(c), t)' = Planned(Current(c), t)
  BY <1>1 DEF NoWorkOn, Planned
<1>4. frame[c].affected \subseteq Table
  BY DEF IInv, TypeOK, Frame
<1> QED
  BY <1>1, <1>2, <1>3, <1>4 DEF WorkHeld

\* The fields of a frame that the lemmas above ask for.
LEMMA FrameParts ==
  ASSUME IInv, NEW c \in Conn
  PROVE  /\ TypeOK /\ Shape(c) /\ frame[c] \in Frame /\ frame \in [Conn -> Frame]
         /\ turn[c] \in Nat /\ MaxTx \in Nat
         /\ frame[c].tx # NoTx =>
              /\ frame[c].tx.puts \in Seq(Op) /\ frame[c].tx.removes \in Seq(Op)
              /\ frame[c].tx.id \in Ids(c)
         /\ \A t \in Table : ha[c][t] \in TableTx \cup {NoTx}
BY BoundAssumption DEF IInv, TypeOK, FrameShape, Frame, TableTx, Ids

LEMMA BcCommitRInv ==
  ASSUME IInv, RInv, NEW c \in Conn, BcCommit(c)
  PROVE  RInv'
<1>1. /\ frame' = [frame EXCEPT ![c] = [Idle EXCEPT !.pc = "tables", !.todo = Live(c)]]
      /\ UNCHANGED <<ha, turn, used, pool, buffer, store, work, answer>>
      /\ turn[c] <= MaxTx /\ frame[c].pc = "idle"
  BY DEF BcCommit, session, chain, client, CanIssue
<1>2. /\ frame'[c].pc = "tables" /\ frame'[c].affected = {} /\ frame'[c].call = "none"
      /\ frame'[c].tx = NoTx
  BY <1>1, FrameParts DEF Idle
<1>3. Others(c) /\ Live(c)' = Live(c) /\ Current(c)' = Current(c)
  BY <1>1, FrameParts DEF Others, Live, Current
<1>4. WorkHeld(c) /\ Prepared(c) /\ frame[c].tx = NoTx /\ frame[c].call = "none"
  BY <1>1, FrameParts DEF RInv, Shape
<1>5. frame[c].affected = {} /\ Building(c) = {} /\ Building(c)' = {} /\ Smooth(c)
  BY <1>1, <1>2, <1>4 DEF WorkHeld, Idle, Building, Smooth
<1>6. Ids(c)' = Ids(c)
  BY <1>1, <1>2, <1>3, <1>4 DEF Ids
<1>7. WorkHeld(c)'
  <2>1. turn[c] \in Nat /\ MaxTx \in Nat
    BY FrameParts
  <2>2. \A t \in Table : NoWorkOn(Current(c), t)' = NoWorkOn(Current(c), t)
    BY <1>1, <1>3 DEF NoWorkOn
  <2> QED
    BY <1>1, <1>2, <1>3, <1>4, <1>5, <2>1, <2>2 DEF WorkHeld
<1>8. Prepared(c)'
  BY <1>1, <1>2, <1>4, <1>5, <1>6 DEF Prepared, Clear
<1> QED
  BY <1>1, <1>2, <1>3, <1>4, <1>6, <1>7, <1>8, QuietStep

LEMMA NextTableRInv ==
  ASSUME IInv, RInv, NEW c \in Conn, NEW t \in Table, NextTable(c, t)
  PROVE  RInv'
<1> DEFINE f  == frame[c]
           tx == ha[c][t]
           x  == Current(c)
           g  == [f EXCEPT !.todo = @ \ {t}]
           r  == IF IsReadOnly(tx) THEN g
                 ELSE [g EXCEPT !.affected = @ \cup {t}, !.cur = {t}, !.tx = tx, !.ok = TRUE,
                                !.pc = IF tx.puts # << >> THEN "puts" ELSE "removes"]
<1>0. f \in Frame /\ Shape(c) /\ WorkHeld(c) /\ Prepared(c) /\ TypeOK
  BY FrameParts DEF RInv
<1>1. /\ ha' = [ha EXCEPT ![c][t] = NoTx] /\ frame' = [frame EXCEPT ![c] = r]
      /\ UNCHANGED <<turn, used, pool, buffer, store, work, answer>>
      /\ f.pc = "tables" /\ t \in f.todo
  BY DEF NextTable, chain, client
<1>2. /\ r.call = f.call
      /\ \/ IsReadOnly(tx) /\ r.pc = "tables" /\ r.affected = f.affected /\ r.tx = f.tx
         \/ /\ ~IsReadOnly(tx) /\ r.affected = f.affected \cup {t} /\ r.tx = tx /\ r.cur = {t}
            /\ r.ok = TRUE
            /\ \/ r.pc = "puts" /\ tx.puts # << >>
               \/ r.pc = "removes" /\ tx.puts = << >>
  BY <1>0, <1>1 DEF Frame
<1>3. f.call = "none" /\ Live(c) = f.todo /\ turn[c] <= MaxTx /\ tx # NoTx /\ t \in Live(c)
  BY <1>0, <1>1 DEF Shape, Live
<1>4. frame'[c] = r
  BY <1>0, <1>1, FrameParts
<1> HIDE DEF r
<1>5. Others(c) /\ Live(c)' = Live(c) \ {t} /\ (\A u \in Live(c)' : ha'[c][u] = ha[c][u])
      /\ Current(c)' = x
  BY <1>0, <1>1, FrameParts DEF Others, Live, Current, TypeOK
<1>6. Ids(c)' \subseteq Ids(c)
  BY <1>2, <1>3, <1>4, <1>5 DEF Ids, Live
<1>7. \A u \in Table : NoWorkOn(x, u)' = NoWorkOn(x, u) /\ Planned(x, u)' = Planned(x, u)
  BY <1>1, <1>5 DEF NoWorkOn, Planned
<1>8. tx.puts = work[x][t].puts /\ tx.removes = work[x][t].removes /\ t \notin f.affected
  BY <1>0, <1>3 DEF WorkHeld
<1>9. f.affected \subseteq Table /\ tx.puts \in Seq(Op) /\ tx.removes \in Seq(Op)
  BY <1>0, <1>3, FrameParts DEF Frame, TableTx
<1>10. ~IsReadOnly(tx) => Planned(x, t) # << >>
  BY <1>8, <1>9 DEF IsReadOnly, Planned
<1>11. Building(c)' = IF r.pc = "tables" THEN {} ELSE {t}
  BY <1>2, <1>4 DEF Building
<1>12. turn[c] \in Nat /\ MaxTx \in Nat /\ Building(c) = {}
  BY <1>1, FrameParts DEF Building
<1>13. WorkHeld(c)'
  <2>1. \A u \in Live(c)' :
          ha'[c][u].puts = work'[x][u].puts /\ ha'[c][u].removes = work'[x][u].removes
    BY <1>0, <1>1, <1>3, <1>5 DEF WorkHeld
  <2>2. \A u \in Building(c)' :
          frame'[c].tx.puts = work'[x][u].puts /\ frame'[c].tx.removes = work'[x][u].removes
    BY <1>1, <1>2, <1>4, <1>8, <1>11
  <2>3. \A u \in Table \ (Live(c)' \cup frame'[c].affected) : NoWorkOn(x, u)'
    <3>1. \A u \in Table \ (Live(c) \cup f.affected) : NoWorkOn(x, u)
      BY <1>0, <1>3 DEF WorkHeld
    <3>2. IsReadOnly(tx) => NoWorkOn(x, t)
      BY <1>8 DEF IsReadOnly, NoWorkOn
    <3> QED
      BY <1>2, <1>4, <1>5, <1>7, <3>1, <3>2
  <2>4. \A u \in frame'[c].affected : Planned(x, u)' # << >>
    <3>1. \A u \in f.affected : Planned(x, u) # << >>
      BY <1>0, <1>3 DEF WorkHeld
    <3> QED
      BY <1>2, <1>4, <1>7, <1>9, <1>10, <3>1
  <2>5. frame'[c].affected \cap Live(c)' = {}
    BY <1>0, <1>2, <1>4, <1>5 DEF WorkHeld
  <2>6. Building(c)' \subseteq frame'[c].affected
    BY <1>2, <1>4, <1>11
  <2> QED
    BY <1>1, <1>2, <1>3, <1>4, <1>5, <1>11, <1>12, <2>1, <2>2, <2>3, <2>4, <2>5, <2>6 DEF WorkHeld
<1>14. Prepared(c)'
  <2>1. Smooth(c)
    BY <1>1, <1>3 DEF Smooth
  <2>2. ASSUME NEW i \in Ids(c)
        PROVE  /\ \A u \in Table \ f.affected : buffer[u][i] = << >>
               /\ \A u \in f.affected : buffer[u][i] = Planned(x, u)
               /\ Clear(i)
    BY <1>0, <1>1, <1>3, <1>12, <2>1 DEF Prepared
  <2>3. SoFar(r) = << >> \/ r.pc = "tables"
    BY <1>2, <1>3 DEF SoFar
  <2>4. ASSUME NEW i \in Ids(c)'
        PROVE  /\ \A u \in Table \ frame'[c].affected : buffer'[u][i] = << >>
               /\ \A u \in frame'[c].affected \ Building(c)' : buffer'[u][i] = Planned(x, u)'
               /\ \A u \in Building(c)' : buffer'[u][i] = SoFar(frame'[c])
               /\ Clear(i)'
    <3>1. i \in Ids(c)
      BY <1>6
    <3>2. Clear(i)'
      BY <1>1, <2>2, <3>1 DEF Clear
    <3>3. \A u \in Building(c)' : buffer'[u][i] = SoFar(frame'[c])
      BY <1>1, <1>4, <1>8, <1>11, <2>2, <2>3, <3>1
    <3> QED
      BY <1>1, <1>2, <1>4, <1>7, <1>9, <1>11, <2>2, <3>1, <3>2, <3>3
  <2> QED
    BY <1>2, <1>3, <1>4, <1>5, <2>4 DEF Prepared
<1> QED
  BY <1>1, <1>2, <1>3, <1>4, <1>5, <1>6, <1>13, <1>14, QuietStep

LEMMA AllPreparedRInv ==
  ASSUME IInv, RInv, NEW c \in Conn, AllPrepared(c)
  PROVE  RInv'
<1> DEFINE f == frame[c]
           r == [f EXCEPT !.pc = "commit", !.cur = f.affected]
<1>0. f \in Frame /\ Shape(c) /\ WorkHeld(c) /\ Prepared(c)
  BY FrameParts DEF RInv
<1>1. /\ frame' = [frame EXCEPT ![c] = r]
      /\ UNCHANGED <<ha, turn, used, pool, buffer, store, work, answer>>
      /\ f.pc = "tables" /\ f.affected # {}
  BY FrameParts DEF AllPrepared, session, chain, client
<1>2. /\ r.pc = "commit" /\ r.cur = f.affected /\ r.affected = f.affected /\ r.tx = f.tx
      /\ r.call = f.call /\ f.call = "none"
  BY <1>0, <1>1 DEF Frame, Shape
<1>3. frame'[c] = r /\ Others(c)
  BY <1>1, FrameParts DEF Others
<1> HIDE DEF r
<1>4. Ids(c)' = Ids(c) /\ Current(c)' = Current(c)
  BY <1>1, <1>2, <1>3 DEF Ids, Live, Current
<1>5. Building(c) = {} /\ Building(c)' = {} /\ Smooth(c)
  BY <1>1, <1>2, <1>3 DEF Building, Smooth
<1>6. WorkHeld(c)'
  BY <1>0, <1>1, <1>2, <1>3, <1>5, HeldFrame
<1>7. Prepared(c)'
  <2>1. \A t \in Table : Planned(Current(c), t)' = Planned(Current(c), t)
    BY <1>1, <1>4 DEF Planned
  <2>2. f.affected \subseteq Table
    BY <1>0 DEF Frame
  <2> QED
    BY <1>0, <1>1, <1>2, <1>3, <1>4, <1>5, <2>1, <2>2 DEF Prepared, Clear
<1> QED
  BY <1>1, <1>2, <1>3, <1>4, <1>6, <1>7, QuietStep

\* A prepare call returned and the table is not finished, or is judged.
LEMMA ReturnRInv ==
  ASSUME IInv, RInv, NEW c \in Conn, NEW r, frame' = [frame EXCEPT ![c] = r],
         UNCHANGED <<session, chain, client>>,
         frame[c].pc \in {"puts", "removes"}, frame[c].call \in {"mined", "failed"},
         r.tx = frame[c].tx, r.affected = frame[c].affected, r.call = "none",
         r.ok = TRUE => Smooth(c),
         \/ /\ r.pc = "tables" /\ r.ok = TRUE
            /\ frame[c].pc = "puts" => frame[c].tx.removes = << >>
         \/ r.pc = "removes" /\ frame[c].pc = "puts" /\ r.cur = frame[c].cur
         \/ r.pc = "undo" /\ r.ok = FALSE
  PROVE  RInv'
<1> DEFINE f == frame[c]
<1>0. f \in Frame /\ Shape(c) /\ WorkHeld(c) /\ Prepared(c)
  BY FrameParts DEF RInv
<1>1. UNCHANGED <<ha, turn, used, pool, buffer, store, work, answer>>
  BY DEF session, chain, client
<1>2. frame'[c] = r /\ Others(c)
  BY <1>1, FrameParts DEF Others
<1>3. Ids(c)' = Ids(c) /\ Current(c)' = Current(c)
  BY <1>1, <1>2 DEF Ids, Live, Current
<1>4. Building(c) = f.cur /\ Building(c)' = IF r.pc = "removes" THEN f.cur ELSE {}
  BY <1>2 DEF Building
<1>5. f.affected # {} /\ f.affected \subseteq Table /\ f.cur \subseteq f.affected
      /\ f.tx # NoTx /\ turn[c] <= MaxTx
  BY <1>0, <1>4, HeldIds DEF WorkHeld, Frame, Shape, Calling
<1>6. WorkHeld(c)'
  BY <1>0, <1>1, <1>2, <1>4, <1>5, HeldFrame
<1>7. Prepared(c)'
  <2> SUFFICES ASSUME Smooth(c)' PROVE Prepared(c)'
    BY DEF Prepared
  <2>1. r.pc # "undo" /\ r.ok = TRUE /\ Smooth(c)
    <3>1. r.pc = "removes" => r.ok
      BY <1>2 DEF Smooth
    <3>2. r.pc # "undo"
      BY <1>2 DEF Smooth
    <3>3. Smooth(c)
      <4>1. CASE r.pc = "tables"
        BY <4>1
      <4>2. CASE r.pc = "removes"
        BY <3>1, <4>2
      <4> QED
        BY <3>2, <4>1, <4>2
    <3> QED
      BY <3>1, <3>2, <3>3
  <2>2. f.call = "mined"
    BY <2>1 DEF Smooth
  <2>3. ASSUME NEW i \in Ids(c)
        PROVE  /\ \A t \in Table \ f.affected : buffer[t][i] = << >>
               /\ \A t \in f.affected \ f.cur : buffer[t][i] = Planned(Current(c), t)
               /\ \A t \in f.cur : buffer[t][i] = SoFar(f)
               /\ Clear(i)
    BY <1>0, <1>4, <2>1, <2>2 DEF Prepared
  <2>4. \A t \in Table : Planned(Current(c), t)' = Planned(Current(c), t)
    BY <1>1, <1>3 DEF Planned
  <2>5. r.pc = "tables" => \A t \in f.cur : SoFar(f) = Planned(Current(c), t)
    <3>1. \A t \in f.cur :
            f.tx.puts = work[Current(c)][t].puts /\ f.tx.removes = work[Current(c)][t].removes
      BY <1>0, <1>4, <1>5 DEF WorkHeld
    <3>2. f.tx.puts \in Seq(Op) /\ f.tx.removes \in Seq(Op)
      BY <1>5, FrameParts
    <3>3. f.tx.puts \o << >> = f.tx.puts
      BY <3>2, ConcatEmptySeq
    <3> QED
      BY <2>2, <3>1, <3>3 DEF SoFar, Planned
  <2>6. r.pc = "removes" => SoFar(r) = SoFar(f)
    BY <2>2 DEF SoFar
  <2>7. ASSUME NEW i \in Ids(c)
        PROVE  /\ \A t \in Table \ f.affected : buffer[t][i] = << >>
               /\ \A t \in f.affected \ Building(c)' : buffer[t][i] = Planned(Current(c), t)
               /\ \A t \in Building(c)' : buffer[t][i] = SoFar(r)
               /\ Clear(i)
    BY <1>4, <1>5, <2>1, <2>3, <2>5, <2>6
  <2>8. \A i : Clear(i) => Clear(i)'
    BY <1>1 DEF Clear
  <2> QED
    BY <1>1, <1>2, <1>3, <1>5, <2>4, <2>7, <2>8 DEF Prepared
<1> QED
  BY <1>1, <1>2, <1>3, <1>6, <1>7, QuietStep

LEMMA ReturnsRInv ==
  ASSUME IInv, RInv, NEW c \in Conn, PutsReturned(c) \/ RemovesReturned(c)
  PROVE  RInv'
<1> DEFINE f == frame[c]
<1>0. f \in Frame /\ TypeOK
  BY FrameParts
<1>1. ASSUME NEW k \in BOOLEAN
      PROVE  /\ Judge(f, k).tx = f.tx /\ Judge(f, k).affected = f.affected
             /\ Judge(f, k).call = "none" /\ Judge(f, k).ok = k
             /\ Judge(f, k).pc = IF k THEN "tables" ELSE "undo"
  BY <1>0 DEF Judge, Frame
<1>2. CASE PutsReturned(c) /\ f.tx.removes = << >>
  <2> DEFINE k == f.call = "mined"
  <2>1. /\ frame' = [frame EXCEPT ![c] = Judge(f, k)] /\ UNCHANGED <<session, chain, client>>
        /\ f.pc = "puts" /\ f.call \in {"mined", "failed"}
    BY <1>2 DEF PutsReturned, Answered
  <2>2. k \in BOOLEAN /\ (k => Smooth(c))
    BY <2>1 DEF Smooth
  <2> HIDE DEF k
  <2> QED
    BY <1>1, <1>2, <2>1, <2>2, ReturnRInv
<1>3. CASE PutsReturned(c) /\ f.tx.removes # << >>
  <2> DEFINE k == f.call = "mined"
             r == [f EXCEPT !.pc = "removes", !.ok = k, !.call = "none"]
  <2>1. /\ frame' = [frame EXCEPT ![c] = r] /\ UNCHANGED <<session, chain, client>>
        /\ f.pc = "puts" /\ f.call \in {"mined", "failed"}
    BY <1>3 DEF PutsReturned, Answered
  <2>2. k \in BOOLEAN /\ (k => Smooth(c))
    BY <2>1 DEF Smooth
  <2> HIDE DEF k
  <2>3. /\ r.tx = f.tx /\ r.affected = f.affected /\ r.call = "none" /\ r.ok = k
        /\ r.pc = "removes" /\ r.cur = f.cur
    BY <1>0 DEF Frame
  <2> HIDE DEF r
  <2> QED
    BY <2>1, <2>2, <2>3, ReturnRInv
<1>4. CASE RemovesReturned(c)
  <2> DEFINE k == f.ok /\ f.call = "mined"
  <2>1. /\ frame' = [frame EXCEPT ![c] = Judge(f, k)] /\ UNCHANGED <<session, chain, client>>
        /\ f.pc = "removes" /\ f.call \in {"mined", "failed"}
    BY <1>4 DEF RemovesReturned, Answered
  <2>2. k \in BOOLEAN /\ (k => Smooth(c))
    BY <1>0, <2>1 DEF Smooth, Frame
  <2> HIDE DEF k
  <2> QED
    BY <1>1, <2>1, <2>2, ReturnRInv
<1> QED
  BY <1>2, <1>3, <1>4

LEMMA CleanReturnedRInv ==
  ASSUME IInv, RInv, NEW c \in Conn, CleanReturned(c)
  PROVE  RInv'
<1> DEFINE f == frame[c]
           r == [f EXCEPT !.call = "none"]
<1>0. f \in Frame /\ WorkHeld(c)
  BY FrameParts DEF RInv
<1>1. /\ frame' = [frame EXCEPT ![c] = r] /\ f.pc = "undo" /\ f.call # "sent"
      /\ UNCHANGED <<ha, turn, used, pool, buffer, store, work, answer>>
  BY FrameParts DEF CleanReturned, Answered, session, chain, client
<1>2. r.pc = "undo" /\ r.affected = f.affected /\ r.tx = f.tx
  BY <1>0, <1>1 DEF Frame
<1>3. frame'[c] = r /\ Others(c)
  BY <1>1, FrameParts DEF Others
<1> HIDE DEF r
<1>4. Ids(c)' = Ids(c)
  BY <1>1, <1>2, <1>3 DEF Ids, Live
<1>5. WorkHeld(c)'
  <2>1. Building(c)' = {} /\ f.affected # {}
    BY <1>0, <1>1, <1>2, <1>3 DEF Building, WorkHeld
  <2> QED
    BY <1>0, <1>1, <1>2, <1>3, <2>1, HeldFrame
<1>6. Prepared(c)'
  BY <1>2, <1>3 DEF Prepared, Smooth
<1> QED
  BY <1>1, <1>2, <1>3, <1>4, <1>5, <1>6, QuietStep

\* The frame while a call is sent or answered.
LEMMA CallFrame ==
  ASSUME IInv, NEW c \in Conn, WorkHeld(c), NEW r, frame' = [frame EXCEPT ![c] = r],
         UNCHANGED <<ha, turn, work>>, frame[c].pc # "idle",
         r.pc = frame[c].pc, r.cur = frame[c].cur, r.tx = frame[c].tx,
         r.affected = frame[c].affected
  PROVE  /\ Others(c) /\ frame'[c] = r /\ Ids(c)' = Ids(c) /\ WorkHeld(c)'
         /\ Building(c)' = Building(c) /\ Current(c)' = Current(c)
<1>1. Others(c) /\ frame'[c] = r
  BY FrameParts DEF Others
<1>2. Ids(c)' = Ids(c) /\ Building(c)' = Building(c) /\ Current(c)' = Current(c)
  BY <1>1 DEF Ids, Live, Building, Current
<1>3. WorkHeld(c)'
  <2>1. frame'[c].pc \in {"puts", "removes", "undo", "commit"} => frame[c].affected # {}
    BY <1>1 DEF WorkHeld
  <2>2. frame'[c].pc = "commit" => frame'[c].cur = frame[c].affected
    BY <1>1 DEF WorkHeld
  <2> QED
    BY <1>1, <1>2, <2>1, <2>2, HeldFrame
<1> QED
  BY <1>1, <1>2, <1>3

LEMMA AppendParts ==
  ASSUME IInv, NEW e, pool' = Append(pool, e)
  PROVE  /\ DOMAIN pool' = DOMAIN pool \cup {Len(pool) + 1}
         /\ pool'[Len(pool) + 1] = e /\ Len(pool) + 1 \notin DOMAIN pool
         /\ \A p \in DOMAIN pool : pool'[p] = pool[p]
BY DEF IInv, TypeOK

\* The commit call of a transaction whose buffers are all prepared.
LEMMA CommitReady ==
  ASSUME IInv, RInv, NEW c \in Conn, frame[c].pc = "commit", frame[c].call = "none",
         frame'[c].pc = "commit", UNCHANGED <<turn, buffer, store, work, answer>>,
         NEW q, pool'[q].id = frame[c].tx.id, pool'[q].tables = frame[c].cur
  PROVE  Ready(q, Current(c))'
<1> DEFINE f == frame[c]
<1>0. /\ Shape(c) /\ WorkHeld(c) /\ Prepared(c) /\ Calling(c) /\ TypeOK /\ f \in Frame
      /\ turn[c] \in Nat /\ turn[c] <= MaxTx
  BY FrameParts, HeldIds DEF RInv, Calling
<1>1. PICK x \in Tx : x = Current(c)
  BY <1>0, CurrentType
<1>2. x[1] = c /\ x[2] = turn[c] /\ Current(c)' = x
  BY <1>1 DEF Current
<1>3. f.tx # NoTx /\ f.tx.id \in Ids(c) /\ Live(c) = {} /\ f.affected \subseteq Table
  BY <1>0, HeldIds DEF Shape, Frame
<1>4. f.cur = f.affected /\ f.affected # {} /\ Building(c) = {} /\ Smooth(c)
  BY <1>0 DEF WorkHeld, Building, Smooth
<1>5. answer[x] = "none" /\ ~Committed(x)
  <2>1. History(x)
    BY DEF RInv
  <2> QED
    BY <1>0, <1>2, <2>1 DEF History
<1>6. \A t \in f.cur : buffer[t][f.tx.id] = Planned(x, t) /\ Planned(x, t) # << >>
  <2>1. \A t \in f.affected \ Building(c) : buffer[t][f.tx.id] = Planned(x, t)
    BY <1>0, <1>1, <1>3, <1>4 DEF Prepared
  <2>2. \A t \in f.affected : Planned(x, t) # << >>
    BY <1>0, <1>1 DEF WorkHeld
  <2> QED
    BY <1>4, <2>1, <2>2
<1>7. \A t \in Table \ f.cur : NoWorkOn(x, t)
  BY <1>0, <1>1, <1>3, <1>4 DEF WorkHeld
<1>8. \A t \in Table : Planned(x, t)' = Planned(x, t) /\ NoWorkOn(x, t)' = NoWorkOn(x, t)
  BY DEF Planned, NoWorkOn
<1>9. Committed(x)' = Committed(x) /\ answer'[x] \notin Refused
  BY <1>5 DEF Committed, Refused
<1>10. Ready(q, x)'
  <2>1. \A t \in pool'[q].tables :
          buffer'[t][pool'[q].id] = Planned(x, t)' /\ Planned(x, t)' # << >>
    BY <1>3, <1>4, <1>6, <1>8
  <2>2. \A t \in Table \ pool'[q].tables : NoWorkOn(x, t)'
    BY <1>7, <1>8
  <2> QED
    BY <1>2, <1>4, <1>5, <1>9, <2>1, <2>2 DEF Ready
<1> QED
  BY <1>2, <1>10

LEMMA SendRInv ==
  ASSUME IInv, RInv, NEW c \in Conn, Send(c)
  PROVE  RInv'
<1> DEFINE f == frame[c]
<1>0. f \in Frame /\ Shape(c) /\ WorkHeld(c) /\ Prepared(c) /\ TypeOK
  BY FrameParts DEF RInv
<1>1. PICK S \in Targets(f) : pool' = Append(pool, Request(c, S)) /\ AfterSend(c, S, "sent")
  BY DEF Send
<1> DEFINE r == [f EXCEPT !.todo = @ \ S, !.call = "sent"]
           e == Request(c, S)
           n == Len(pool) + 1
<1>2. /\ frame' = [frame EXCEPT ![c] = r] /\ Calling(c) /\ f.call = "none"
      /\ UNCHANGED <<ha, turn, used, buffer, store, work, answer>> /\ f.pc # "idle"
  BY <1>1, FrameParts DEF Send, AfterSend, session, client, Calling
<1>3. /\ r.pc = f.pc /\ r.cur = f.cur /\ r.tx = f.tx /\ r.affected = f.affected
      /\ r.call = "sent" /\ r.ok = f.ok
  BY <1>0 DEF Frame
<1> HIDE DEF r
<1>4. /\ Others(c) /\ frame'[c] = r /\ Ids(c)' = Ids(c) /\ WorkHeld(c)'
      /\ Building(c)' = Building(c) /\ Current(c)' = Current(c)
  BY <1>0, <1>2, <1>3, CallFrame
<1>5. f.tx # NoTx /\ f.tx.id \in Ids(c)
  BY <1>2, HeldIds
<1>6. /\ e.id = f.tx.id /\ e.by = c /\ e.tables = S
      /\ f.pc # "undo" => S = f.cur
      /\ e.kind = "commit" <=> f.pc = "commit"
      /\ f.pc \in {"puts", "removes"} =>
           e.kind = "batch" /\ e.ops = IF f.pc = "puts" THEN f.tx.puts ELSE f.tx.removes
  BY <1>1, <1>2 DEF Request, Targets, Calling
<1>7. /\ DOMAIN pool' = DOMAIN pool \cup {n} /\ pool'[n] = e
      /\ \A p \in DOMAIN pool : pool'[p] = pool[p]
  BY <1>1, AppendParts
<1> HIDE DEF e, n
<1>8. \A p \in DOMAIN pool' : (\E q \in DOMAIN pool : pool'[p] = pool[q]) \/ pool'[p].id \in Ids(c)
  BY <1>5, <1>6, <1>7
<1>9. ASSUME NEW p \in DOMAIN pool', pool'[p].kind = "commit"
      PROVE  \/ \E q \in DOMAIN pool : pool[q].kind = "commit" /\ pool'[p].id = pool[q].id
                                      /\ pool'[p].tables = pool[q].tables
             \/ pool'[p].id \in Ids(c) /\ Ready(p, Current(c))'
  <2>1. CASE p \in DOMAIN pool
    BY <1>7, <1>9, <2>1
  <2>2. CASE p = n
    <3>1. f.pc = "commit" /\ S = f.cur /\ pool'[p] = e
      BY <1>6, <1>7, <1>9, <2>2
    <3>2. Ready(p, Current(c))'
      BY <1>2, <1>3, <1>4, <1>6, <3>1, CommitReady
    <3> QED
      BY <1>5, <1>6, <3>1, <3>2
  <2> QED
    BY <1>7, <2>1, <2>2
<1>10. \A p \in DOMAIN pool : pool[p].by # c
  BY <1>2 DEF IInv, AwaitedCall
<1>11. Caller'
  <2>1. ASSUME NEW p \in DOMAIN pool', pool'[p].by \in Conn
        PROVE  /\ frame'[pool'[p].by].tx # NoTx
               /\ pool'[p].id = frame'[pool'[p].by].tx.id
               /\ pool'[p].kind = "commit" <=> frame'[pool'[p].by].pc = "commit"
    <3>1. CASE p = n
      BY <1>3, <1>4, <1>5, <1>6, <1>7, <3>1
    <3>2. CASE p \in DOMAIN pool
      BY <1>7, <1>10, <1>4, <2>1, <3>2 DEF RInv, Caller, Others
    <3> QED
      BY <1>7, <3>1, <3>2
  <2> QED
    BY <2>1 DEF Caller
<1>12. Prepared(c)'
  <2> SUFFICES ASSUME Smooth(c)' PROVE Prepared(c)'
    BY DEF Prepared
  <2>1. Smooth(c) /\ f.pc # "undo"
    BY <1>2, <1>3, <1>4 DEF Smooth
  <2>2. ASSUME NEW i \in Ids(c)
        PROVE  /\ \A t \in Table \ f.affected : buffer[t][i] = << >>
               /\ \A t \in f.affected \ Building(c) : buffer[t][i] = Planned(Current(c), t)
               /\ \A t \in Building(c) : buffer[t][i] = SoFar(f)
               /\ Clear(i)
    BY <1>0, <1>2, <2>1 DEF Prepared
  <2>3. SoFar(r) = SoFar(f)
    BY <1>2, <1>3 DEF SoFar
  <2>4. \A t \in Table : Planned(Current(c), t)' = Planned(Current(c), t)
    BY <1>2, <1>4 DEF Planned
  <2>5. f.affected \subseteq Table /\ Building(c) \subseteq Table
    BY <1>0 DEF Frame, Building
  <2>6. ASSUME NEW i \in Ids(c), f.pc # "commit", NEW p \in DOMAIN pool', pool'[p].id = i
        PROVE  /\ pool'[p].kind = "batch" /\ pool'[p].by = c /\ pool'[p].tables = r.cur
               /\ pool'[p].ops = IF r.pc = "puts" THEN r.tx.puts ELSE r.tx.removes
    <3>1. p = n
      BY <1>7, <2>2, <2>6 DEF Clear
    <3>2. f.pc \in {"puts", "removes"}
      BY <1>2, <2>1, <2>6 DEF Calling
    <3> QED
      BY <1>3, <1>6, <1>7, <3>1, <3>2
  <2> QED
    BY <1>2, <1>3, <1>4, <2>2, <2>3, <2>4, <2>5, <2>6 DEF Prepared
<1> QED
  BY <1>2, <1>3, <1>4, <1>8, <1>9, <1>11, <1>12, InsideStep

LEMMA SendFailsRInv ==
  ASSUME IInv, RInv, NEW c \in Conn, SendFails(c)
  PROVE  RInv'
<1> DEFINE f == frame[c]
<1>0. f \in Frame /\ WorkHeld(c)
  BY FrameParts DEF RInv
<1>1. PICK S \in Targets(f) : AfterSend(c, S, "failed")
  BY DEF SendFails
<1> DEFINE r == [f EXCEPT !.todo = @ \ S, !.call = "failed"]
<1>2. /\ frame' = [frame EXCEPT ![c] = r] /\ f.call = "none" /\ f.pc # "idle"
      /\ UNCHANGED <<ha, turn, used, buffer, store, work, answer>>
  BY <1>1, FrameParts DEF SendFails, AfterSend, session, client, Calling
<1>3. /\ r.pc = f.pc /\ r.cur = f.cur /\ r.tx = f.tx /\ r.affected = f.affected
      /\ r.call = "failed"
  BY <1>0 DEF Frame
<1> HIDE DEF r
<1>4. Others(c) /\ frame'[c] = r /\ Ids(c)' = Ids(c) /\ WorkHeld(c)'
  BY <1>0, <1>2, <1>3, CallFrame
<1>5. Prepared(c)'
  BY <1>3, <1>4 DEF Prepared, Smooth
<1>6. CASE pool' = pool
  BY <1>2, <1>3, <1>4, <1>5, <1>6, QuietStep
<1>7. CASE pool' = Append(pool, Hole)
  <2>1. Hole.kind = "hole" /\ Hole.id = NoId /\ Hole.by = NoConn
    BY DEF Hole
  <2>2. \A p \in DOMAIN pool' : (\E q \in DOMAIN pool : pool'[p] = pool[q]) \/ pool'[p] = Hole
    BY <1>7, AppendParts
  <2>3. \A p \in DOMAIN pool : pool[p].by # c
    BY <1>2 DEF IInv, AwaitedCall
  <2>4. Caller'
    <3>1. ASSUME NEW p \in DOMAIN pool', pool'[p].by \in Conn
          PROVE  /\ frame'[pool'[p].by].tx # NoTx
                 /\ pool'[p].id = frame'[pool'[p].by].tx.id
                 /\ pool'[p].kind = "commit" <=> frame'[pool'[p].by].pc = "commit"
      <4>1. PICK q \in DOMAIN pool : pool'[p] = pool[q]
        BY <2>1, <2>2, <3>1, NoConnAssumption
      <4> QED
        BY <1>4, <2>3, <3>1, <4>1 DEF RInv, Caller, Others
    <3> QED
      BY <3>1 DEF Caller
  <2>5. \A p \in DOMAIN pool' : pool'[p].kind = "commit" =>
          \E q \in DOMAIN pool : pool[q].kind = "commit" /\ pool'[p].id = pool[q].id
                                /\ pool'[p].tables = pool[q].tables
    BY <2>1, <2>2
  <2>6. \A p \in DOMAIN pool' : (\E q \in DOMAIN pool : pool'[p] = pool[q])
                                \/ pool'[p].id \in Ids(c) \cup {NoId}
    BY <2>1, <2>2
  <2> QED
    BY <1>2, <1>3, <1>4, <1>5, <2>4, <2>5, <2>6, InsideStep
<1> QED
  BY <1>6, <1>7 DEF SendFails

\* Giving up calls keeps what they ask for.
LEMMA ForgetParts ==
  ASSUME IInv, NEW cs, ForgetCalls(cs)
  PROVE  /\ DOMAIN pool' = DOMAIN pool
         /\ \A p \in DOMAIN pool :
              /\ pool'[p].id = pool[p].id /\ pool'[p].kind = pool[p].kind
              /\ pool'[p].tables = pool[p].tables
              /\ pool'[p].by = IF pool[p].by \in cs THEN NoConn ELSE pool[p].by
              /\ pool[p].by \notin cs => pool'[p] = pool[p]
<1>1. ASSUME NEW p \in DOMAIN pool
      PROVE  /\ pool'[p].tables = pool[p].tables
             /\ pool[p].by \notin cs => pool'[p] = pool[p]
  <2>1. pool[p] \in Entry /\ pool'[p] = Forget(pool[p], cs)
    BY <1>1 DEF IInv, TypeOK, ForgetCalls
  <2> QED
    BY <2>1 DEF Forget, Entry
<1> QED
  BY <1>1, ForgetType DEF IInv

LEMMA TimeOutRInv ==
  ASSUME IInv, RInv, NEW c \in Conn, TimeOut(c)
  PROVE  RInv'
<1> DEFINE f == frame[c]
           r == [f EXCEPT !.call = "failed"]
<1>0. f \in Frame /\ WorkHeld(c) /\ Shape(c)
  BY FrameParts DEF RInv
<1>1. /\ frame' = [frame EXCEPT ![c] = r] /\ f.call \in {"sent", "mined"} /\ ForgetCalls({c})
      /\ UNCHANGED <<ha, turn, used, buffer, store, work, answer>> /\ f.pc # "idle"
  BY <1>0, FrameParts DEF TimeOut, session, client, Shape
<1>2. /\ r.pc = f.pc /\ r.cur = f.cur /\ r.tx = f.tx /\ r.affected = f.affected
      /\ r.call = "failed"
  BY <1>0 DEF Frame
<1> HIDE DEF r
<1>3. Others(c) /\ frame'[c] = r /\ Ids(c)' = Ids(c) /\ WorkHeld(c)'
  BY <1>0, <1>1, <1>2, CallFrame
<1>4. Prepared(c)'
  BY <1>2, <1>3 DEF Prepared, Smooth
<1>5. /\ DOMAIN pool' = DOMAIN pool
      /\ \A p \in DOMAIN pool :
           /\ pool'[p].id = pool[p].id /\ pool'[p].kind = pool[p].kind
           /\ pool'[p].tables = pool[p].tables
           /\ pool'[p].by = IF pool[p].by = c THEN NoConn ELSE pool[p].by
           /\ pool[p].by # c => pool'[p] = pool[p]
  BY <1>1, ForgetParts
<1>6. \A p \in DOMAIN pool : pool[p].by = c => pool[p].id \in Ids(c)
  BY FrameParts DEF RInv, Caller
<1>7. \A p \in DOMAIN pool' : (\E q \in DOMAIN pool : pool'[p] = pool[q]) \/ pool'[p].id \in Ids(c)
  BY <1>5, <1>6
<1>8. Caller'
  BY <1>2, <1>3, <1>5, NoConnAssumption DEF RInv, Caller, Others
<1>9. \A p \in DOMAIN pool' : pool'[p].kind = "commit" =>
        \E q \in DOMAIN pool : pool[q].kind = "commit" /\ pool'[p].id = pool[q].id
                              /\ pool'[p].tables = pool[q].tables
  BY <1>5
<1> QED
  BY <1>1, <1>2, <1>3, <1>4, <1>7, <1>8, <1>9, InsideStep

-----------------------------------------------------------------------------
(***************************************************************************)
(* The end of a transaction.                                               *)
(***************************************************************************)
LEMMA EndStep ==
  ASSUME IInv, RInv, NEW c \in Conn, Others(c), NEW how, End(c, how),
         turn[c] <= MaxTx, UNCHANGED <<used, pool, buffer, store, work>>,
         frame'[c] = Idle, Live(c)' = {}, frame[c].call # "sent",
         how \in Refused => frame[c].pc # "commit",
         how = "ok" => Committed(Current(c)) \/ \A t \in Table : NoWorkOn(Current(c), t)
  PROVE  RInv'
<1>0. /\ TypeOK /\ turn[c] \in Nat /\ MaxTx \in Nat /\ turn'[c] = turn[c] + 1
      /\ \A d \in Conn : turn[d] \in Nat
      /\ \A x \in Tx : answer'[x] = IF x = Current(c) THEN how ELSE answer[x]
  BY FrameParts, BoundAssumption DEF End, TypeOK, IInv
<1>1. /\ Idle.pc = "idle" /\ Idle.tx = NoTx /\ Idle.affected = {} /\ Idle.call = "none"
  BY DEF Idle
<1>2. Current(c) \in Tx /\ Current(c) = <<c, turn[c]>>
  BY <1>0, CurrentType DEF Current
<1>3. Ids(c)' = {}
  BY <1>1 DEF Ids
<1>4. \A x \in Tx : x[1] = c /\ x[2] = turn[c] <=> x = Current(c)
  BY <1>2, TxParts
<1>5. \A x \in Tx : /\ Committed(x)' = Committed(x)
                    /\ \A t \in Table : /\ AppliedOnce(x, t)' = AppliedOnce(x, t)
                                        /\ NoWorkOn(x, t)' = NoWorkOn(x, t)
  BY DEF Committed, AppliedOnce, Planned, NoWorkOn
<1>6. ASSUME NEW x \in Tx PROVE History(x)'
  <2>0. x[1] \in Conn /\ x[2] \in Nat /\ History(x)
    BY <1>0, TxParts DEF RInv
  <2>1. CASE x[1] # c
    BY <1>0, <1>4, <2>0, <2>1, HistoryKeeps DEF Others
  <2>2. CASE x = Current(c)
    <3>1. x[1] = c /\ x[2] = turn[c]
      BY <1>4, <2>2
    <3>2. ~(x[2] >= turn'[c]) /\ ~(x[2] > turn'[c]) /\ x[2] # turn'[c] /\ x[2] < turn'[c]
      BY <1>0, <3>1
    <3>3. \A t \in Table :
           /\ \A n \in DOMAIN work[x][t].puts : work[x][t].puts[n].tx = x
           /\ \A n \in DOMAIN work[x][t].removes : work[x][t].removes[n].tx = x
      BY <2>0 DEF History
    <3>4. Committed(x) => frame[c].pc = "commit" /\ \A t \in Table : AppliedOnce(x, t)
      BY <1>0, <2>0, <3>1 DEF History
    <3>5. answer'[x] = how
      BY <1>0, <2>2
    <3> QED
      BY <1>5, <2>2, <3>1, <3>2, <3>3, <3>4, <3>5 DEF History
  <2>3. CASE x[1] = c /\ x # Current(c)
    <3>1. x[2] # turn[c] /\ answer'[x] = answer[x]
      BY <1>0, <1>4, <2>3
    <3>2. /\ x[2] >= turn'[c] => x[2] > turn[c] /\ x[2] >= turn[c]
          /\ x[2] > turn'[c] => x[2] > turn[c]
          /\ x[2] < turn[c] => x[2] < turn'[c]
      BY <1>0, <2>0, <3>1
    <3>3. frame'[c].pc = "idle"
      BY <1>1
    <3> QED
      BY <1>5, <2>0, <2>3, <3>1, <3>2, <3>3 DEF History
  <2> QED
    BY <2>1, <2>2, <2>3
<1>7. ASSUME NEW d \in Conn, d # c PROVE WorkHeld(d)' /\ Prepared(d)'
  <2>1. WorkHeld(d) /\ Prepared(d)
    BY DEF RInv
  <2> QED
    BY <1>7, <2>1, OtherKeeps DEF Others
<1>8. WorkHeld(c)'
  <2>1. turn'[c] <= MaxTx => Current(c)' \in Tx /\ Current(c)'[1] = c /\ Current(c)'[2] > turn[c]
    BY <1>0 DEF Current, Tx
  <2>2. turn'[c] <= MaxTx => \A t \in Table : NoWorkOn(Current(c)', t)
    BY <2>1 DEF RInv, History
  <2>3. turn'[c] <= MaxTx => \A t \in Table : NoWorkOn(Current(c), t)'
    BY <2>2 DEF NoWorkOn
  <2> QED
    BY <1>1, <2>3 DEF WorkHeld, Building
<1>9. Prepared(c)'
  BY <1>3 DEF Prepared
<1>10. Caller'
  <2>1. \A p \in DOMAIN pool : pool[p].by # c
    BY DEF IInv, AwaitedCall
  <2> QED
    BY <2>1 DEF RInv, Caller, Others
<1>11. FreshIds'
  BY DEF RInv, FreshIds
<1>12. PICK owner \in [used -> Tx] : Owned(owner) /\ CommitsReady(owner)
  BY DEF RInv
<1>13. Owned(owner)'
  <2>1. ASSUME NEW x \in Tx, Begun(x) PROVE Begun(x)'
    <3>1. CASE x[1] = c
      BY <1>0, <2>1, <3>1, TxParts DEF Begun
    <3>2. CASE x[1] # c
      BY <2>1, <3>2, TxParts, OthersKeep DEF Begun, Others
    <3> QED
      BY <3>1, <3>2
  <2>2. ASSUME NEW d \in Conn, NEW i \in Ids(d)' PROVE owner[i] = Current(d)'
    BY <1>3, <1>12, <2>2, OthersKeep DEF Owned, Current, Others
  <2> QED
    BY <1>12, <2>1, <2>2 DEF Owned
<1>14. CommitsReady(owner)'
  <2>1. ASSUME NEW p \in DOMAIN pool, pool[p].kind = "commit", NEW x \in Tx,
               x = owner[pool[p].id]
        PROVE  Ready(p, x)'
    <3>1. Ready(p, x) /\ x[1] \in Conn /\ x[2] \in Nat
      BY <1>0, <1>12, <2>1, TxParts DEF CommitsReady
    <3>2. answer'[x] \notin Refused
      <4>1. x = Current(c) => frame[c].pc = "commit"
        BY <1>0, <1>4, <3>1 DEF Ready
      <4> QED
        BY <1>0, <3>1, <4>1 DEF Ready
    <3>3. x[2] < turn'[x[1]] \/ (x[2] = turn'[x[1]] /\ frame'[x[1]].pc = "commit")
      BY <1>0, <3>1 DEF Ready, Others
    <3>4. ~Committed(x)'
      BY <1>5, <3>1 DEF Ready
    <3> QED
      BY <3>1, <3>2, <3>3, <3>4, ReadyKeeps
  <2>2. \A p \in DOMAIN pool : pool[p].kind = "commit" => pool[p].id \in used
    BY DEF IInv, DrawnIds
  <2>3. \A p \in DOMAIN pool : pool[p].kind = "commit" => Ready(p, owner[pool[p].id])'
    <3>1. ASSUME NEW p \in DOMAIN pool, pool[p].kind = "commit"
          PROVE  Ready(p, owner[pool[p].id])'
      <4>1. PICK x \in Tx : x = owner[pool[p].id]
        BY <1>12, <2>2, <3>1
      <4>2. Ready(p, x)'
        BY <2>1, <3>1, <4>1
      <4> QED
        BY <4>1, <4>2
    <3> QED
      BY <3>1
  <2> QED
    BY <2>3 DEF CommitsReady
<1> QED
  BY <1>6, <1>7, <1>8, <1>9, <1>10, <1>11, <1>12, <1>13, <1>14 DEF RInv

LEMMA EndsRInv ==
  ASSUME CoreRollsBack, IInv, RInv, LiveTxRegistered, NEW c \in Conn,
         \/ Rollback(c) \/ CommitUnregistered(c) \/ NothingToCommit(c)
         \/ PrepareFailed(c) \/ CommitReturned(c)
  PROVE  RInv'
<1>0. TypeOK /\ Shape(c) /\ WorkHeld(c) /\ turn[c] <= MaxTx /\ frame[c] \in Frame
  <2>1. turn[c] <= MaxTx
    <3>1. turn[c] <= MaxTx \/ frame[c].pc # "idle"
      BY DEF Rollback, CommitUnregistered, NothingToCommit, PrepareFailed, CommitReturned, CanIssue
    <3> QED
      BY <3>1, HeldIds
  <2> QED
    BY <2>1, FrameParts DEF RInv
<1>1. ASSUME ha' = [ha EXCEPT ![c] = [t \in Table |-> NoTx]]
      PROVE  Live(c)' = {} /\ \A d \in Conn : d # c => ha'[d] = ha[d]
  BY <1>0, <1>1 DEF TypeOK, Live
<1>2. \A d \in Conn : d # c => \A how : End(c, how) => turn'[d] = turn[d]
  BY <1>0 DEF TypeOK, End
<1>3. ASSUME frame' = [frame EXCEPT ![c] = Idle]
      PROVE  frame'[c] = Idle /\ \A d \in Conn : d # c => frame'[d] = frame[d]
  BY <1>0, <1>3 DEF TypeOK
<1>4. CASE Rollback(c)
  <2>1. registered[c] /\ frame[c].pc = "idle"
    BY <1>4 DEF Rollback, CanIssue, LiveTxRegistered, Orphaned
  <2>2. /\ DropAll(c) /\ End(c, "rolledBack")
        /\ UNCHANGED <<used, frame, pool, buffer, store, work>>
    BY <1>4, <2>1 DEF Rollback, chain
  <2>3. frame[c] = Idle /\ frame[c].call = "none"
    BY <1>0, <2>1 DEF WorkHeld, Shape
  <2>4. Others(c) /\ Live(c)' = {}
    BY <1>1, <1>2, <2>2 DEF DropAll, Others
  <2> QED
    BY <1>0, <2>1, <2>2, <2>3, <2>4, EndStep
<1>5. CASE CommitUnregistered(c)
  BY <1>5 DEF CommitUnregistered, CanIssue, LiveTxRegistered, Orphaned
<1>6. CASE NothingToCommit(c)
  <2>1. /\ frame' = [frame EXCEPT ![c] = Idle] /\ End(c, "ok") /\ frame[c].pc = "tables"
        /\ UNCHANGED <<ha, used, pool, buffer, store, work>>
        /\ frame[c].affected = {} /\ Live(c) = {} /\ frame[c].call = "none"
    BY <1>0, <1>6 DEF NothingToCommit, chain, Shape
  <2>2. Others(c) /\ Live(c)' = {}
    BY <1>2, <1>3, <2>1 DEF Others, Live
  <2>3. \A t \in Table : NoWorkOn(Current(c), t)
    BY <1>0, <2>1 DEF WorkHeld
  <2> QED
    BY <1>0, <1>3, <2>1, <2>2, <2>3, EndStep DEF Refused
<1>7. CASE PrepareFailed(c)
  <2>1. /\ frame' = [frame EXCEPT ![c] = Idle] /\ End(c, "prepareFailed") /\ DropAll(c)
        /\ UNCHANGED <<used, pool, buffer, store, work>>
        /\ frame[c].pc = "undo" /\ frame[c].call # "sent"
    BY <1>7 DEF PrepareFailed, chain, Answered
  <2>2. Others(c) /\ Live(c)' = {}
    BY <1>1, <1>2, <1>3, <2>1 DEF Others, DropAll
  <2> QED
    BY <1>0, <1>3, <2>1, <2>2, EndStep
<1>8. CASE CommitReturned(c)
  <2> DEFINE how == IF frame[c].call = "mined" THEN "ok" ELSE "commitFailed"
  <2>1. /\ frame' = [frame EXCEPT ![c] = Idle] /\ End(c, how)
        /\ UNCHANGED <<ha, used, pool, buffer, store, work>>
        /\ frame[c].pc = "commit" /\ frame[c].call # "sent" /\ Live(c) = {}
    BY <1>0, <1>8 DEF CommitReturned, chain, Answered, Shape
  <2>2. Others(c) /\ Live(c)' = {}
    BY <1>2, <1>3, <2>1 DEF Others, Live
  <2>3. how \notin Refused
    BY DEF Refused
  <2>4. how = "ok" => Committed(Current(c))
    <3>1. Current(c) \in Tx /\ Current(c)[1] = c /\ Current(c)[2] = turn[c]
      BY <1>0, CurrentType DEF Current
    <3> QED
      BY <2>1, <3>1 DEF RInv, History
  <2> HIDE DEF how
  <2> QED
    BY <1>0, <1>3, <2>1, <2>2, <2>3, <2>4, EndStep
<1> QED
  BY <1>4, <1>5, <1>6, <1>7, <1>8

-----------------------------------------------------------------------------
(***************************************************************************)
(* Statements.                                                             *)
(***************************************************************************)
LEMMA IdleParts ==
  ASSUME IInv, RInv, NEW c \in Conn, CanIssue(c)
  PROVE  /\ frame[c] = Idle /\ frame[c].affected = {} /\ Building(c) = {} /\ Smooth(c)
         /\ frame[c].tx = NoTx /\ frame[c].call = "none" /\ frame[c].pc = "idle"
         /\ turn[c] <= MaxTx /\ turn[c] \in Nat
         /\ Current(c) \in Tx /\ Current(c) = <<c, turn[c]>>
         /\ WorkHeld(c) /\ Prepared(c) /\ TypeOK
<1>1. frame[c].pc = "idle" /\ turn[c] <= MaxTx /\ WorkHeld(c) /\ Prepared(c) /\ TypeOK
  BY FrameParts DEF CanIssue, RInv
<1>2. frame[c] = Idle
  BY <1>1 DEF WorkHeld
<1>3. Current(c) \in Tx /\ Current(c) = <<c, turn[c]>>
  BY <1>1, CurrentType DEF Current
<1> QED
  BY <1>1, <1>2, <1>3, FrameParts DEF Idle, Building, Smooth

LEMMA StartTransactionRInv ==
  ASSUME IInv, RInv, NEW c \in Conn, NEW t \in Table, StartTransaction(c, t)
  PROVE  RInv'
<1> DEFINE I == IF Live(c) = {} THEN TxId \ used ELSE {ha[c][u].id : u \in Live(c)}
<1>0. CanIssue(c) /\ ha[c][t] = NoTx
  BY DEF StartTransaction
<1>1. PICK i \in I :
        /\ ha' = [ha EXCEPT ![c][t] = [id |-> i, puts |-> << >>, removes |-> << >>]]
        /\ used' = used \cup {i}
  BY Zenon DEF StartTransaction
<1>2. UNCHANGED <<turn, frame, pool, buffer, store, work, answer>>
  BY DEF StartTransaction, chain, client
<1>3. /\ frame[c] = Idle /\ frame[c].affected = {} /\ Building(c) = {} /\ Smooth(c)
      /\ frame[c].tx = NoTx /\ frame[c].call = "none" /\ frame[c].pc = "idle"
      /\ turn[c] <= MaxTx /\ turn[c] \in Nat
      /\ Current(c) \in Tx /\ Current(c) = <<c, turn[c]>>
      /\ WorkHeld(c) /\ Prepared(c) /\ TypeOK
  BY <1>0, IdleParts
<1> DEFINE new == [id |-> i, puts |-> << >>, removes |-> << >>]
<1>4. new.id = i /\ new.puts = << >> /\ new.removes = << >> /\ new # NoTx
  <2>1. i \in TxId
    <3>1. \A u \in Live(c) : ha[c][u].id \in TxId
      BY <1>3 DEF TypeOK, Live, TableTx
    <3> QED
      BY <3>1
  <2>2. new \in TableTx
    BY <2>1 DEF TableTx
  <2> QED
    BY <2>2, NoTxAssumption
<1>5. /\ ha'[c][t] = new /\ \A u \in Table : u # t => ha'[c][u] = ha[c][u]
      /\ Others(c)
  BY <1>1, <1>2, <1>3 DEF Others, TypeOK
<1> HIDE DEF new
<1>6. Live(c)' = Live(c) \cup {t} /\ t \notin Live(c)
  BY <1>0, <1>4, <1>5 DEF Live
<1>7. Ids(c) = {ha[c][u].id : u \in Live(c)} /\ Ids(c)' = Ids(c) \cup {i}
  <2>1. Ids(c) = {ha[c][u].id : u \in Live(c)}
    BY <1>3 DEF Ids
  <2>2. Ids(c)' = {ha'[c][u].id : u \in Live(c)'}
    BY <1>2, <1>3 DEF Ids
  <2>3. \A u \in Live(c) : ha'[c][u].id = ha[c][u].id
    BY <1>5, <1>6 DEF Live
  <2> QED
    BY <1>4, <1>5, <1>6, <2>1, <2>2, <2>3
<1>8. WorkHeld(c)'
  <2>1. \A u \in Table : NoWorkOn(Current(c), u)' = NoWorkOn(Current(c), u)
    BY <1>2 DEF NoWorkOn, Current
  <2>2. NoWorkOn(Current(c), t)
    BY <1>3, <1>6 DEF WorkHeld
  <2>3. Current(c)' = Current(c) /\ Building(c)' = {} /\ frame'[c] = frame[c]
    BY <1>2, <1>3 DEF Current, Building
  <2>4. \A u \in Live(c)' :
          /\ ha'[c][u].puts = work'[Current(c)][u].puts
          /\ ha'[c][u].removes = work'[Current(c)][u].removes
    BY <1>2, <1>3, <1>4, <1>5, <1>6, <2>2 DEF WorkHeld, NoWorkOn, Live
  <2>5. turn'[c] = turn[c] /\ ~(turn'[c] > MaxTx) /\ frame'[c].affected = {}
        /\ frame'[c].pc = "idle"
    BY <1>2, <1>3, FrameParts
  <2>6. \A u \in Table \ Live(c)' : NoWorkOn(Current(c), u)'
    BY <1>3, <1>6, <2>1 DEF WorkHeld
  <2> QED
    BY <1>3, <2>3, <2>4, <2>5, <2>6 DEF WorkHeld
<1>9. Live(c) = {} => i \in TxId \ used /\ Clear(i) /\ Ids(c) = {}
  <2> SUFFICES ASSUME Live(c) = {} PROVE i \in TxId \ used /\ Clear(i) /\ Ids(c) = {}
    OBVIOUS
  <2>1. i \in TxId \ used
    OBVIOUS
  <2>2. \A p \in DOMAIN pool : pool[p].id \in used \/ pool[p].id = NoId
    BY DEF IInv, DrawnIds
  <2> QED
    BY <1>7, <2>1, <2>2, NoIdAssumption DEF Clear
<1>10. Live(c) # {} => i \in Ids(c) /\ used' = used
  <2>1. Ids(c) \subseteq used
    BY DEF IInv, DrawnIds
  <2> QED
    BY <1>1, <1>7, <2>1
<1>11. Prepared(c)'
  <2>1. ASSUME NEW j \in Ids(c)
        PROVE  (\A u \in Table : buffer[u][j] = << >>) /\ Clear(j)
    BY <1>3 DEF Prepared
  <2>2. ASSUME NEW j \in Ids(c)'
        PROVE  (\A u \in Table : buffer[u][j] = << >>) /\ Clear(j)
    <3>1. CASE j \in Ids(c)
      BY <2>1, <3>1
    <3>2. CASE j = i /\ Live(c) = {}
      BY <1>9, <3>2 DEF RInv, FreshIds
    <3> QED
      BY <1>7, <1>10, <2>2, <3>1, <3>2
  <2>3. Building(c)' = {}
    BY <1>2, <1>3 DEF Building
  <2> QED
    BY <1>2, <1>3, <2>2, <2>3 DEF Prepared, Clear
<1>12. ASSUME NEW d \in Conn, d # c PROVE WorkHeld(d)' /\ Prepared(d)'
  BY <1>2, <1>5, <1>12, OtherKeeps DEF Others, RInv
<1>13. ASSUME NEW x \in Tx PROVE History(x)'
  BY <1>2, HistoryKeeps DEF RInv
<1>14. Caller' /\ FreshIds'
  BY <1>1, <1>2 DEF RInv, Caller, FreshIds
<1>15. \A x \in Tx, p \in DOMAIN pool : Ready(p, x) => Ready(p, x)'
  BY <1>2 DEF Ready, Committed, Planned, NoWorkOn
<1>16. \A x \in Tx : Begun(x) => Begun(x)'
  <2>1. \A d \in Conn : Live(d) # {} => Live(d)' # {}
    BY <1>5, <1>6, OthersKeep
  <2> QED
    BY <1>2, <2>1, TxParts DEF Begun
<1>17. PICK owner \in [used -> Tx] : Owned(owner) /\ CommitsReady(owner)
  BY DEF RInv
<1>18. \A d \in Conn : Current(d)' = Current(d) /\ (d # c => Ids(d)' = Ids(d))
  BY <1>2, <1>5, OthersKeep DEF Current
<1>19. \E own \in [used' -> Tx] : Owned(own)' /\ CommitsReady(own)'
  <2>1. CASE Live(c) # {}
    <3>1. used' = used /\ Ids(c)' = Ids(c)
      BY <1>7, <1>10, <2>1
    <3>2. Owned(owner)'
      BY <1>16, <1>17, <1>18, <3>1 DEF Owned
    <3>3. CommitsReady(owner)'
      <4>1. ASSUME NEW p \in DOMAIN pool, pool[p].kind = "commit"
            PROVE  Ready(p, owner[pool[p].id])'
        <5>1. pool[p].id \in used
          BY <4>1 DEF IInv, DrawnIds
        <5>2. PICK x \in Tx : x = owner[pool[p].id]
          BY <1>17, <5>1
        <5>3. Ready(p, x)'
          BY <1>15, <1>17, <4>1, <5>2 DEF CommitsReady
        <5> QED
          BY <1>2, <5>2, <5>3
      <4> QED
        BY <1>2, <4>1 DEF CommitsReady
    <3> QED
      BY <1>17, <3>1, <3>2, <3>3
  <2>2. CASE Live(c) = {}
    <3>1. PICK x \in Tx : x = Current(c)
      BY <1>3
    <3>2. PICK own \in [used \cup {i} -> Tx] :
            own = [j \in used \cup {i} |-> IF j = i THEN x ELSE owner[j]]
      BY <1>17
    <3>3. own[i] = x /\ i \notin used /\ \A j \in used : own[j] = owner[j]
      BY <1>9, <2>2, <3>2
    <3>4. \A j \in used : owner[j] # x
      <4>1. ~Begun(x)
        BY <1>3, <2>2, <3>1 DEF Begun
      <4> QED
        BY <1>17, <4>1 DEF Owned
    <3>5. \A j, k \in used' : own[j] = own[k] => j = k
      BY <1>1, <1>17, <3>3, <3>4 DEF Owned
    <3>6. \A j \in used' : Begun(own[j])'
      <4>1. Begun(x)'
        BY <1>2, <1>3, <1>6, <3>1 DEF Begun
      <4>2. ASSUME NEW j \in used PROVE Begun(own[j])'
        <5>1. PICK y \in Tx : y = owner[j]
          BY <1>17
        <5>2. Begun(y)'
          BY <1>16, <1>17, <5>1 DEF Owned
        <5> QED
          BY <3>3, <5>1, <5>2
      <4> QED
        BY <1>1, <3>3, <4>1, <4>2
    <3>7. \A d \in Conn : \A j \in Ids(d)' : own[j] = Current(d)'
      <4>1. ASSUME NEW d \in Conn, NEW j \in Ids(d)' PROVE own[j] = Current(d)'
        <5>1. CASE d = c
          BY <1>7, <1>9, <1>18, <2>2, <3>1, <3>3, <4>1, <5>1
        <5>2. CASE d # c
          <6>1. j \in Ids(d) /\ j \in used
            BY <1>18, <4>1, <5>2 DEF IInv, DrawnIds
          <6> QED
            BY <1>17, <1>18, <3>3, <6>1 DEF Owned
        <5> QED
          BY <5>1, <5>2
      <4> QED
        BY <4>1
    <3>8. CommitsReady(own)'
      <4>1. ASSUME NEW p \in DOMAIN pool, pool[p].kind = "commit"
            PROVE  Ready(p, own[pool[p].id])'
        <5>1. pool[p].id \in used
          BY <4>1 DEF IInv, DrawnIds
        <5>2. PICK y \in Tx : y = owner[pool[p].id]
          BY <1>17, <5>1
        <5>3. Ready(p, y)'
          BY <1>15, <1>17, <4>1, <5>2 DEF CommitsReady
        <5> QED
          BY <1>2, <3>3, <5>1, <5>2, <5>3
      <4> QED
        BY <1>2, <4>1 DEF CommitsReady
    <3>9. Owned(own)'
      BY <3>5, <3>6, <3>7 DEF Owned
    <3> QED
      BY <1>1, <3>8, <3>9
  <2> QED
    BY <2>1, <2>2
<1> QED
  BY <1>8, <1>11, <1>12, <1>13, <1>14, <1>19 DEF RInv

\* A statement adds an operation to the table transaction and to the work.
LEMMA WriteStep ==
  ASSUME IInv, RInv, NEW c \in Conn, CanIssue(c), NEW t \in Table, ha[c][t] # NoTx,
         Others(c), NEW x \in Tx, x = Current(c), NEW tx \in TableTx, tx.id = ha[c][t].id,
         ha'[c][t] = tx, work'[x][t].puts = tx.puts, work'[x][t].removes = tx.removes,
         \A u \in Table : u # t => ha'[c][u] = ha[c][u] /\ work'[x][u] = work[x][u],
         \A y \in Tx : y # x => work'[y] = work[y],
         \A n \in DOMAIN tx.puts : tx.puts[n].tx = x,
         \A n \in DOMAIN tx.removes : tx.removes[n].tx = x,
         UNCHANGED <<turn, used, frame, pool, buffer, store, answer>>
  PROVE  RInv'
<1>3. /\ frame[c] = Idle /\ frame[c].affected = {} /\ Building(c) = {} /\ Smooth(c)
      /\ frame[c].tx = NoTx /\ frame[c].call = "none" /\ frame[c].pc = "idle"
      /\ turn[c] <= MaxTx /\ turn[c] \in Nat
      /\ Current(c) \in Tx /\ Current(c) = <<c, turn[c]>>
      /\ WorkHeld(c) /\ Prepared(c) /\ TypeOK
  BY IdleParts
<1>5. x[1] = c /\ x[2] = turn[c] /\ Current(c)' = x
  BY <1>3 DEF Current
<1>8. Live(c)' = Live(c) /\ Ids(c)' = Ids(c) /\ t \in Live(c)
  <2>1. Live(c)' = Live(c) /\ t \in Live(c) /\ \A u \in Table : ha'[c][u].id = ha[c][u].id
    BY NoTxAssumption DEF Live
  <2> QED
    BY <2>1 DEF Ids, Live
<1>9. WorkHeld(c)'
  <2>1. \A u \in Live(c)' :
          ha'[c][u].puts = work'[x][u].puts /\ ha'[c][u].removes = work'[x][u].removes
    BY <1>3, <1>8 DEF WorkHeld, Live
  <2>2. \A u \in Table \ Live(c)' : NoWorkOn(x, u)'
    <3>1. \A u \in Table \ Live(c) : NoWorkOn(x, u)
      BY <1>3 DEF WorkHeld
    <3>2. \A u \in Table : u # t /\ NoWorkOn(x, u) => NoWorkOn(x, u)'
      BY DEF NoWorkOn
    <3> QED
      BY <1>8, <3>1, <3>2
  <2>3. Building(c)' = {} /\ frame'[c] = frame[c] /\ turn'[c] = turn[c] /\ ~(turn'[c] > MaxTx)
    BY <1>3, FrameParts DEF Building
  <2> QED
    BY <1>3, <1>5, <2>1, <2>2, <2>3 DEF WorkHeld
<1>10. Prepared(c)'
  BY <1>3, <1>8 DEF Prepared, Building, Clear
<1>11. ASSUME NEW d \in Conn, d # c PROVE WorkHeld(d)' /\ Prepared(d)'
  <2>1. turn[d] <= MaxTx => work'[Current(d)] = work[Current(d)]
    <3>1. turn[d] <= MaxTx => Current(d) \in Tx /\ Current(d)[1] = d
      BY <1>3, CurrentType DEF Current
    <3> QED
      BY <1>5, <1>11, <3>1
  <2> QED
    BY <1>11, <2>1, OtherKeeps DEF Others, RInv
<1>12. \A y \in Tx : Committed(y)' = Committed(y)
  BY DEF Committed
<1>13. ASSUME NEW y \in Tx PROVE History(y)'
  <2>1. History(y)
    BY DEF RInv
  <2>2. CASE y # x
    BY <2>1, <2>2, HistoryKeeps
  <2>3. CASE y = x
    <3>1. ~Committed(y) /\ answer[y] = "none"
      BY <1>3, <1>5, <2>1, <2>3 DEF History
    <3>2. \A u \in Table :
           /\ \A n \in DOMAIN work'[y][u].puts : work'[y][u].puts[n].tx = y
           /\ \A n \in DOMAIN work'[y][u].removes : work'[y][u].removes[n].tx = y
      <4>1. \A u \in Table :
             /\ \A n \in DOMAIN work[y][u].puts : work[y][u].puts[n].tx = y
             /\ \A n \in DOMAIN work[y][u].removes : work[y][u].removes[n].tx = y
        BY <2>1 DEF History
      <4> QED
        BY <2>3, <4>1
    <3> QED
      BY <1>3, <1>5, <1>12, <2>3, <3>1, <3>2 DEF History
  <2> QED
    BY <2>2, <2>3
<1>14. Caller' /\ FreshIds'
  BY DEF RInv, Caller, FreshIds
<1>15. PICK owner \in [used -> Tx] : Owned(owner) /\ CommitsReady(owner)
  BY DEF RInv
<1>16. Owned(owner)'
  <2>1. \A d \in Conn : Live(d)' = Live(d) /\ Ids(d)' = Ids(d) /\ Current(d)' = Current(d)
    BY <1>8, OthersKeep DEF Current
  <2>2. \A y \in Tx : Begun(y) => Begun(y)'
    BY <2>1, TxParts DEF Begun
  <2> QED
    BY <1>15, <2>1, <2>2 DEF Owned
<1>17. CommitsReady(owner)'
  <2>1. ASSUME NEW p \in DOMAIN pool, pool[p].kind = "commit"
        PROVE  Ready(p, owner[pool[p].id])'
    <3>1. pool[p].id \in used
      BY <2>1 DEF IInv, DrawnIds
    <3>2. PICK y \in Tx : y = owner[pool[p].id]
      BY <1>15, <3>1
    <3>3. Ready(p, y)
      BY <1>15, <2>1, <3>2 DEF CommitsReady
    <3>4. y # x
      BY <1>3, <1>5, <3>3 DEF Ready
    <3>5. answer'[y] \notin Refused /\ ~Committed(y)'
      BY <1>12, <3>3 DEF Ready
    <3>6. y[2] < turn'[y[1]] \/ (y[2] = turn'[y[1]] /\ frame'[y[1]].pc = "commit")
      BY <3>3 DEF Ready
    <3>7. Ready(p, y)'
      BY <3>3, <3>4, <3>5, <3>6, ReadyKeeps
    <3> QED
      BY <3>2, <3>7
  <2> QED
    BY <2>1 DEF CommitsReady
<1> QED
  BY <1>9, <1>10, <1>11, <1>13, <1>14, <1>15, <1>16, <1>17 DEF RInv

\* One more operation of x behind operations of x.
LEMMA AppendTagged ==
  ASSUME NEW ops \in Seq(Op), NEW op \in Op, NEW x, op.tx = x,
         \A n \in DOMAIN ops : ops[n].tx = x
  PROVE  \A n \in DOMAIN Append(ops, op) : Append(ops, op)[n].tx = x
OBVIOUS

LEMMA WritesRInv ==
  ASSUME IInv, RInv, NEW c \in Conn, NEW t \in Table, WriteRow(c, t) \/ DeleteRow(c, t)
  PROVE  RInv'
<1>0. CanIssue(c) /\ ha[c][t] # NoTx
  BY DEF WriteRow, DeleteRow, CanWrite
<1>1. /\ Current(c) \in Tx /\ WorkHeld(c) /\ turn[c] <= MaxTx /\ TypeOK /\ frame[c].affected = {}
      /\ Live(c) \subseteq Table /\ t \in Live(c) /\ ha[c][t] \in TableTx
  BY <1>0, IdleParts, FrameParts DEF Live
<1>2. PICK x \in Tx : x = Current(c)
  BY <1>1
<1>3. PICK tx \in TableTx : tx = ha[c][t]
  BY <1>1
<1>4. PICK w \in [puts : Seq(Op), removes : Seq(Op)] : w = work[x][t]
  BY <1>1 DEF TypeOK
<1>5. w.puts = tx.puts /\ w.removes = tx.removes
  BY <1>1, <1>2, <1>3, <1>4 DEF WorkHeld
<1>6. w.puts \in Seq(Op) /\ w.removes \in Seq(Op)
  BY <1>4
<1>7. /\ \A n \in DOMAIN w.puts : w.puts[n].tx = x
      /\ \A n \in DOMAIN w.removes : w.removes[n].tx = x
  BY <1>4 DEF RInv, History
<1>8. ASSUME WriteRow(c, t) PROVE RInv'
  <2>1. PICK op \in Op : op = [tx |-> x, deleteEntry |-> FALSE]
    BY DEF Op
  <2>2. op.tx = x
    BY <2>1
  <2>3. /\ ha' = [ha EXCEPT ![c][t].puts = Append(@, op)]
        /\ work' = [work EXCEPT ![x][t].puts = Append(@, op)]
        /\ UNCHANGED <<turn, used, frame, pool, buffer, store, answer>>
    BY <1>2, <1>8, <2>1 DEF WriteRow, chain
  <2>12. [tx EXCEPT !.puts = Append(@, op)] \in TableTx
    BY AppendOp
  <2>13. [tx EXCEPT !.puts = Append(@, op)].id = tx.id
    BY AppendOp
  <2>4. PICK ntx \in TableTx : ntx = [tx EXCEPT !.puts = Append(@, op)] /\ ntx.id = tx.id
    BY <2>12, <2>13, Zenon
  <2>5. ntx.puts = Append(tx.puts, op) /\ ntx.removes = tx.removes
    BY <2>4 DEF TableTx
  <2>6. ha'[c][t] = ntx /\ (\A u \in Table : u # t => ha'[c][u] = ha[c][u]) /\ Others(c)
    BY <1>1, <1>3, <2>3, <2>4 DEF TypeOK, Others
  <2>7. /\ work'[x][t] = [w EXCEPT !.puts = Append(@, op)]
        /\ \A u \in Table : u # t => work'[x][u] = work[x][u]
        /\ \A y \in Tx : y # x => work'[y] = work[y]
    BY <1>1, <1>4, <2>3 DEF TypeOK
  <2>8. work'[x][t].puts = ntx.puts /\ work'[x][t].removes = ntx.removes
    BY <1>5, <2>5, <2>7
  <2>9. /\ \A n \in DOMAIN ntx.puts : ntx.puts[n].tx = x
        /\ \A n \in DOMAIN ntx.removes : ntx.removes[n].tx = x
    <3>1. \A n \in DOMAIN ntx.puts : ntx.puts[n].tx = x
      BY <1>5, <1>6, <1>7, <2>2, <2>5, AppendTagged
    <3> QED
      BY <1>5, <1>7, <2>5, <3>1
  <2>14. \A u \in Table : u # t => ha'[c][u] = ha[c][u] /\ work'[x][u] = work[x][u]
    BY <2>6, <2>7
  <2>11. (\A y \in Tx : y # x => work'[y] = work[y])
         /\ UNCHANGED <<turn, used, frame, pool, buffer, store, answer>>
    BY <2>3, <2>7
  <2>10. ntx.id = ha[c][t].id
    BY <1>3, <2>4
  <2>15. /\ IInv /\ RInv /\ CanIssue(c) /\ ha[c][t] # NoTx
         /\ Others(c) /\ x = Current(c) /\ ntx.id = ha[c][t].id
         /\ ha'[c][t] = ntx /\ work'[x][t].puts = ntx.puts /\ work'[x][t].removes = ntx.removes
         /\ \A u \in Table : u # t => ha'[c][u] = ha[c][u] /\ work'[x][u] = work[x][u]
         /\ \A y \in Tx : y # x => work'[y] = work[y]
         /\ \A n \in DOMAIN ntx.puts : ntx.puts[n].tx = x
         /\ \A n \in DOMAIN ntx.removes : ntx.removes[n].tx = x
         /\ UNCHANGED <<turn, used, frame, pool, buffer, store, answer>>
    BY <1>0, <1>2, <2>6, <2>8, <2>9, <2>10, <2>11, <2>14
  <2> QED
    BY <2>15, WriteStep
<1>9. ASSUME DeleteRow(c, t) PROVE RInv'
  <2>1. PICK op \in Op : op = [tx |-> x, deleteEntry |-> TRUE]
    BY DEF Op
  <2>2. op.tx = x
    BY <2>1
  <2>3. /\ ha' = [ha EXCEPT ![c][t].removes = Append(@, op)]
        /\ work' = [work EXCEPT ![x][t].removes = Append(@, op)]
        /\ UNCHANGED <<turn, used, frame, pool, buffer, store, answer>>
    BY <1>2, <1>9, <2>1 DEF DeleteRow, chain
  <2>12. [tx EXCEPT !.removes = Append(@, op)] \in TableTx
    BY AppendOp
  <2>13. [tx EXCEPT !.removes = Append(@, op)].id = tx.id
    BY AppendOp
  <2>4. PICK ntx \in TableTx : ntx = [tx EXCEPT !.removes = Append(@, op)] /\ ntx.id = tx.id
    BY <2>12, <2>13, Zenon
  <2>5. ntx.removes = Append(tx.removes, op) /\ ntx.puts = tx.puts
    BY <2>4 DEF TableTx
  <2>6. ha'[c][t] = ntx /\ (\A u \in Table : u # t => ha'[c][u] = ha[c][u]) /\ Others(c)
    BY <1>1, <1>3, <2>3, <2>4 DEF TypeOK, Others
  <2>7. /\ work'[x][t] = [w EXCEPT !.removes = Append(@, op)]
        /\ \A u \in Table : u # t => work'[x][u] = work[x][u]
        /\ \A y \in Tx : y # x => work'[y] = work[y]
    BY <1>1, <1>4, <2>3 DEF TypeOK
  <2>8. work'[x][t].puts = ntx.puts /\ work'[x][t].removes = ntx.removes
    BY <1>5, <2>5, <2>7
  <2>9. /\ \A n \in DOMAIN ntx.puts : ntx.puts[n].tx = x
        /\ \A n \in DOMAIN ntx.removes : ntx.removes[n].tx = x
    <3>1. \A n \in DOMAIN ntx.removes : ntx.removes[n].tx = x
      BY <1>5, <1>6, <1>7, <2>2, <2>5, AppendTagged
    <3> QED
      BY <1>5, <1>7, <2>5, <3>1
  <2>14. \A u \in Table : u # t => ha'[c][u] = ha[c][u] /\ work'[x][u] = work[x][u]
    BY <2>6, <2>7
  <2>11. (\A y \in Tx : y # x => work'[y] = work[y])
         /\ UNCHANGED <<turn, used, frame, pool, buffer, store, answer>>
    BY <2>3, <2>7
  <2>10. ntx.id = ha[c][t].id
    BY <1>3, <2>4
  <2>15. /\ IInv /\ RInv /\ CanIssue(c) /\ ha[c][t] # NoTx
         /\ Others(c) /\ x = Current(c) /\ ntx.id = ha[c][t].id
         /\ ha'[c][t] = ntx /\ work'[x][t].puts = ntx.puts /\ work'[x][t].removes = ntx.removes
         /\ \A u \in Table : u # t => ha'[c][u] = ha[c][u] /\ work'[x][u] = work[x][u]
         /\ \A y \in Tx : y # x => work'[y] = work[y]
         /\ \A n \in DOMAIN ntx.puts : ntx.puts[n].tx = x
         /\ \A n \in DOMAIN ntx.removes : ntx.removes[n].tx = x
         /\ UNCHANGED <<turn, used, frame, pool, buffer, store, answer>>
    BY <1>0, <1>2, <2>6, <2>8, <2>9, <2>10, <2>11, <2>14
  <2> QED
    BY <2>15, WriteStep
<1> QED
  BY <1>8, <1>9

-----------------------------------------------------------------------------
(***************************************************************************)
(* Blocks.                                                                 *)
(***************************************************************************)
LEMMA MineParts ==
  ASSUME IInv, Mine
  PROVE  /\ 1 \in DOMAIN pool /\ pool[1] \in Entry /\ pool[1].kind # "hole"
         /\ pool[1].id \in used /\ pool[1].id \in TxId
         /\ \A p \in DOMAIN pool' : /\ p + 1 \in DOMAIN pool /\ p + 1 # 1
                                    /\ pool'[p] = pool[p + 1]
         /\ UNCHANGED <<ha, turn, used, work, answer>>
         /\ \A d \in Conn :
              /\ frame'[d].pc = frame[d].pc /\ frame'[d].tx = frame[d].tx
              /\ frame'[d].cur = frame[d].cur /\ frame'[d].ok = frame[d].ok
              /\ frame'[d].affected = frame[d].affected
              /\ IF d = pool[1].by THEN frame'[d].call = "mined" /\ frame[d].call = "sent"
                                   ELSE frame'[d] = frame[d]
         /\ \A t \in Table, i \in TxId :
              buffer'[t][i] = IF t \in pool[1].tables /\ i = pool[1].id
                              THEN IF pool[1].kind = "batch" THEN buffer[t][i] \o pool[1].ops
                                                             ELSE << >>
                              ELSE buffer[t][i]
         /\ \A t \in Table :
              store'[t] = store[t] \o (IF pool[1].kind = "commit" /\ t \in pool[1].tables
                                       THEN buffer[t][pool[1].id] ELSE << >>)
<1>1. /\ TypeOK /\ pool # << >> /\ pool' = Tail(pool) /\ frame' = Tell(Head(pool))
      /\ UNCHANGED <<ha, turn, used, work, answer>> /\ Head(pool).kind # "hole"
  BY DEF IInv, Mine, session, client
<1>2. pool[1] \in Entry /\ pool[1] = Head(pool) /\ 1 \in DOMAIN pool
  BY <1>1, PoolTail DEF TypeOK
<1>3. \A p \in DOMAIN pool' : p + 1 \in DOMAIN pool /\ p + 1 # 1 /\ pool'[p] = pool[p + 1]
  <2>1. \A p \in DOMAIN pool' : p + 1 \in DOMAIN pool /\ pool'[p] = pool[p + 1]
    BY <1>1, PoolTail DEF TypeOK
  <2>2. \A p \in DOMAIN pool' : p \in Nat /\ p # 0
    BY <1>1 DEF TypeOK
  <2> QED
    BY <2>1, <2>2
<1>4. pool[1].id \in used /\ pool[1].id \in TxId
  BY <1>1, <1>2 DEF IInv, DrawnIds, TypeOK
<1>5. ASSUME NEW d \in Conn
      PROVE  /\ frame'[d].pc = frame[d].pc /\ frame'[d].tx = frame[d].tx
             /\ frame'[d].cur = frame[d].cur /\ frame'[d].ok = frame[d].ok
             /\ frame'[d].affected = frame[d].affected
             /\ IF d = pool[1].by THEN frame'[d].call = "mined" /\ frame[d].call = "sent"
                            ELSE frame'[d] = frame[d]
  <2>1. frame'[d] = IF d = pool[1].by THEN [frame[d] EXCEPT !.call = "mined"] ELSE frame[d]
    BY <1>1, <1>2, TellType
  <2>2. d = pool[1].by => frame[d].call = "sent"
    BY <1>2 DEF IInv, AwaitedCall
  <2>3. frame[d] \in Frame
    BY <1>1 DEF TypeOK
  <2> QED
    BY <2>1, <2>2, <2>3 DEF Frame
<1>6. ASSUME NEW t \in Table, NEW i \in TxId
      PROVE  buffer'[t][i] = IF t \in pool[1].tables /\ i = pool[1].id
                             THEN IF pool[1].kind = "batch" THEN buffer[t][i] \o pool[1].ops ELSE << >>
                             ELSE buffer[t][i]
  <2>1. buffer' = [u \in Table |->
              IF u \notin pool[1].tables THEN buffer[u]
              ELSE [buffer[u] EXCEPT ![pool[1].id] =
                      IF pool[1].kind = "batch" THEN @ \o pool[1].ops ELSE << >>]]
    BY <1>2 DEF Mine
  <2>2. buffer[t] \in [TxId -> Seq(Op)]
    BY <1>1 DEF TypeOK
  <2> QED
    BY <2>1, <2>2
<1>7. ASSUME NEW t \in Table
      PROVE  store'[t] = store[t] \o (IF pool[1].kind = "commit" /\ t \in pool[1].tables
                                      THEN buffer[t][pool[1].id] ELSE << >>)
  BY <1>2 DEF Mine, Applied
<1> QED
  BY <1>1, <1>2, <1>3, <1>4, <1>5, <1>6, <1>7

\* The thread whose call is at the front waits for that call, and so does every
\* thread that holds the front's identifier and saw no failure.
LEMMA FrontCall ==
  ASSUME IInv, RInv, 1 \in DOMAIN pool, NEW d \in Conn
  PROVE  /\ pool[1].by = d => pool[1].id \in Ids(d)
         /\ pool[1].id \in Ids(d) /\ frame[d].pc = "commit" /\ frame[d].call = "sent" =>
              pool[1].by = d /\ pool[1].kind = "commit"
         /\ pool[1].id \in Ids(d) /\ Smooth(d) =>
              /\ frame[d].call = "sent" /\ pool[1].by = d /\ pool[1].id = frame[d].tx.id
              /\ \/ frame[d].pc = "commit" /\ pool[1].kind = "commit"
                 \/ /\ frame[d].pc \in {"puts", "removes"} /\ pool[1].kind = "batch"
                    /\ pool[1].tables = frame[d].cur
                    /\ pool[1].ops = IF frame[d].pc = "puts" THEN frame[d].tx.puts
                                                            ELSE frame[d].tx.removes
<1> DEFINE i == pool[1].id
<1>1. pool[1].by = d => i \in Ids(d)
  BY FrameParts DEF RInv, Caller
<1>2. ASSUME i \in Ids(d), frame[d].pc = "commit", frame[d].call = "sent"
      PROVE  pool[1].by = d /\ pool[1].kind = "commit"
  <2>1. PICK p \in DOMAIN pool : pool[p].by = d
    BY <1>2 DEF IInv, AwaitedCall
  <2>2. pool[p].kind = "commit" /\ pool[p].id = frame[d].tx.id /\ frame[d].tx # NoTx
    BY <1>2, <2>1 DEF RInv, Caller
  <2>3. pool[p].id = i
    BY <1>2, <2>2, FrameParts DEF IInv, OneIdPerTransaction
  <2>4. p = 1
    BY <2>2, <2>3 DEF IInv, CommitIsAlone
  <2> QED
    BY <2>1, <2>2, <2>4
<1>3. ASSUME i \in Ids(d), Smooth(d)
      PROVE  /\ frame[d].call = "sent" /\ pool[1].by = d /\ i = frame[d].tx.id
             /\ \/ frame[d].pc = "commit" /\ pool[1].kind = "commit"
                \/ /\ frame[d].pc \in {"puts", "removes"} /\ pool[1].kind = "batch"
                   /\ pool[1].tables = frame[d].cur
                   /\ pool[1].ops = IF frame[d].pc = "puts" THEN frame[d].tx.puts
                                                           ELSE frame[d].tx.removes
  <2>1. Prepared(d) /\ Shape(d) /\ frame[d] \in Frame
    BY FrameParts DEF RInv
  <2>2. frame[d].call = "sent"
    BY <1>3, <2>1 DEF Prepared, Clear
  <2>3. frame[d].pc \in {"puts", "removes", "commit"}
    BY <1>3, <2>1, <2>2 DEF Smooth, Shape, Frame
  <2>4. i = frame[d].tx.id
    <3>1. frame[d].tx.id \in Ids(d)
      BY <2>3, HeldIds DEF Calling
    <3> QED
      BY <1>3, <3>1 DEF IInv, OneIdPerTransaction
  <2>5. CASE frame[d].pc = "commit"
    BY <1>2, <1>3, <2>2, <2>4, <2>5
  <2>6. CASE frame[d].pc # "commit"
    BY <1>3, <2>1, <2>2, <2>3, <2>4, <2>6 DEF Prepared
  <2> QED
    BY <2>5, <2>6
<1> QED
  BY <1>1, <1>2, <1>3

LEMMA MinePrepared ==
  ASSUME IInv, IInv', RInv, Mine, NEW d \in Conn
  PROVE  WorkHeld(d)' /\ Prepared(d)'
<1>1. /\ 1 \in DOMAIN pool /\ pool[1] \in Entry /\ pool[1].kind # "hole"
      /\ \A p \in DOMAIN pool' : /\ p + 1 \in DOMAIN pool /\ p + 1 # 1
                                 /\ pool'[p] = pool[p + 1]
      /\ UNCHANGED <<ha, turn, work>>
  BY MineParts
<1>2. /\ frame'[d].pc = frame[d].pc /\ frame'[d].tx = frame[d].tx
      /\ frame'[d].cur = frame[d].cur /\ frame'[d].ok = frame[d].ok
      /\ frame'[d].affected = frame[d].affected
      /\ IF d = pool[1].by THEN frame'[d].call = "mined" /\ frame[d].call = "sent"
                           ELSE frame'[d] = frame[d]
  BY MineParts
<1>3. \A t \in Table, i \in TxId :
        buffer'[t][i] = IF t \in pool[1].tables /\ i = pool[1].id
                        THEN IF pool[1].kind = "batch" THEN buffer[t][i] \o pool[1].ops
                                                       ELSE << >>
                        ELSE buffer[t][i]
  BY MineParts
<1>4. /\ frame[d] \in Frame /\ Shape(d) /\ WorkHeld(d) /\ Prepared(d) /\ turn[d] \in Nat
      /\ MaxTx \in Nat /\ Ids(d) \subseteq TxId
  BY FrameParts, HeldIds DEF RInv
<1>5. /\ Live(d)' = Live(d) /\ Building(d)' = Building(d) /\ Current(d)' = Current(d)
      /\ Ids(d)' = Ids(d)
      /\ \A t \in Table : NoWorkOn(Current(d), t)' = NoWorkOn(Current(d), t)
                          /\ Planned(Current(d), t)' = Planned(Current(d), t)
  <2>1. Live(d)' = Live(d) /\ Building(d)' = Building(d) /\ Current(d)' = Current(d)
    BY <1>1, <1>2 DEF Live, Building, Current
  <2> QED
    BY <1>1, <1>2, <2>1 DEF Ids, NoWorkOn, Planned
<1>6. frame[d].affected \subseteq Table /\ Building(d) \subseteq Table
  BY <1>4 DEF Frame, Building
<1>7. WorkHeld(d)'
  <2>1. frame[d].pc = "idle" => frame'[d] = frame[d]
    BY <1>2, <1>4 DEF Shape
  <2> QED
    BY <1>1, <1>2, <1>4, <1>5, <1>6, <2>1 DEF WorkHeld
<1>8. ASSUME Smooth(d)', NEW i \in Ids(d)
      PROVE  /\ \A t \in Table \ frame[d].affected : buffer'[t][i] = << >>
             /\ ~(frame[d].pc = "commit" /\ frame'[d].call = "mined") =>
                  \A t \in frame[d].affected \ Building(d) :
                    buffer'[t][i] = Planned(Current(d), t)
             /\ \A t \in Building(d) : buffer'[t][i] = SoFar(frame'[d])
             /\ frame'[d].call # "sent" => Clear(i)'
             /\ frame'[d].call = "sent" /\ frame[d].pc # "commit" =>
                  \A p \in DOMAIN pool' : pool'[p].id = i =>
                    /\ pool'[p].kind = "batch" /\ pool'[p].by = d
                    /\ pool'[p].tables = frame[d].cur
                    /\ pool'[p].ops = IF frame[d].pc = "puts" THEN frame[d].tx.puts
                                                             ELSE frame[d].tx.removes
  <2>1. Smooth(d)
    BY <1>2, <1>8 DEF Smooth
  <2>2. /\ \A t \in Table \ frame[d].affected : buffer[t][i] = << >>
        /\ ~(frame[d].pc = "commit" /\ frame[d].call = "mined") =>
             \A t \in frame[d].affected \ Building(d) : buffer[t][i] = Planned(Current(d), t)
        /\ \A t \in Building(d) : buffer[t][i] = SoFar(frame[d])
        /\ frame[d].call # "sent" => Clear(i)
    BY <1>4, <1>8, <2>1 DEF Prepared
  <2>3. CASE i # pool[1].id
    <3>1. d # pool[1].by
      BY <1>1, <2>3, FrontCall DEF IInv, OneIdPerTransaction
    <3>2. frame'[d] = frame[d]
      BY <1>2, <3>1
    <3>3. \A t \in Table : buffer'[t][i] = buffer[t][i]
      BY <1>3, <1>4, <2>3
    <3>4. Clear(i) => Clear(i)'
      BY <1>1 DEF Clear
    <3>5. frame[d].call = "sent" /\ frame[d].pc # "commit" =>
            \A p \in DOMAIN pool : pool[p].id = i =>
              /\ pool[p].kind = "batch" /\ pool[p].by = d /\ pool[p].tables = frame[d].cur
              /\ pool[p].ops = IF frame[d].pc = "puts" THEN frame[d].tx.puts
                                                      ELSE frame[d].tx.removes
      BY <1>4, <1>8, <2>1 DEF Prepared
    <3> QED
      BY <1>1, <1>6, <2>2, <3>2, <3>3, <3>4, <3>5
  <2>4. CASE i = pool[1].id
    <3>1. /\ frame[d].call = "sent" /\ pool[1].by = d /\ i = frame[d].tx.id
          /\ \/ frame[d].pc = "commit" /\ pool[1].kind = "commit"
             \/ /\ frame[d].pc \in {"puts", "removes"} /\ pool[1].kind = "batch"
                /\ pool[1].tables = frame[d].cur
                /\ pool[1].ops = IF frame[d].pc = "puts" THEN frame[d].tx.puts
                                                        ELSE frame[d].tx.removes
      BY <1>1, <1>8, <2>1, <2>4, FrontCall
    <3>2. frame'[d].call = "mined"
      BY <1>2, <3>1
    <3>3. Clear(i)'
      BY <1>2, <3>1, <3>2 DEF IInv, ConfirmedIsClear, Confirmed
    <3>4. i \in TxId /\ frame[d].tx.puts \in Seq(Op) /\ frame[d].tx.removes \in Seq(Op)
      <4>1. Calling(d)
        BY <3>1 DEF Calling
      <4> QED
        BY <1>4, <4>1, HeldIds, FrameParts
    <3>5. CASE frame[d].pc = "commit"
      <4>1. Building(d) = {}
        BY <3>5 DEF Building
      <4>2. \A t \in Table \ frame[d].affected : buffer'[t][i] = << >>
        BY <1>3, <2>2, <3>1, <3>4, <3>5
      <4> QED
        BY <3>2, <3>3, <3>5, <4>1, <4>2
    <3>6. CASE frame[d].pc # "commit"
      <4>1. Building(d) = frame[d].cur /\ Building(d) \subseteq frame[d].affected
        BY <1>4, <3>1, <3>6 DEF Building, WorkHeld
      <4>2. \A t \in Table \ frame[d].cur : buffer'[t][i] = buffer[t][i]
        BY <1>3, <3>1, <3>4, <3>6
      <4>3. \A t \in frame[d].cur : buffer'[t][i] = SoFar(frame[d]) \o pool[1].ops
        <5>1. pool[1].kind = "batch" /\ pool[1].tables = frame[d].cur /\ frame[d].cur \subseteq Table
          BY <1>6, <3>1, <3>6, <4>1
        <5>2. \A t \in frame[d].cur : buffer[t][i] = SoFar(frame[d])
          BY <2>2, <4>1
        <5>3. \A t \in frame[d].cur : buffer'[t][i] = buffer[t][i] \o pool[1].ops
          BY <1>3, <2>4, <3>4, <5>1
        <5> QED
          BY <5>2, <5>3
      <4>4. SoFar(frame[d]) \o pool[1].ops = SoFar(frame'[d])
        <5>1. CASE frame[d].pc = "puts"
          <6>1. << >> \o frame[d].tx.puts = frame[d].tx.puts
            BY <3>4, ConcatEmptySeq
          <6>2. SoFar(frame[d]) = << >> /\ SoFar(frame'[d]) = frame[d].tx.puts
            BY <1>2, <3>1, <3>2, <5>1 DEF SoFar
          <6> QED
            BY <3>1, <5>1, <6>1, <6>2
        <5>2. CASE frame[d].pc = "removes"
          BY <1>2, <3>1, <3>2, <5>2 DEF SoFar
        <5> QED
          BY <3>1, <3>6, <5>1, <5>2
      <4> QED
        BY <1>6, <2>2, <3>1, <3>2, <3>3, <3>6, <4>1, <4>2, <4>3, <4>4
    <3> QED
      BY <3>5, <3>6
  <2> QED
    BY <2>3, <2>4
<1>9. Prepared(d)'
  BY <1>2, <1>5, <1>6, <1>8 DEF Prepared
<1> QED
  BY <1>7, <1>9

\* What a mined call does to the stores: nothing, or it appends the whole work of
\* the transaction that owns the identifier, to the stores of all tables.
LEMMA MineStore ==
  ASSUME IInv, RInv, Mine, NEW owner \in [used -> Tx], CommitsReady(owner)
  PROVE  IF pool[1].kind = "commit"
         THEN /\ Ready(1, owner[pool[1].id])
              /\ \A t \in Table : store'[t] = store[t] \o Planned(owner[pool[1].id], t)
         ELSE store' = store
<1>1. /\ 1 \in DOMAIN pool /\ pool[1].id \in used
      /\ \A t \in Table :
           store'[t] = store[t] \o (IF pool[1].kind = "commit" /\ t \in pool[1].tables
                                    THEN buffer[t][pool[1].id] ELSE << >>)
  BY MineParts
<1>2. /\ store \in [Table -> Seq(Op)] /\ store' \in [Table -> Seq(Op)]
      /\ \A t \in Table : store[t] \o << >> = store[t]
  BY ConcatEmptySeq, TypeMine DEF IInv, TypeOK
<1>3. CASE pool[1].kind # "commit"
  BY <1>1, <1>2, <1>3
<1>4. CASE pool[1].kind = "commit"
  <2>1. PICK x \in Tx : x = owner[pool[1].id]
    BY <1>1
  <2>2. Ready(1, x)
    BY <1>1, <1>4, <2>1 DEF CommitsReady
  <2>3. ASSUME NEW t \in Table PROVE store'[t] = store[t] \o Planned(x, t)
    <3>1. CASE t \in pool[1].tables
      BY <1>1, <1>4, <2>2, <3>1 DEF Ready
    <3>2. CASE t \notin pool[1].tables
      <4>1. Planned(x, t) = << >>
        BY <2>2, <3>2, ConcatEmptySeq DEF Ready, NoWorkOn, Planned
      <4> QED
        BY <1>1, <1>2, <3>2, <4>1
    <3> QED
      BY <3>1, <3>2
  <2> QED
    BY <1>4, <2>1, <2>2, <2>3
<1> QED
  BY <1>3, <1>4

LEMMA PlannedSeq ==
  ASSUME TypeOK, NEW x \in Tx, NEW t \in Table
  PROVE  Planned(x, t) \in Seq(Op)
<1>1. work[x][t].puts \in Seq(Op) /\ work[x][t].removes \in Seq(Op)
  BY DEF TypeOK
<1> DEFINE p == work[x][t].puts
           r == work[x][t].removes
<1> HIDE DEF p, r
<1>2. p \in Seq(Op) /\ r \in Seq(Op)
  BY <1>1 DEF p, r
<1>3. p \o r \in Seq(Op)
  BY <1>2
<1> QED
  BY <1>3 DEF Planned, p, r

\* The work of a transaction is a sequence of its own operations.
LEMMA PlannedType ==
  ASSUME TypeOK, NEW x \in Tx, NEW t \in Table, History(x)
  PROVE  /\ Planned(x, t) \in Seq(Op)
         /\ \A n \in DOMAIN Planned(x, t) : Planned(x, t)[n].tx = x
<1>1. work[x][t].puts \in Seq(Op) /\ work[x][t].removes \in Seq(Op)
  BY DEF TypeOK
<1>2. /\ \A n \in DOMAIN work[x][t].puts : work[x][t].puts[n].tx = x
      /\ \A n \in DOMAIN work[x][t].removes : work[x][t].removes[n].tx = x
  BY DEF History
<1> DEFINE p == work[x][t].puts
           r == work[x][t].removes
<1> HIDE DEF p, r
<1>3. p \o r \in Seq(Op) /\ \A n \in DOMAIN (p \o r) : (p \o r)[n].tx = x
  <2>1. p \in Seq(Op) /\ r \in Seq(Op)
    BY <1>1 DEF p, r
  <2>2. (\A n \in DOMAIN p : p[n].tx = x) /\ (\A n \in DOMAIN r : r[n].tx = x)
    BY <1>2 DEF p, r
  <2> QED
    BY <2>1, <2>2
<1> QED
  BY <1>3 DEF Planned, p, r

\* Where the operations of a transaction are after a block that appends those of o.
LEMMA StoreGrows ==
  ASSUME TypeOK, NEW o \in Tx, History(o), NEW t \in Table, work' = work,
         store'[t] = store[t] \o Planned(o, t)
  PROVE  /\ \A x \in Tx : x # o /\ AppliedOnce(x, t) => AppliedOnce(x, t)'
         /\ (\A i \in DOMAIN store[t] : store[t][i].tx # o) => AppliedOnce(o, t)'
         /\ \A x \in Tx : (\E i \in DOMAIN store'[t] : store'[t][i].tx = x) <=>
              \/ \E i \in DOMAIN store[t] : store[t][i].tx = x
              \/ x = o /\ Planned(o, t) # << >>
<1>1. PICK a \in Seq(Op) : a = store[t]
  BY DEF TypeOK
<1>2. PICK b \in Seq(Op) : b = Planned(o, t)
  BY PlannedType
<1>3. \A n \in DOMAIN b : b[n].tx = o
  BY <1>2, PlannedType
<1>4. /\ Len(a) \in Nat /\ Len(b) \in Nat /\ Len(a \o b) = Len(a) + Len(b)
      /\ DOMAIN a = 1..Len(a) /\ DOMAIN b = 1..Len(b) /\ DOMAIN (a \o b) = 1..(Len(a) + Len(b))
      /\ \A i \in 1..Len(a) : (a \o b)[i] = a[i]
      /\ \A i \in (Len(a) + 1)..(Len(a) + Len(b)) :
           (a \o b)[i] = b[i - Len(a)] /\ i - Len(a) \in 1..Len(b)
      /\ \A j \in 1..Len(b) : (a \o b)[Len(a) + j] = b[j]
  OBVIOUS
<1>5. store'[t] = a \o b /\ store[t] = a
  BY <1>1, <1>2
<1>6. \A x \in Tx : Planned(x, t)' = Planned(x, t)
  BY DEF Planned
<1>10. ASSUME NEW i \in (Len(a) + 1)..(Len(a) + Len(b)) PROVE (a \o b)[i].tx = o
  <2>1. (a \o b)[i] = b[i - Len(a)] /\ i - Len(a) \in 1..Len(b)
    BY <1>4
  <2>2. i - Len(a) \in DOMAIN b
    BY <1>4, <2>1
  <2>3. b[i - Len(a)].tx = o
    BY <1>3, <2>2
  <2> QED
    BY <2>1, <2>3
<1>7. ASSUME NEW x \in Tx, x # o, AppliedOnce(x, t) PROVE AppliedOnce(x, t)'
  <2>1. PICK n \in 0..Len(a) :
          /\ n + Len(Planned(x, t)) <= Len(a)
          /\ \A m \in 1..Len(a) :
               IF m \in (n + 1)..(n + Len(Planned(x, t))) THEN a[m] = Planned(x, t)[m - n]
                                                          ELSE a[m].tx # x
    BY <1>4, <1>5, <1>7 DEF AppliedOnce
  <2>0. PICK w \in Seq(Op) : w = Planned(x, t)
    BY PlannedSeq
  <2>2. Len(w) \in Nat
    BY <2>0
  <2>3. n \in 0..Len(a \o b) /\ n + Len(w) <= Len(a \o b)
    BY <1>4, <2>0, <2>1, <2>2
  <2>4. ASSUME NEW m \in 1..(Len(a) + Len(b))
        PROVE  IF m \in (n + 1)..(n + Len(w)) THEN (a \o b)[m] = w[m - n]
                                              ELSE (a \o b)[m].tx # x
    <3>1. CASE m \in 1..Len(a)
      BY <1>4, <2>0, <2>1, <3>1
    <3>2. CASE m \notin 1..Len(a)
      <4>1. m \in (Len(a) + 1)..(Len(a) + Len(b)) /\ m \notin (n + 1)..(n + Len(w))
        BY <1>4, <2>0, <2>1, <2>2, <3>2
      <4>2. (a \o b)[m].tx = o
        BY <1>10, <4>1
      <4> QED
        BY <1>7, <4>1, <4>2
    <3> QED
      BY <3>1, <3>2
  <2>5. Planned(x, t)' = w
    BY <1>6, <2>0
  <2>6. \E k \in 0..Len(a \o b) :
          /\ k + Len(w) <= Len(a \o b)
          /\ \A m \in DOMAIN (a \o b) :
               IF m \in (k + 1)..(k + Len(w)) THEN (a \o b)[m] = w[m - k]
                                             ELSE (a \o b)[m].tx # x
    BY <1>4, <2>3, <2>4
  <2> QED
    BY <1>5, <2>5, <2>6 DEF AppliedOnce
<1>8. ASSUME \A i \in DOMAIN store[t] : store[t][i].tx # o PROVE AppliedOnce(o, t)'
  <2>1. Len(a) \in 0..Len(a \o b) /\ Len(a) + Len(b) <= Len(a \o b)
    BY <1>4
  <2>2. ASSUME NEW m \in 1..(Len(a) + Len(b))
        PROVE  IF m \in (Len(a) + 1)..(Len(a) + Len(b)) THEN (a \o b)[m] = b[m - Len(a)]
                                                        ELSE (a \o b)[m].tx # o
    <3>1. CASE m \in (Len(a) + 1)..(Len(a) + Len(b))
      BY <1>4, <3>1
    <3>2. CASE m \notin (Len(a) + 1)..(Len(a) + Len(b))
      <4>1. m \in 1..Len(a)
        BY <1>4, <3>2
      <4> QED
        BY <1>4, <1>5, <1>8, <3>2, <4>1
    <3> QED
      BY <3>1, <3>2
  <2>3. Planned(o, t)' = b
    BY <1>2, <1>6
  <2> QED
    BY <1>4, <1>5, <2>1, <2>2, <2>3 DEF AppliedOnce
<1>9. ASSUME NEW x \in Tx
      PROVE  (\E i \in DOMAIN store'[t] : store'[t][i].tx = x) <=>
               \/ \E i \in DOMAIN store[t] : store[t][i].tx = x
               \/ x = o /\ Planned(o, t) # << >>
  <2>1. ASSUME NEW i \in 1..(Len(a) + Len(b)), (a \o b)[i].tx = x
        PROVE  (\E j \in 1..Len(a) : a[j].tx = x) \/ (x = o /\ b # << >>)
    <3>1. CASE i \in 1..Len(a)
      BY <1>4, <2>1, <3>1
    <3>2. CASE i \notin 1..Len(a)
      <4>1. i \in (Len(a) + 1)..(Len(a) + Len(b)) /\ b # << >>
        BY <1>4, <3>2
      <4> QED
        BY <1>10, <2>1, <4>1
    <3> QED
      BY <3>1, <3>2
  <2>2. ASSUME NEW j \in 1..Len(a), a[j].tx = x
        PROVE  \E i \in 1..(Len(a) + Len(b)) : (a \o b)[i].tx = x
    <3>1. j \in 1..(Len(a) + Len(b))
      BY <1>4
    <3> QED
      BY <1>4, <2>2, <3>1
  <2>3. ASSUME x = o, b # << >>
        PROVE  \E i \in 1..(Len(a) + Len(b)) : (a \o b)[i].tx = x
    <3>1. 1 \in 1..Len(b) /\ Len(a) + 1 \in 1..(Len(a) + Len(b))
      BY <1>4, <2>3
    <3> QED
      BY <1>3, <1>4, <2>3, <3>1
  <2>4. (\E i \in DOMAIN (a \o b) : (a \o b)[i].tx = x) <=>
          (\E j \in DOMAIN a : a[j].tx = x) \/ (x = o /\ b # << >>)
    BY <1>4, <2>1, <2>2, <2>3
  <2> QED
    BY <1>2, <1>5, <2>4
<1> QED
  BY <1>7, <1>8, <1>9

\* Which transactions a block commits.
LEMMA MineCommits ==
  ASSUME IInv, RInv, Mine, NEW o \in Tx, pool[1].kind = "commit", Ready(1, o),
         \A t \in Table : store'[t] = store[t] \o Planned(o, t)
  PROVE  /\ Committed(o)' /\ (\A t \in Table : AppliedOnce(o, t)')
         /\ \A x \in Tx : x # o =>
              /\ Committed(x)' = Committed(x)
              /\ \A t \in Table : AppliedOnce(x, t) => AppliedOnce(x, t)'
<1>1. TypeOK /\ History(o) /\ work' = work /\ pool[1] \in Entry
  BY MineParts DEF RInv, IInv
<1>2. ASSUME NEW t \in Table
      PROVE  /\ \A x \in Tx : x # o /\ AppliedOnce(x, t) => AppliedOnce(x, t)'
             /\ (\A i \in DOMAIN store[t] : store[t][i].tx # o) => AppliedOnce(o, t)'
             /\ \A x \in Tx : (\E i \in DOMAIN store'[t] : store'[t][i].tx = x) <=>
                  \/ \E i \in DOMAIN store[t] : store[t][i].tx = x
                  \/ x = o /\ Planned(o, t) # << >>
  BY <1>1, StoreGrows
<1>3. \A t \in Table : \A i \in DOMAIN store[t] : store[t][i].tx # o
  BY DEF Ready, Committed
<1>4. PICK u \in pool[1].tables : u \in Table /\ Planned(o, u) # << >>
  <2>1. pool[1].tables \subseteq Table
    BY <1>1 DEF Entry
  <2> QED
    BY <2>1 DEF Ready
<1>5. Committed(o)'
  BY <1>2, <1>4 DEF Committed
<1>6. ASSUME NEW x \in Tx, x # o PROVE Committed(x)' = Committed(x)
  BY <1>2, <1>6 DEF Committed
<1> QED
  BY <1>2, <1>3, <1>5, <1>6

LEMMA MineHistory ==
  ASSUME IInv, RInv, Mine, NEW owner \in [used -> Tx], Owned(owner), CommitsReady(owner),
         NEW x \in Tx
  PROVE  History(x)'
<1>0. x[1] \in Conn /\ History(x) /\ TypeOK /\ x = <<x[1], x[2]>> /\ x[2] \in Nat
      /\ turn[x[1]] \in Nat /\ 1 \in DOMAIN pool /\ pool[1].id \in used
  BY TxParts, FrameParts, MineParts DEF RInv
<1> DEFINE c == x[1]
           i == pool[1].id
<1>1. UNCHANGED <<ha, turn, used, work, answer>>
  BY MineParts
<1>2. /\ frame'[c].pc = frame[c].pc
      /\ IF c = pool[1].by THEN frame'[c].call = "mined" /\ frame[c].call = "sent"
                           ELSE frame'[c] = frame[c]
  BY <1>0, MineParts
<1>3. CASE pool[1].kind # "commit"
  <2>1. store' = store
    BY <1>3, MineStore
  <2>2. c = pool[1].by => frame[c].pc # "commit"
    BY <1>0, <1>3 DEF RInv, Caller
  <2> QED
    BY <1>0, <1>1, <1>2, <2>1, <2>2, HistoryKeeps
<1>4. CASE pool[1].kind = "commit"
  <2>1. PICK o \in Tx : o = owner[i]
    BY <1>0
  <2>2. Ready(1, o) /\ \A t \in Table : store'[t] = store[t] \o Planned(o, t)
    BY <1>4, <2>1, MineStore
  <2>3. /\ Committed(o)' /\ (\A t \in Table : AppliedOnce(o, t)')
        /\ x # o =>
             /\ Committed(x)' = Committed(x)
             /\ \A t \in Table : AppliedOnce(x, t) => AppliedOnce(x, t)'
    BY <1>4, <2>2, MineCommits
  <2>4. \A t \in Table : NoWorkOn(x, t)' = NoWorkOn(x, t)
    BY <1>1 DEF NoWorkOn
  <2>5. CASE x = o
    <3>1. answer[x] \notin Refused /\ (x[2] < turn[c] \/ (x[2] = turn[c] /\ frame[c].pc = "commit"))
      BY <2>2, <2>5 DEF Ready
    <3>2. ASSUME x[2] = turn[c], frame[c].pc = "commit"
          PROVE  frame'[c].call \in {"mined", "failed"}
      <4>1. frame[c].tx # NoTx /\ frame[c].tx.id \in Ids(c) /\ Ids(c) \subseteq used
        BY <1>0, <3>2, HeldIds DEF Calling
      <4>2. owner[frame[c].tx.id] = x
        BY <1>0, <3>2, <4>1 DEF Owned, Current
      <4>3. frame[c].tx.id = i
        BY <1>0, <2>1, <2>5, <4>1, <4>2 DEF Owned
      <4>4. frame[c].call # "none"
        BY <1>0, <1>4, <4>1, <4>3 DEF IInv, CommitOwned
      <4>5. frame[c].call = "sent" => c = pool[1].by
        BY <1>0, <3>2, <4>1, <4>3, FrontCall
      <4>6. frame[c].call \in {"none", "sent", "mined", "failed"}
        BY <1>0 DEF TypeOK, Frame
      <4> QED
        BY <1>2, <4>4, <4>5, <4>6
    <3> QED
      BY <1>0, <1>1, <1>2, <2>3, <2>4, <2>5, <3>1, <3>2 DEF History
  <2>6. CASE x # o
    <3>1. c = pool[1].by => x[2] # turn[c]
      <4>1. ASSUME c = pool[1].by, x[2] = turn[c] PROVE FALSE
        <5>1. i \in Ids(c)
          BY <1>0, <4>1, FrontCall
        <5>2. owner[i] = x
          BY <1>0, <4>1, <5>1 DEF Owned, Current
        <5> QED
          BY <2>1, <2>6, <5>2
      <4> QED
        BY <4>1
    <3>2. x[2] = turn[c] => frame'[c] = frame[c]
      BY <1>2, <3>1
    <3> QED
      BY <1>0, <1>1, <2>3, <2>4, <2>6, <3>2 DEF History
  <2> QED
    BY <2>5, <2>6
<1> QED
  BY <1>3, <1>4

LEMMA MineRInv ==
  ASSUME IInv, IInv', RInv, Mine
  PROVE  RInv'
<1>1. PICK owner \in [used -> Tx] : Owned(owner) /\ CommitsReady(owner)
  BY DEF RInv
<1>2. /\ 1 \in DOMAIN pool /\ pool[1].id \in used
      /\ \A p \in DOMAIN pool' : /\ p + 1 \in DOMAIN pool /\ p + 1 # 1
                                 /\ pool'[p] = pool[p + 1]
      /\ UNCHANGED <<ha, turn, used, work, answer>>
  BY MineParts
<1>3. \A d \in Conn : frame'[d].pc = frame[d].pc /\ frame'[d].tx = frame[d].tx
  BY MineParts
<1>4. \A t \in Table, i \in TxId : i # pool[1].id => buffer'[t][i] = buffer[t][i]
  BY MineParts
<1>5. Caller'
  BY <1>2, <1>3 DEF RInv, Caller
<1>6. FreshIds'
  BY <1>2, <1>4 DEF RInv, FreshIds
<1>7. \A d \in Conn : Live(d)' = Live(d) /\ Ids(d)' = Ids(d) /\ Current(d)' = Current(d)
  BY <1>2, <1>3 DEF Live, Ids, Current
<1>8. Owned(owner)'
  <2>1. \A x \in Tx : Begun(x) => Begun(x)'
    BY <1>2, <1>3, <1>7, TxParts DEF Begun
  <2> QED
    BY <1>1, <1>2, <1>7, <2>1 DEF Owned
<1>9. CommitsReady(owner)'
  <2>1. ASSUME NEW p \in DOMAIN pool', pool'[p].kind = "commit"
        PROVE  Ready(p, owner[pool[p].id])'
    <3>1. PICK q \in DOMAIN pool : q = p + 1 /\ q # 1 /\ pool'[p] = pool[q]
      BY <1>2
    <3>2. pool[q].kind = "commit" /\ pool[q].id \in used /\ pool[q].id \in TxId
      BY <2>1, <3>1 DEF IInv, DrawnIds, TypeOK
    <3>3. PICK x \in Tx : x = owner[pool[q].id]
      BY <1>1, <3>2
    <3>4. Ready(q, x)
      BY <1>1, <3>2, <3>3 DEF CommitsReady
    <3>5. pool[1].id # pool[q].id
      BY <1>2, <3>1, <3>2 DEF IInv, CommitIsAlone
    <3>6. \A t \in Table : buffer'[t][pool[q].id] = buffer[t][pool[q].id]
      BY <1>4, <3>2, <3>5
    <3>7. ~Committed(x)'
      <4>1. CASE pool[1].kind # "commit"
        <5>1. store' = store
          BY <1>1, <4>1, MineStore
        <5> QED
          BY <3>4, <5>1 DEF Ready, Committed
      <4>2. CASE pool[1].kind = "commit"
        <5>1. PICK o \in Tx : o = owner[pool[1].id]
          BY <1>1, <1>2
        <5>2. Ready(1, o) /\ \A t \in Table : store'[t] = store[t] \o Planned(o, t)
          BY <1>1, <4>2, <5>1, MineStore
        <5>3. x # o
          BY <1>1, <1>2, <3>2, <3>3, <3>5, <5>1 DEF Owned
        <5>4. Committed(x)' = Committed(x)
          BY <4>2, <5>2, <5>3, MineCommits
        <5> QED
          BY <3>4, <5>4 DEF Ready
      <4> QED
        BY <4>1, <4>2
    <3>8. x[1] \in Conn /\ answer'[x] \notin Refused
      BY <1>2, <3>4, TxParts DEF Ready
    <3>9. x[2] < turn'[x[1]] \/ (x[2] = turn'[x[1]] /\ frame'[x[1]].pc = "commit")
      BY <1>2, <1>3, <3>4, <3>8 DEF Ready
    <3>10. Ready(p, x)'
      BY <1>2, <3>1, <3>4, <3>6, <3>7, <3>8, <3>9, ReadyKeeps
    <3> QED
      BY <3>1, <3>3, <3>10
  <2> QED
    BY <2>1 DEF CommitsReady
<1>10. \A d \in Conn : WorkHeld(d)' /\ Prepared(d)'
  BY MinePrepared
<1>11. \A x \in Tx : History(x)'
  BY <1>1, MineHistory
<1> QED
  BY <1>1, <1>2, <1>5, <1>6, <1>8, <1>9, <1>10, <1>11 DEF RInv

-----------------------------------------------------------------------------
(***************************************************************************)
(* Crashes, and all steps together.                                        *)
(***************************************************************************)
LEMMA CrashRInv ==
  ASSUME IInv, RInv, Crash
  PROVE  RInv'
<1> DEFINE active == {c \in Conn : turn[c] <= MaxTx /\ (Live(c) # {} \/ frame[c].pc # "idle")}
<1>1. /\ ha' = [c \in Conn |-> [t \in Table |-> NoTx]]
      /\ frame' = [c \in Conn |-> Idle]
      /\ ForgetCalls(Conn)
      /\ answer' = [x \in Tx |-> IF x[1] \in active /\ x[2] = turn[x[1]] THEN "lost"
                                                                        ELSE answer[x]]
      /\ turn' = [c \in Conn |-> IF c \in active THEN turn[c] + 1 ELSE turn[c]]
      /\ UNCHANGED <<used, buffer, store, work>>
  BY DEF Crash
<1>2. TypeOK /\ MaxTx \in Nat /\ \A c \in Conn : turn[c] \in Nat /\ Shape(c) /\ WorkHeld(c)
  BY BoundAssumption, FrameParts DEF RInv, IInv, TypeOK
<1>3. \A c \in Conn :
        /\ turn'[c] \in Nat /\ turn'[c] >= turn[c] /\ (c \in active => turn'[c] > turn[c])
        /\ c \notin active => /\ turn'[c] = turn[c]
                              /\ turn[c] <= MaxTx => Live(c) = {} /\ frame[c].pc = "idle"
  <2> HIDE DEF active
  <2>1. \A c \in Conn : c \notin active =>
          (turn[c] <= MaxTx => Live(c) = {} /\ frame[c].pc = "idle")
    BY DEF active
  <2> QED
    BY <1>1, <1>2, <2>1
<1>4. Idle.pc = "idle" /\ Idle.tx = NoTx /\ Idle.affected = {} /\ Idle.call = "none"
  BY DEF Idle
<1>5. \A c \in Conn : Live(c)' = {} /\ Ids(c)' = {} /\ frame'[c] = Idle /\ Building(c)' = {}
  <2>1. \A c \in Conn : Live(c)' = {} /\ frame'[c] = Idle
    BY <1>1 DEF Live
  <2> QED
    BY <1>4, <2>1 DEF Ids, Building
<1>6. \A x \in Tx : /\ answer'[x] = answer[x] \/ (answer'[x] = "lost" /\ x[2] = turn[x[1]]
                                                  /\ turn'[x[1]] > turn[x[1]])
                    /\ x[2] >= turn'[x[1]] => answer'[x] = answer[x]
  <2> HIDE DEF active
  <2>1. ASSUME NEW x \in Tx
        PROVE  /\ answer'[x] = answer[x] \/ (answer'[x] = "lost" /\ x[2] = turn[x[1]]
                                             /\ turn'[x[1]] > turn[x[1]])
               /\ x[2] >= turn'[x[1]] => answer'[x] = answer[x]
    <3>1. x[1] \in Conn /\ x[2] \in Nat
      BY TxParts
    <3>2. turn[x[1]] \in Nat /\ turn'[x[1]] \in Nat /\ (x[1] \in active => turn'[x[1]] > turn[x[1]])
      BY <1>2, <1>3, <3>1
    <3>3. answer'[x] = IF x[1] \in active /\ x[2] = turn[x[1]] THEN "lost" ELSE answer[x]
      BY <1>1
    <3> QED
      BY <3>1, <3>2, <3>3
  <2> QED
    BY <2>1
<1> HIDE DEF active
<1>7. \A x \in Tx : /\ Committed(x)' = Committed(x)
                    /\ \A t \in Table : /\ AppliedOnce(x, t)' = AppliedOnce(x, t)
                                        /\ NoWorkOn(x, t)' = NoWorkOn(x, t)
  BY <1>1 DEF Committed, AppliedOnce, Planned, NoWorkOn
<1>8. ASSUME NEW x \in Tx PROVE History(x)'
  <2>1. x[1] \in Conn /\ x[2] \in Nat /\ History(x)
    BY TxParts DEF RInv
  <2>2. turn[x[1]] \in Nat /\ turn'[x[1]] \in Nat /\ turn'[x[1]] >= turn[x[1]]
    BY <1>2, <1>3, <2>1
  <2>3. frame'[x[1]].pc = "idle"
    BY <1>4, <1>5, <2>1
  <2>4. /\ x[2] >= turn'[x[1]] => x[2] >= turn[x[1]]
        /\ x[2] > turn'[x[1]] => x[2] > turn[x[1]]
        /\ x[2] < turn[x[1]] => x[2] < turn'[x[1]]
    BY <2>1, <2>2
  <2>5. Committed(x) => /\ answer'[x] \notin Refused /\ x[2] < turn'[x[1]]
                        /\ \A t \in Table : AppliedOnce(x, t)
    <3>1. ASSUME Committed(x), x[2] = turn[x[1]] PROVE x[2] < turn'[x[1]]
      <4>1. frame[x[1]].pc = "commit"
        BY <2>1, <2>2, <3>1 DEF History
      <4>2. turn[x[1]] <= MaxTx /\ x[1] \in active
        BY <2>1, <4>1, HeldIds DEF active
      <4> QED
        BY <1>3, <2>1, <2>2, <3>1, <4>2
    <3>2. Committed(x) => answer[x] \notin Refused /\ answer'[x] \in {answer[x], "lost"}
      BY <1>6, <2>1 DEF History
    <3>3. Committed(x) => x[2] <= turn[x[1]] /\ \A t \in Table : AppliedOnce(x, t)
      BY <2>1, <2>2 DEF History
    <3> QED
      BY <2>1, <2>2, <3>1, <3>2, <3>3 DEF Refused
  <2>6. answer'[x] = "ok" => answer[x] = "ok"
    BY <1>6
  <2>7. x[2] >= turn'[x[1]] => answer'[x] = "none"
    BY <1>6, <2>1, <2>4 DEF History
  <2>8. \A t \in Table :
           /\ \A n \in DOMAIN work'[x][t].puts : work'[x][t].puts[n].tx = x
           /\ \A n \in DOMAIN work'[x][t].removes : work'[x][t].removes[n].tx = x
    BY <1>1, <2>1 DEF History
  <2>9. x[2] > turn'[x[1]] => \A t \in Table : NoWorkOn(x, t)
    BY <2>1, <2>4 DEF History
  <2>10. answer[x] = "ok" => Committed(x) \/ \A t \in Table : NoWorkOn(x, t)
    BY <2>1 DEF History
  <2> QED
    BY <1>7, <2>3, <2>5, <2>6, <2>7, <2>8, <2>9, <2>10 DEF History
<1>9. ASSUME NEW c \in Conn PROVE WorkHeld(c)' /\ Prepared(c)'
  <2>1. turn'[c] <= MaxTx => \A t \in Table : NoWorkOn(Current(c), t)'
    <3>1. CASE c \in active
      <4>1. ASSUME turn'[c] <= MaxTx PROVE \A t \in Table : NoWorkOn(Current(c), t)'
        <5>0. turn'[c] \in 1..MaxTx
          <6>1. turn[c] \in 1..(MaxTx + 1)
            BY <1>2 DEF TypeOK
          <6> QED
            BY <1>2, <1>3, <4>1, <6>1
        <5>1. PICK x \in Tx : x = Current(c)'
          BY <5>0 DEF Current, Tx
        <5>2. x[1] = c /\ x[2] = turn'[c] /\ x[2] > turn[c]
          BY <1>2, <1>3, <3>1, <5>1 DEF Current
        <5>3. \A t \in Table : NoWorkOn(x, t)
          BY <5>2 DEF RInv, History
        <5> QED
          BY <1>1, <5>1, <5>3 DEF NoWorkOn
      <4> QED
        BY <4>1
    <3>2. CASE c \notin active
      <4>1. ASSUME turn[c] <= MaxTx PROVE \A t \in Table : NoWorkOn(Current(c), t)
        <5>1. Live(c) = {} /\ frame[c] = Idle
          BY <1>2, <1>3, <3>2, <4>1 DEF WorkHeld
        <5> QED
          BY <1>2, <1>4, <4>1, <5>1 DEF WorkHeld
      <4>2. Current(c)' = Current(c) /\ turn'[c] = turn[c]
        BY <1>3, <3>2 DEF Current
      <4> QED
        BY <1>1, <4>1, <4>2 DEF NoWorkOn
    <3> QED
      BY <3>1, <3>2
  <2> QED
    BY <1>4, <1>5, <2>1 DEF WorkHeld, Prepared
<1>10. \A p \in DOMAIN pool' : /\ p \in DOMAIN pool /\ pool'[p].by \notin Conn
                               /\ pool'[p].id = pool[p].id /\ pool'[p].kind = pool[p].kind
                               /\ pool'[p].tables = pool[p].tables
  BY <1>1, ForgetParts, NoConnAssumption
<1>11. Caller' /\ FreshIds'
  BY <1>1, <1>10 DEF RInv, Caller, FreshIds
<1>12. PICK owner \in [used -> Tx] : Owned(owner) /\ CommitsReady(owner)
  BY DEF RInv
<1>13. \A x \in Tx : Begun(x) => x[2] < turn'[x[1]]
  <2>1. ASSUME NEW x \in Tx, Begun(x) PROVE x[2] < turn'[x[1]]
    <3>1. x[1] \in Conn /\ x[2] \in Nat /\ x[2] <= MaxTx
      BY <1>2, TxParts
    <3>2. x[2] = turn[x[1]] /\ ~(x[2] < turn[x[1]]) => x[1] \in active
      BY <2>1, <3>1 DEF Begun, active
    <3> QED
      BY <1>2, <1>3, <2>1, <3>1, <3>2 DEF Begun
  <2> QED
    BY <2>1
<1>14. Owned(owner)'
  BY <1>1, <1>5, <1>12, <1>13 DEF Owned, Begun
<1>15. CommitsReady(owner)'
  <2>1. ASSUME NEW p \in DOMAIN pool', pool'[p].kind = "commit"
        PROVE  Ready(p, owner[pool[p].id])'
    <3>1. p \in DOMAIN pool /\ pool[p].kind = "commit" /\ pool[p].id \in used
      BY <1>10, <2>1 DEF IInv, DrawnIds
    <3>2. PICK x \in Tx : x = owner[pool[p].id]
      BY <1>12, <3>1
    <3>3. Ready(p, x) /\ Begun(x)
      BY <1>12, <3>1, <3>2 DEF CommitsReady, Owned
    <3>4. answer'[x] \notin Refused /\ ~Committed(x)' /\ x[2] < turn'[x[1]]
      BY <1>6, <1>7, <1>13, <3>3 DEF Ready, Refused
    <3>5. Ready(p, x)'
      BY <1>1, <1>10, <3>1, <3>3, <3>4, ReadyKeeps
    <3> QED
      BY <1>10, <3>2, <3>5
  <2> QED
    BY <2>1 DEF CommitsReady
<1> QED
  BY <1>1, <1>8, <1>9, <1>11, <1>12, <1>14, <1>15 DEF RInv

-----------------------------------------------------------------------------
(***************************************************************************)
(* The invariant holds.                                                    *)
(***************************************************************************)
LEMMA InitRInv == Init => RInv
<1> SUFFICES ASSUME Init PROVE RInv
  OBVIOUS
<1>1. /\ \A c \in Conn : frame[c] = Idle /\ Live(c) = {} /\ turn[c] = 1
      /\ used = {} /\ DOMAIN pool = {}
      /\ \A t \in Table : store[t] = << >> /\ \A i \in TxId : buffer[t][i] = << >>
      /\ \A x \in Tx : answer[x] = "none" /\ \A t \in Table : work[x][t] = NoWork
  BY DEF Init, Live
<1>2. Idle.pc = "idle" /\ Idle.tx = NoTx /\ Idle.affected = {} /\ Idle.call = "none"
  BY DEF Idle
<1>3. \A x \in Tx, t \in Table : NoWorkOn(x, t)
  BY <1>1 DEF NoWorkOn, NoWork
<1>4. ASSUME NEW c \in Conn PROVE WorkHeld(c) /\ Prepared(c)
  <2>1. Ids(c) = {} /\ Building(c) = {}
    BY <1>1, <1>2 DEF Ids, Building
  <2>2. turn[c] <= MaxTx => \A t \in Table : NoWorkOn(Current(c), t)
    <3>1. ASSUME turn[c] <= MaxTx PROVE Current(c) \in Tx
      BY <1>1, <3>1, BoundAssumption DEF Current, Tx
    <3> QED
      BY <1>3, <3>1
  <2> QED
    BY <1>1, <1>2, <2>1, <2>2 DEF WorkHeld, Prepared
<1>5. Caller /\ FreshIds
  BY <1>1 DEF Caller, FreshIds
<1>6. ASSUME NEW x \in Tx PROVE History(x)
  <2>1. ~Committed(x)
    BY <1>1 DEF Committed
  <2>2. /\ \A t \in Table : /\ \A n \in DOMAIN work[x][t].puts : work[x][t].puts[n].tx = x
                            /\ \A n \in DOMAIN work[x][t].removes : work[x][t].removes[n].tx = x
    BY <1>1 DEF NoWork
  <2>3. frame[x[1]].pc = "idle"
    BY <1>1, <1>2, TxParts
  <2> QED
    BY <1>1, <1>3, <2>1, <2>2, <2>3 DEF History
<1>7. \E owner \in [used -> Tx] : Owned(owner) /\ CommitsReady(owner)
  <2> DEFINE owner == [i \in used |-> CHOOSE x \in Tx : TRUE]
  <2>1. owner \in [used -> Tx]
    BY <1>1
  <2>2. Owned(owner)
    <3>1. \A c \in Conn : Ids(c) = {}
      BY <1>1, <1>2 DEF Ids
    <3> QED
      BY <1>1, <3>1 DEF Owned
  <2>3. CommitsReady(owner)
    BY <1>1 DEF CommitsReady
  <2> HIDE DEF owner
  <2> QED
    BY <2>1, <2>2, <2>3
<1> QED
  BY <1>4, <1>5, <1>6, <1>7 DEF RInv

LEMMA StatementRInv ==
  ASSUME CoreRollsBack, IInv, RInv, LiveTxRegistered, NEW c \in Conn, Statement(c)
  PROVE  RInv'
BY StartTransactionRInv, WritesRInv, EndsRInv, BcCommitRInv DEF Statement

LEMMA StepRInv ==
  ASSUME CoreRollsBack, IInv, RInv, LiveTxRegistered, NEW c \in Conn, Step(c)
  PROVE  RInv'
BY NextTableRInv, EndsRInv, AllPreparedRInv, SendRInv, SendFailsRInv, TimeOutRInv, ReturnsRInv,
   CleanReturnedRInv DEF Step

LEMMA SameRInv ==
  ASSUME RInv, UNCHANGED vars
  PROVE  RInv'
<1>1. /\ UNCHANGED <<ha, turn, used, frame, pool, buffer, store, work, answer>>
  BY DEF vars, session, chain, client
<1>2. \A c \in Conn : /\ Live(c)' = Live(c) /\ Ids(c)' = Ids(c) /\ Current(c)' = Current(c)
                      /\ Building(c)' = Building(c) /\ Smooth(c)' = Smooth(c)
  BY <1>1 DEF Live, Ids, Current, Building, Smooth
<1>3. \A x \in Tx : Committed(x)' = Committed(x) /\ Begun(x)' = Begun(x)
  BY <1>1 DEF Committed, Begun, Live
<1>4. \A x, t : /\ NoWorkOn(x, t)' = NoWorkOn(x, t) /\ Planned(x, t)' = Planned(x, t)
                /\ AppliedOnce(x, t)' = AppliedOnce(x, t)
  BY <1>1 DEF NoWorkOn, Planned, AppliedOnce
<1>5. \A i : Clear(i)' = Clear(i)
  BY <1>1 DEF Clear
<1>6. \A c \in Conn : WorkHeld(c)'
  BY <1>1, <1>2, <1>4 DEF RInv, WorkHeld
<1>7. \A c \in Conn : Prepared(c)'
  BY <1>1, <1>2, <1>4, <1>5 DEF RInv, Prepared
<1>8. Caller' /\ FreshIds'
  BY <1>1 DEF RInv, Caller, FreshIds
<1>9. \A x \in Tx : History(x)'
  BY <1>1, <1>3, <1>4 DEF RInv, History
<1>10. PICK owner \in [used -> Tx] : Owned(owner) /\ CommitsReady(owner)
  BY DEF RInv
<1>11. Owned(owner)'
  BY <1>1, <1>2, <1>10 DEF Owned, Begun, Live
<1>12. CommitsReady(owner)'
  BY <1>1, <1>10 DEF CommitsReady, Ready, Committed, Planned, NoWorkOn
<1> QED
  BY <1>1, <1>6, <1>7, <1>8, <1>9, <1>10, <1>11, <1>12 DEF RInv

LEMMA NextRInv ==
  ASSUME ~RevertAllowed, CoreRollsBack, IInv, IInv', RInv, LiveTxRegistered, [Next]_vars
  PROVE  RInv'
<1>1. CASE UNCHANGED vars
  BY <1>1, SameRInv
<1>2. ~Revert
  BY DEF Revert
<1>3. CASE Next
  BY <1>2, <1>3, StatementRInv, StepRInv, MineRInv, CrashRInv DEF Next
<1> QED
  BY <1>1, <1>3

\* What a transaction asked for is, at every moment, in ha_data, in the local
\* variables of bc_commit, or in the contracts' buffers, whole and unmixed: the
\* strengthening that the two theorems below rest on.
THEOREM WorkInvariant ==
  ASSUME ~RevertAllowed, CoreRollsBack
  PROVE  Spec => []RInv
<1>1. Init => RInv
  BY InitRInv
<1>2. IInv /\ IInv' /\ LiveTxRegistered /\ RInv /\ [Next]_vars => RInv'
  BY NextRInv
<1> QED
  BY <1>1, <1>2, InductiveInvariant, LiveRegistered, PTL DEF Spec

\* When bc_commit returns 0, and the core answers the client that its COMMIT
\* succeeded, the commit contract has applied the whole work of the transaction
\* to every table it wrote, once: for any connections, tables, calls given up
\* and mined late, and crashes.
THEOREM AnsweredOk ==
  ASSUME ~RevertAllowed, CoreRollsBack
  PROVE  Spec => []OkMeansApplied
<1>1. ASSUME IInv, RInv PROVE OkMeansApplied
  <2>1. ASSUME NEW x \in Tx, answer[x] = "ok", NEW t \in Table PROVE AppliedOnce(x, t)
    <3>1. CASE Committed(x)
      BY <1>1, <3>1 DEF RInv, History
    <3>2. CASE ~Committed(x)
      <4>1. NoWorkOn(x, t)
        BY <1>1, <2>1, <3>2 DEF RInv, History
      <4>2. Planned(x, t) = << >>
        BY <4>1 DEF NoWorkOn, Planned
      <4>3. store[t] \in Seq(Op)
        BY <1>1 DEF IInv, TypeOK
      <4>4. \A m \in DOMAIN store[t] : store[t][m].tx # x
        BY <3>2 DEF Committed
      <4>5. Len(store[t]) \in Nat /\ 0 \in 0..Len(store[t]) /\ Len(<< >>) = 0
        BY <4>3
      <4> QED
        BY <4>2, <4>4, <4>5 DEF AppliedOnce
    <3> QED
      BY <3>1, <3>2
  <2> QED
    BY <2>1 DEF OkMeansApplied
<1>2. IInv /\ RInv => OkMeansApplied
  BY <1>1
<1> QED
  BY <1>2, InductiveInvariant, WorkInvariant, PTL

-----------------------------------------------------------------------------
(***************************************************************************)
(* The refinement: which step of AtomicCommit every step is.               *)
(***************************************************************************)
\* A transaction is refused by an answer that says so, and by no other.
SameRefusals == \A x \in Tx : answer'[x] \in Refused <=> answer[x] \in Refused

LEMMA Stutters ==
  ASSUME SameRefusals, UNCHANGED <<store, work>>
  PROVE  UNCHANGED Abstract!vars
<1>1. \A x \in Tx : Phase(x)' = Phase(x)
  BY DEF SameRefusals, Phase, Committed, Refused
<1>2. [x \in Tx |-> Phase(x)]' = [x \in Tx |-> Phase(x)]
  BY <1>1
<1> QED
  BY <1>2 DEF Abstract!vars

LEMMA InitRefines == Init => Abstract!Init
<1> SUFFICES ASSUME Init PROVE Abstract!Init
  OBVIOUS
<1>1. \A x \in Tx : Phase(x) = "open"
  BY DEF Init, Phase, Committed
<1>2. [x \in Tx |-> Phase(x)] = [x \in Tx |-> "open"]
  BY <1>1
<1> QED
  BY <1>2 DEF Init, Abstract!Init, NoWork, Abstract!NoWork

\* Before a transaction ends it was not answered.
LEMMA EndPhases ==
  ASSUME IInv, RInv, NEW c \in Conn, turn[c] <= MaxTx, NEW how, End(c, how)
  PROVE  /\ Current(c) \in Tx /\ answer[Current(c)] = "none"
         /\ \A x \in Tx : answer'[x] = IF x = Current(c) THEN how ELSE answer[x]
<1>1. Current(c) \in Tx
  BY CurrentType DEF IInv
<1>2. PICK x \in Tx : x = Current(c)
  BY <1>1
<1>3. answer[x] = "none"
  <2>1. x[1] = c /\ x[2] = turn[c] /\ turn[c] \in Nat
    BY <1>2 DEF Current, IInv, TypeOK
  <2> QED
    BY <2>1 DEF RInv, History
<1>4. answer' = [answer EXCEPT ![Current(c)] = how] /\ answer \in [Tx -> Answers]
  BY DEF End, IInv, TypeOK
<1> QED
  BY <1>1, <1>2, <1>3, <1>4

\* The client is told of a success or of a failed commit call.
LEMMA AnswerStutters ==
  ASSUME IInv, RInv, NEW c \in Conn, turn[c] <= MaxTx, NEW how, End(c, how),
         how \notin Refused, UNCHANGED <<store, work>>
  PROVE  UNCHANGED Abstract!vars
<1>1. SameRefusals
  BY EndPhases DEF SameRefusals, Refused
<1> QED
  BY <1>1, Stutters

\* The client is told that its transaction was rolled back or that it could not
\* be prepared.
LEMMA AnswerAborts ==
  ASSUME IInv, RInv, NEW c \in Conn, turn[c] <= MaxTx, NEW how, End(c, how),
         how \in Refused, frame[c].pc # "commit", UNCHANGED <<store, work>>
  PROVE  Abstract!Next
<1>1. PICK x \in Tx : x = Current(c) /\ answer[x] = "none"
  BY EndPhases
<1>2. ~Committed(x)
  <2>1. x[1] = c /\ x[2] = turn[c] /\ turn[c] \in Nat
    BY <1>1 DEF Current, IInv, TypeOK
  <2> QED
    BY <2>1 DEF RInv, History
<1>3. Phase(x) = "open" /\ Phase(x)' = "aborted"
  <2>1. Phase(x) = "open"
    BY <1>1, <1>2 DEF Phase
  <2>2. answer'[x] = how /\ Committed(x)' = Committed(x)
    BY <1>1, EndPhases DEF Committed
  <2> QED
    BY <1>2, <2>1, <2>2 DEF Phase, Refused
<1>4. ASSUME NEW y \in Tx, y # x PROVE Phase(y)' = Phase(y)
  BY <1>1, <1>4, EndPhases DEF Phase, Committed
<1>5. [y \in Tx |-> Phase(y)]' = [[y \in Tx |-> Phase(y)] EXCEPT ![x] = "aborted"]
  BY <1>3, <1>4
<1>6. Abstract!Abort(x)
  BY <1>3, <1>5 DEF Abstract!Abort
<1> QED
  BY <1>6 DEF Abstract!Next

LEMMA WriteRefines ==
  ASSUME IInv, RInv, NEW c \in Conn, NEW t \in Table, WriteRow(c, t) \/ DeleteRow(c, t)
  PROVE  Abstract!Next
<1>1. CanIssue(c)
  BY DEF WriteRow, DeleteRow, CanWrite
<1>2. PICK x \in Tx : x = Current(c)
  BY <1>1, CurrentType DEF CanIssue, IInv
<1>3. /\ \E op \in [tx : {x}, deleteEntry : BOOLEAN] :
           \/ work' = [work EXCEPT ![x][t].puts = Append(@, op)]
           \/ work' = [work EXCEPT ![x][t].removes = Append(@, op)]
      /\ UNCHANGED <<store, answer>>
  <2>1. /\ [tx |-> x, deleteEntry |-> FALSE] \in [tx : {x}, deleteEntry : BOOLEAN]
        /\ [tx |-> x, deleteEntry |-> TRUE] \in [tx : {x}, deleteEntry : BOOLEAN]
    OBVIOUS
  <2>2. CASE WriteRow(c, t)
    <3>1. /\ work' = [work EXCEPT ![x][t].puts = Append(@, [tx |-> x, deleteEntry |-> FALSE])]
          /\ UNCHANGED <<store, answer>>
      BY <1>2, <2>2 DEF WriteRow, chain
    <3> QED
      BY <2>1, <3>1
  <2>3. CASE DeleteRow(c, t)
    <3>1. /\ work' = [work EXCEPT ![x][t].removes = Append(@, [tx |-> x, deleteEntry |-> TRUE])]
          /\ UNCHANGED <<store, answer>>
      BY <1>2, <2>3 DEF DeleteRow, chain
    <3> QED
      BY <2>1, <3>1
  <2> QED
    BY <2>2, <2>3
<1>4. Phase(x) = "open"
  <2>1. x[1] = c /\ x[2] = turn[c] /\ turn[c] \in Nat /\ frame[c].pc = "idle"
    BY <1>1, <1>2 DEF CanIssue, Current, IInv, TypeOK
  <2>2. answer[x] = "none" /\ ~Committed(x)
    BY <2>1 DEF RInv, History
  <2> QED
    BY <2>2 DEF Phase
<1>5. [y \in Tx |-> Phase(y)]' = [y \in Tx |-> Phase(y)]
  <2>1. \A y \in Tx : Phase(y)' = Phase(y)
    BY <1>3 DEF Phase, Committed
  <2> QED
    BY <2>1
<1>6. PICK op \in [tx : {x}, deleteEntry : BOOLEAN] :
        \/ work' = [work EXCEPT ![x][t].puts = Append(@, op)]
        \/ work' = [work EXCEPT ![x][t].removes = Append(@, op)]
  BY <1>3
<1>7. Abstract!Put(x, t, op) \/ Abstract!Remove(x, t, op)
  BY <1>6 DEF Abstract!Put, Abstract!Remove
<1>8. op \in [y \in Tx |-> [tx : {y}, deleteEntry : BOOLEAN]][x]
  BY <1>6
<1>9. Abstract!Issue(x)
  BY <1>3, <1>4, <1>5, <1>7, <1>8 DEF Abstract!Issue
<1> QED
  BY <1>9 DEF Abstract!Next

\* The block with a commit call is the step that commits, the other blocks do
\* not show.
LEMMA MineRefines ==
  ASSUME IInv, IInv', RInv, Mine
  PROVE  [Abstract!Next]_(Abstract!vars)
<1>1. PICK owner \in [used -> Tx] : Owned(owner) /\ CommitsReady(owner)
  BY DEF RInv
<1>2. UNCHANGED <<work, answer>> /\ pool[1].id \in used
  BY MineParts
<1>3. IF pool[1].kind = "commit"
      THEN /\ Ready(1, owner[pool[1].id])
           /\ \A t \in Table : store'[t] = store[t] \o Planned(owner[pool[1].id], t)
      ELSE store' = store
  BY <1>1, MineStore
<1>4. CASE pool[1].kind # "commit"
  <2>1. SameRefusals
    BY <1>2 DEF SameRefusals
  <2> QED
    BY <1>2, <1>3, <1>4, <2>1, Stutters
<1>5. CASE pool[1].kind = "commit"
  <2>1. PICK o \in Tx : o = owner[pool[1].id]
    BY <1>2
  <2>2. Ready(1, o) /\ \A t \in Table : store'[t] = store[t] \o Planned(o, t)
    BY <1>3, <1>5, <2>1
  <2>3. Committed(o)' /\ \A x \in Tx : x # o => Committed(x)' = Committed(x)
    BY <1>5, <2>2, MineCommits
  <2>4. Phase(o) = "open" /\ Phase(o)' = "committed"
    BY <2>2, <2>3 DEF Phase, Ready, Refused
  <2>5. \A x \in Tx : x # o => Phase(x)' = Phase(x)
    BY <1>2, <2>3 DEF Phase
  <2>6. [x \in Tx |-> Phase(x)]' = [[x \in Tx |-> Phase(x)] EXCEPT ![o] = "committed"]
    BY <2>4, <2>5
  <2>7. store' = [t \in Table |-> store[t] \o work[o][t].puts \o work[o][t].removes]
    <3>1. store' \in [Table -> Seq(Op)] /\ store \in [Table -> Seq(Op)]
      BY DEF IInv, TypeOK
    <3>2. ASSUME NEW t \in Table
          PROVE  store'[t] = store[t] \o work[o][t].puts \o work[o][t].removes
      <4>1. /\ store[t] \in Seq(Op)
            /\ work[o][t].puts \in Seq(Op) /\ work[o][t].removes \in Seq(Op)
        BY DEF IInv, TypeOK
      <4>2. store'[t] = store[t] \o (work[o][t].puts \o work[o][t].removes)
        BY <2>2 DEF Planned
      <4>3. \A s, p, r \in Seq(Op) : s \o (p \o r) = s \o p \o r
        BY ConcatAssociative
      <4> QED
        BY <4>1, <4>2, <4>3, Zenon
    <3> QED
      BY <3>1, <3>2
  <2>8. Abstract!Commit(o)
    BY <1>2, <2>4, <2>6, <2>7 DEF Abstract!Commit
  <2> QED
    BY <2>8 DEF Abstract!Next
<1> QED
  BY <1>4, <1>5

\* Transactions that a crash ends are lost, not refused.
LEMMA CrashRefines ==
  ASSUME IInv, RInv, Crash
  PROVE  UNCHANGED Abstract!vars
<1> DEFINE active == {c \in Conn : turn[c] <= MaxTx /\ (Live(c) # {} \/ frame[c].pc # "idle")}
<1>1. /\ answer' = [x \in Tx |-> IF x[1] \in active /\ x[2] = turn[x[1]] THEN "lost"
                                                                         ELSE answer[x]]
      /\ UNCHANGED <<store, work>>
  BY DEF Crash
<1> HIDE DEF active
<1>2. ASSUME NEW x \in Tx PROVE answer'[x] \in Refused <=> answer[x] \in Refused
  <2>1. x[1] \in Conn /\ turn[x[1]] \in Nat /\ History(x)
    BY TxParts DEF IInv, TypeOK, RInv
  <2>2. x[2] = turn[x[1]] => answer[x] = "none"
    BY <2>1 DEF History
  <2> QED
    BY <1>1, <2>2 DEF Refused
<1> QED
  BY <1>1, <1>2, Stutters DEF SameRefusals

LEMMA StatementRefines ==
  ASSUME IInv, RInv, NEW c \in Conn, Statement(c)
  PROVE  [Abstract!Next]_(Abstract!vars)
<1>1. ASSUME UNCHANGED <<store, work, answer>> PROVE UNCHANGED Abstract!vars
  BY <1>1, Stutters DEF SameRefusals
<1>2. ASSUME NEW t \in Table, StartTransaction(c, t) PROVE UNCHANGED Abstract!vars
  BY <1>1, <1>2 DEF StartTransaction, chain, client
<1>3. ASSUME Rollback(c) PROVE Abstract!Next
  <2>1. /\ turn[c] <= MaxTx /\ End(c, "rolledBack") /\ frame[c].pc # "commit"
        /\ "rolledBack" \in Refused /\ UNCHANGED <<store, work>>
    BY <1>3 DEF Rollback, CanIssue, chain, Refused
  <2> QED
    BY <2>1, AnswerAborts
<1>4. ASSUME CommitUnregistered(c) PROVE UNCHANGED Abstract!vars
  <2>1. /\ turn[c] <= MaxTx /\ End(c, "ok")
        /\ "ok" \notin Refused /\ UNCHANGED <<store, work>>
    BY <1>4 DEF CommitUnregistered, CanIssue, chain, Refused
  <2> QED
    BY <2>1, AnswerStutters
<1>5. ASSUME BcCommit(c) PROVE UNCHANGED Abstract!vars
  BY <1>1, <1>5 DEF BcCommit, chain, client
<1> QED
  BY <1>2, <1>3, <1>4, <1>5, WriteRefines DEF Statement

LEMMA StepRefines ==
  ASSUME IInv, RInv, NEW c \in Conn, Step(c)
  PROVE  [Abstract!Next]_(Abstract!vars)
<1>1. ASSUME UNCHANGED <<store, work, answer>> PROVE UNCHANGED Abstract!vars
  BY <1>1, Stutters DEF SameRefusals
<1>2. ASSUME NEW t \in Table, NextTable(c, t) PROVE UNCHANGED Abstract!vars
  BY <1>1, <1>2 DEF NextTable, chain, client
<1>3. ASSUME AllPrepared(c) \/ PutsReturned(c) \/ RemovesReturned(c) \/ CleanReturned(c)
      PROVE  UNCHANGED Abstract!vars
  BY <1>1, <1>3 DEF AllPrepared, PutsReturned, RemovesReturned, CleanReturned, chain, client
<1>4. ASSUME Send(c) \/ SendFails(c) \/ TimeOut(c) PROVE UNCHANGED Abstract!vars
  BY <1>1, <1>4 DEF Send, SendFails, TimeOut, client
<1>5. ASSUME NothingToCommit(c) \/ CommitReturned(c) PROVE UNCHANGED Abstract!vars
  <2>1. frame[c].pc # "idle" /\ UNCHANGED <<store, work>>
    BY <1>5 DEF NothingToCommit, CommitReturned, chain
  <2>2. PICK how \in {"ok", "commitFailed"} : End(c, how)
    BY <1>5 DEF NothingToCommit, CommitReturned
  <2>3. turn[c] <= MaxTx /\ how \notin Refused
    BY <2>1, HeldIds DEF Refused
  <2> QED
    BY <2>1, <2>2, <2>3, AnswerStutters
<1>6. ASSUME PrepareFailed(c) PROVE Abstract!Next
  <2>1. /\ frame[c].pc # "idle" /\ frame[c].pc # "commit" /\ End(c, "prepareFailed")
        /\ "prepareFailed" \in Refused /\ UNCHANGED <<store, work>>
    BY <1>6 DEF PrepareFailed, chain, Refused
  <2> QED
    BY <2>1, HeldIds, AnswerAborts
<1> QED
  BY <1>2, <1>3, <1>4, <1>5, <1>6 DEF Step

LEMMA NextRefines ==
  ASSUME ~RevertAllowed, IInv, IInv', RInv, [Next]_vars
  PROVE  [Abstract!Next]_(Abstract!vars)
<1>1. CASE UNCHANGED vars
  BY <1>1, Stutters DEF SameRefusals, vars, chain, client
<1>2. ~Revert
  BY DEF Revert
<1>3. CASE Next
  BY <1>2, <1>3, StatementRefines, StepRefines, MineRefines, CrashRefines DEF Next
<1> QED
  BY <1>1, <1>3

\* COMMIT over several tables is atomic: whatever calls are lost, given up or
\* mined late, and wherever the server goes down, the block that has the commit
\* call applies the whole work of one open transaction to all its tables, no
\* other block applies any, and an aborted transaction stays aborted.
THEOREM Refinement ==
  ASSUME ~RevertAllowed, CoreRollsBack
  PROVE  Spec => ImplementsAtomicCommit
<1>1. Init => Abstract!Init
  BY InitRefines
<1>2. IInv /\ IInv' /\ RInv /\ [Next]_vars => [Abstract!Next]_(Abstract!vars)
  BY NextRefines
<1> QED
  BY <1>1, <1>2, InductiveInvariant, WorkInvariant, PTL
  DEF Spec, ImplementsAtomicCommit, Abstract!Spec
=============================================================================

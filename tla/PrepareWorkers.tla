--------------------------- MODULE PrepareWorkers ---------------------------
(***************************************************************************)
(* Immediate mode (bc_tx_prepare_immediately is 1): each put and remove of *)
(* a transaction is sent to the buffer of its contract at once, by a       *)
(* thread of its own (blockchain_table_tx.cpp), and bc_commit only waits   *)
(* for these workers before it sends the commit.  The workers of a         *)
(* transaction draw their nonces in any order; each reports its result     *)
(* into a flag of its table transaction.                                   *)
(*                                                                         *)
(* One transaction of one connection.  The setting is global: any session  *)
(* may change it while the transaction runs.  A table transaction          *)
(* remembers the value of its creation, bc_commit and bc_rollback read it  *)
(* again.  See CommitProtocol for transactions that meet each other, and   *)
(* EthConnector for the queue of calls that is taken for granted here.     *)
(***************************************************************************)
EXTENDS Integers, Sequences, FiniteSets, SequencesExt

CONSTANTS
  Table,       \* the SQL tables, one contract each
  NoTx,        \* a null pointer to a table transaction
  NoTable,     \* bc_commit and bc_rollback are between two tables
  Main,        \* the thread of the connection
  NoOne,       \* the caller of a call nobody waits for any more
  Settings,    \* the values that the setting may have at first
  Switches,    \* the values that other sessions give to it
  MaxOps,      \* bound: operations of the transaction
  MaxHoles     \* bound: nonces that are lost with a failed send

Worker == 1..MaxOps
Actor  == Worker \cup {Main}

ASSUME ActorAssumption == Main \notin Worker /\ NoOne \notin Actor
ASSUME TableAssumption == NoTable \notin Table
ASSUME FlagAssumption  == Settings \subseteq BOOLEAN /\ Switches \subseteq BOOLEAN
ASSUME BoundAssumption == MaxOps \in Nat /\ MaxHoles \in Nat

\* The key of an operation does not matter here: two workers on one key race as
\* any two do.
Op == [table : Table, deleteEntry : BOOLEAN]

(***************************************************************************)
(* immediate: the member prepare_immediately.  puts, removes: the numbers  *)
(* of the operations it collected.  success: commit_prepare_success.       *)
(***************************************************************************)
TableTx == [immediate : BOOLEAN, puts : Seq(Worker), removes : Seq(Worker),
            success : BOOLEAN]

ASSUME NoTxAssumption == NoTx \notin TableTx

VARIABLES
  setting,     \* config_tx_prepare_immediately
  tx,          \* the table transactions, until their destruction
  ops,         \* the operations of the transaction, in program order
  frame,       \* bc_commit or bc_rollback
  call,        \* of each thread: how far its call of the connector is
  pool,        \* calls that were sent and not yet mined, by nonce
  buffer,      \* of each contract: the buffer of this transaction
  store,       \* the operations applied to each contract, in order
  answer       \* what the client was told

chain == <<buffer, store>>
vars  == <<setting, tx, ops, frame, call, pool, chain, answer>>

(***************************************************************************)
(* pc: what the connection's thread does or waits for.  todo: the tables   *)
(* its loop has left.  affected: affected_tables.  cur: the table of the   *)
(* iteration.  ok: success_prepare, FALSE in a rollback.                   *)
(***************************************************************************)
Frame == [pc : {"open", "tables", "workers", "puts", "removes", "undo", "commit",
                "rollback", "quit", "clear", "drop", "ended"},
          todo : SUBSET Table, affected : SUBSET Table, cur : Table \cup {NoTable},
          ok : BOOLEAN]

Entry == [kind : {"op", "batch", "clean", "commit", "hole"}, tables : SUBSET Table,
          ops : Seq(Worker), by : Actor \cup {NoOne}]

Hole == [kind |-> "hole", tables |-> {}, ops |-> << >>, by |-> NoOne]

Live == {t \in Table : tx[t] # NoTx}

\* The operations on table t.
On(t) == {n \in DOMAIN ops : ops[n].table = t}

Running == {n \in Worker : call[n] \notin {"none", "done"}}

\* wait_for_commit_prepare_workers returns.
Joined(t) == On(t) \cap Running = {}

-----------------------------------------------------------------------------
Init ==
  /\ setting \in Settings
  /\ tx = [t \in Table |-> NoTx]
  /\ ops = << >>
  /\ frame = [pc |-> "open", todo |-> {}, affected |-> {}, cur |-> NoTable, ok |-> TRUE]
  /\ call = [a \in Actor |-> "none"]
  /\ pool = << >>
  /\ buffer = [t \in Table |-> << >>]
  /\ store = [t \in Table |-> << >>]
  /\ answer = "none"

\* SET GLOBAL bc_tx_prepare_immediately, in any session.
Switch ==
  /\ frame.pc # "ended"
  /\ setting' \in Switches \ {setting}
  /\ UNCHANGED <<tx, ops, frame, call, pool, chain, answer>>

StartTransaction(t) ==
  /\ frame.pc = "open" /\ tx[t] = NoTx
  /\ tx' = [tx EXCEPT ![t] = [immediate |-> setting, puts |-> << >>, removes |-> << >>,
                              success |-> TRUE]]
  /\ UNCHANGED <<setting, ops, frame, call, pool, chain, answer>>

\* add_put and add_remove: in immediate mode a thread starts that sends the
\* operation.
Add(op) ==
  LET n == Len(ops) + 1
      t == op.table
  IN  /\ frame.pc = "open" /\ tx[t] # NoTx
      /\ n \in Worker
      /\ ops' = Append(ops, op)
      /\ tx' = IF op.deleteEntry THEN [tx EXCEPT ![t].removes = Append(@, n)]
                                 ELSE [tx EXCEPT ![t].puts = Append(@, n)]
      /\ call' = [call EXCEPT ![n] = IF tx[t].immediate THEN "started" ELSE "none"]
      /\ UNCHANGED <<setting, frame, pool, chain, answer>>

\* Mutant of Report: the last worker decides.
ReportLast(n) ==
  /\ call[n] \in {"mined", "failed"}
  /\ tx' = IF tx[ops[n].table] = NoTx THEN tx
           ELSE [tx EXCEPT ![ops[n].table].success = call[n] = "mined"]
  /\ call' = [call EXCEPT ![n] = "done"]
  /\ UNCHANGED <<setting, ops, frame, pool, chain, answer>>

\* The worker notes its result, under the mutex of the table transaction, and
\* ends.
Report(n) ==
  /\ call[n] \in {"mined", "failed"}
  /\ tx' = IF tx[ops[n].table] = NoTx THEN tx
           ELSE [tx EXCEPT ![ops[n].table].success = @ /\ call[n] = "mined"]
  /\ call' = [call EXCEPT ![n] = "done"]
  /\ UNCHANGED <<setting, ops, frame, pool, chain, answer>>
-----------------------------------------------------------------------------
(***************************************************************************)
(* bc_commit.                                                              *)
(***************************************************************************)
\* A step of the connection's thread that calls nobody.
Go(f) ==
  /\ frame' = f
  /\ UNCHANGED <<setting, tx, ops, call, pool, chain, answer>>

BcCommit ==
  /\ frame.pc = "open" /\ Live # {}
  /\ Go([frame EXCEPT !.pc = "tables", !.todo = Live])

\* is_read_only looks at the workers or at the operations; the two agree.
IsReadOnly(t) == tx[t].puts = << >> /\ tx[t].removes = << >>

\* The table transaction is moved out of ha_data; here it stays where it is
\* until it is destroyed.
NextTable(t) ==
  /\ frame.pc = "tables" /\ t \in frame.todo
  /\ Go(IF IsReadOnly(t) THEN [frame EXCEPT !.pc = "drop", !.cur = t]
        ELSE [frame EXCEPT !.cur = t, !.affected = @ \cup {t},
                !.pc = IF setting THEN "workers"
                       ELSE IF tx[t].puts # << >> THEN "puts" ELSE "removes"])

\* The table is prepared, or not.
Judged(ok) == IF ok THEN [frame EXCEPT !.pc = "drop"]
                    ELSE [frame EXCEPT !.pc = "undo", !.ok = FALSE, !.todo = frame.affected]

\* Mutant of WorkersReturned: the flag is read before the workers ended.
WorkersIgnored == frame.pc = "workers" /\ Go(Judged(tx[frame.cur].success))

WorkersReturned ==
  /\ frame.pc = "workers" /\ Joined(frame.cur)
  /\ Go(Judged(tx[frame.cur].success))

AllPrepared ==
  /\ frame.pc = "tables" /\ frame.todo = {} /\ frame.affected # {}
  /\ Go([frame EXCEPT !.pc = "commit"])

End(how) ==
  /\ frame' = [frame EXCEPT !.pc = "ended"]
  /\ answer' = how

NothingToCommit ==
  /\ frame.pc = "tables" /\ frame.todo = {} /\ frame.affected = {}
  /\ End("ok")
  /\ UNCHANGED <<setting, tx, ops, call, pool, chain>>

\* Mutant of DestructorReturned: the workers are left alone.
DestructorReturnedAtOnce ==
  /\ frame.pc = "drop"
  /\ tx' = [tx EXCEPT ![frame.cur] = NoTx]
  /\ frame' = IF frame.ok
              THEN [frame EXCEPT !.pc = "tables", !.cur = NoTable, !.todo = @ \ {frame.cur}]
              ELSE [frame EXCEPT !.pc = "rollback", !.cur = NoTable]
  /\ UNCHANGED <<setting, ops, call, pool, chain, answer>>

\* Mutant of DestructorReturned: the loop does not move on.
DestructorReturnedInPlace ==
  /\ frame.pc = "drop" /\ Joined(frame.cur)
  /\ tx' = [tx EXCEPT ![frame.cur] = NoTx]
  /\ frame' = [frame EXCEPT !.pc = IF frame.ok THEN "tables" ELSE "rollback", !.cur = NoTable]
  /\ UNCHANGED <<setting, ops, call, pool, chain, answer>>

\* At the end of an iteration, or when bc_commit returns, the table transaction
\* is destroyed, after its workers ended.  After a failure the core calls
\* bc_rollback.
DestructorReturned ==
  /\ frame.pc = "drop" /\ Joined(frame.cur)
  /\ tx' = [tx EXCEPT ![frame.cur] = NoTx]
  /\ frame' = IF frame.ok
              THEN [frame EXCEPT !.pc = "tables", !.cur = NoTable, !.todo = @ \ {frame.cur}]
              ELSE [frame EXCEPT !.pc = "rollback", !.cur = NoTable]
  /\ UNCHANGED <<setting, ops, call, pool, chain, answer>>
-----------------------------------------------------------------------------
(***************************************************************************)
(* bc_rollback.                                                            *)
(***************************************************************************)
Rollback ==
  /\ frame.pc = "open" /\ Live # {}
  /\ Go([frame EXCEPT !.pc = "rollback", !.ok = FALSE])

RollbackTable(t) ==
  /\ frame.pc = "rollback" /\ t \in Live
  /\ Go([frame EXCEPT !.cur = t, !.pc = IF setting THEN "quit" ELSE "drop"])

\* Mutant of WorkersQuit: rollback does not wait.
WorkersQuitLater == frame.pc = "quit" /\ Go([frame EXCEPT !.pc = "clear"])

WorkersQuit ==
  /\ frame.pc = "quit" /\ Joined(frame.cur)
  /\ Go([frame EXCEPT !.pc = "clear"])

RolledBack ==
  /\ frame.pc = "rollback" /\ Live = {}
  /\ End("rolledBack")
  /\ UNCHANGED <<setting, tx, ops, call, pool, chain>>
-----------------------------------------------------------------------------
(***************************************************************************)
(* Calls of the connector, by a worker or by the connection's thread.      *)
(***************************************************************************)
Calling(a) ==
  IF a \in Worker THEN call[a] = "started"
  ELSE call[Main] = "none" /\ frame.pc \in {"puts", "removes", "undo", "commit", "clear"}

MainRequest(t) ==
  [kind   |-> CASE frame.pc \in {"puts", "removes"} -> "batch"
                [] frame.pc = "commit" -> "commit"
                [] OTHER -> "clean",
   tables |-> IF frame.pc = "commit" THEN frame.affected ELSE {t},
   ops    |-> CASE frame.pc = "puts" -> tx[t].puts [] frame.pc = "removes" -> tx[t].removes
                [] OTHER -> << >>,
   by     |-> Main]

\* The undo loop visits the affected tables, the other calls are for cur.
Requests(a) ==
  IF a \in Worker
  THEN {[kind |-> "op", tables |-> {ops[a].table}, ops |-> <<a>>, by |-> a]}
  ELSE {MainRequest(t) : t \in IF frame.pc = "undo" THEN frame.todo ELSE {frame.cur}}

Advance(a, request, how) ==
  /\ call' = [call EXCEPT ![a] = how]
  /\ frame' = IF a = Main /\ frame.pc = "undo"
              THEN [frame EXCEPT !.todo = @ \ request.tables] ELSE frame

Send(a) ==
  /\ Calling(a)
  /\ \E request \in Requests(a) :
       /\ pool' = Append(pool, request)
       /\ Advance(a, request, "sent")
  /\ UNCHANGED <<setting, tx, ops, chain, answer>>

Holes == {i \in DOMAIN pool : pool[i].kind = "hole"}

\* The call does not reach the node, and its nonce may be lost with it.
SendFails(a) ==
  /\ Calling(a)
  /\ \E request \in Requests(a) : Advance(a, request, "failed")
  /\ \/ Cardinality(Holes) < MaxHoles /\ pool' = Append(pool, Hole)
     \/ UNCHANGED pool
  /\ UNCHANGED <<setting, tx, ops, chain, answer>>

\* Mutant of TimeOut: a worker polls until its call is mined.
TimeOutOfMain(a) ==
  /\ a = Main /\ call[a] \in {"sent", "mined"}
  /\ call' = [call EXCEPT ![a] = "failed"]
  /\ pool' = [i \in DOMAIN pool |->
                IF pool[i].by = a THEN [pool[i] EXCEPT !.by = NoOne] ELSE pool[i]]
  /\ UNCHANGED <<setting, tx, ops, frame, chain, answer>>

\* The waiting time is over, perhaps just after the call was mined.
TimeOut(a) ==
  /\ call[a] \in {"sent", "mined"}
  /\ call' = [call EXCEPT ![a] = "failed"]
  /\ pool' = [i \in DOMAIN pool |->
                IF pool[i].by = a THEN [pool[i] EXCEPT !.by = NoOne] ELSE pool[i]]
  /\ UNCHANGED <<setting, tx, ops, frame, chain, answer>>

Answered == call[Main] \in {"mined", "failed"}

Return(f) ==
  /\ Answered
  /\ frame' = f
  /\ call' = [call EXCEPT ![Main] = "none"]
  /\ UNCHANGED <<setting, tx, ops, pool, chain>>

PutsReturned ==
  /\ frame.pc = "puts"
  /\ Return(IF tx[frame.cur].removes # << >>
            THEN [frame EXCEPT !.pc = "removes", !.ok = call[Main] = "mined"]
            ELSE Judged(call[Main] = "mined"))
  /\ UNCHANGED answer

RemovesReturned ==
  /\ frame.pc = "removes"
  /\ Return(Judged(frame.ok /\ call[Main] = "mined"))
  /\ UNCHANGED answer

\* The result of a clean is ignored.
CleanReturned ==
  /\ frame.pc \in {"undo", "clear"}
  /\ Return(IF frame.pc = "undo" /\ frame.todo # {} THEN frame
            ELSE [frame EXCEPT !.pc = "drop"])
  /\ UNCHANGED answer

CommitReturned ==
  /\ frame.pc = "commit"
  /\ Return([frame EXCEPT !.pc = "ended"])
  /\ answer' = IF call[Main] = "mined" THEN "ok" ELSE "commitFailed"

\* The chain mines the pool in nonce order.
Mine ==
  /\ pool # << >> /\ Head(pool).kind # "hole"
  /\ LET e == Head(pool)
     IN  /\ buffer' = [t \in Table |-> IF t \notin e.tables THEN buffer[t]
                         ELSE IF e.kind \in {"op", "batch"} THEN buffer[t] \o e.ops
                         ELSE << >>]
         /\ store' = [t \in Table |-> IF e.kind = "commit" /\ t \in e.tables
                                      THEN store[t] \o buffer[t] ELSE store[t]]
         /\ call' = IF e.by = NoOne THEN call ELSE [call EXCEPT ![e.by] = "mined"]
  /\ pool' = Tail(pool)
  /\ UNCHANGED <<setting, tx, ops, frame, answer>>

Client ==
  \/ \E t \in Table : StartTransaction(t)
  \/ \E op \in Op : Add(op)
  \/ BcCommit
  \/ Rollback

\* A step of the connection's thread inside bc_commit or bc_rollback.
MainStep ==
  \/ \E t \in Table : NextTable(t) \/ RollbackTable(t)
  \/ WorkersReturned \/ AllPrepared \/ NothingToCommit
  \/ DestructorReturned
  \/ WorkersQuit \/ RolledBack
  \/ Send(Main) \/ SendFails(Main) \/ TimeOut(Main)
  \/ PutsReturned \/ RemovesReturned \/ CleanReturned \/ CommitReturned

WorkerStep(n) == Send(n) \/ SendFails(n) \/ TimeOut(n) \/ Report(n)

Next ==
  \/ Switch
  \/ Client
  \/ MainStep
  \/ \E n \in Worker : WorkerStep(n)
  \/ Mine

Spec == Init /\ [][Next]_vars

\* The threads run on, their polling loops end by themselves, and each HTTP request
\* is presumed to end: curl has no time-out, see EthConnector.
FairSpec == Spec /\ WF_vars(MainStep) /\ \A n \in Worker : WF_vars(WorkerStep(n))
-----------------------------------------------------------------------------
TypeOK ==
  /\ setting \in BOOLEAN
  /\ tx \in [Table -> TableTx \cup {NoTx}]
  /\ ops \in Seq(Op) /\ Len(ops) <= MaxOps
  /\ frame \in Frame
  /\ frame.pc = "tables" => frame.todo \subseteq Live
  /\ frame.pc \in {"workers", "puts", "removes", "quit", "clear", "drop"} => frame.cur \in Live
  /\ call \in [Actor -> {"none", "started", "sent", "mined", "failed", "done"}]
  /\ pool \in Seq(Entry)
  /\ buffer \in [Table -> Seq(Worker)]
  /\ store \in [Table -> Seq(Worker)]
  /\ answer \in {"none", "ok", "commitFailed", "rolledBack"}

\* A worker uses the identifier, the flag and the mutex of its table
\* transaction by reference: none outlives it, on no path through COMMIT,
\* ROLLBACK and their failures, also when the setting was switched off.
WorkersHaveTheirTx == \A n \in Running : tx[ops[n].table] # NoTx

\* When the commit is sent, every operation of the transaction is in the buffer
\* of its contract; whatever else is in front of it in the pool is a late copy of
\* such an operation, never a clean, and nothing of the transaction is behind it.
CommitIsPrepared ==
  \A i \in DOMAIN pool : pool[i].kind = "commit" =>
    /\ i = Len(pool)
    /\ \A t \in Table : On(t) \subseteq Range(buffer[t])
    /\ \A j \in 1..(i - 1) : pool[j].kind # "clean"

\* Something of the transaction took effect.
Published == \E t \in Table : store[t] # << >>

\* Once COMMIT was answered with success, or anything of the transaction took
\* effect, the operations of all its workers have, on all tables: although each
\* reported for itself, and also when the commit call was given up and mined late.
\* In what order, of two operations on one row, the race for the nonces decides.
AppliedWhole ==
  answer = "ok" \/ Published => \A t \in Table : On(t) \subseteq Range(store[t])

\* As long as the setting is on, no operation is sent into a buffer behind the
\* call that cleans it: a clean that is mined leaves nothing behind. (One that is
\* lost leaves the buffer, which no commit will name.)
CleanIsLast ==
  setting => \A i, j \in DOMAIN pool :
    pool[i].kind = "clean" /\ pool[j].kind = "op" /\ pool[i].tables = pool[j].tables => j < i

\* COMMIT and ROLLBACK return, whatever became of the workers and their calls.
CommitReturns == frame.pc \notin {"open", "ended"} ~> frame.pc = "ended"
=============================================================================

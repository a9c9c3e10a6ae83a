---------------------------- MODULE AtomicCommit ----------------------------
(***************************************************************************)
(* What COMMIT promises a client that wrote to several tables: the whole   *)
(* work of a transaction enters the stores of all its tables in one step,  *)
(* or none of it ever does.  A transaction is decided once.                *)
(***************************************************************************)
EXTENDS Sequences

CONSTANTS
  Table,     \* the SQL tables, one contract each
  Tx,        \* the transactions of the clients
  Op         \* the operations that each transaction may issue

VARIABLES
  phase,     \* "open", "committed" or "aborted", for each transaction
  work,      \* the puts and the removes of each transaction on each table
  store      \* the operations applied to each table so far, in order

vars == <<phase, work, store>>

NoWork == [puts |-> << >>, removes |-> << >>]

Init ==
  /\ phase = [x \in Tx |-> "open"]
  /\ work = [x \in Tx |-> [t \in Table |-> NoWork]]
  /\ store = [t \in Table |-> << >>]

\* Transaction x puts or removes a row of table t.
Put(x, t, op)    == work' = [work EXCEPT ![x][t].puts = Append(@, op)]
Remove(x, t, op) == work' = [work EXCEPT ![x][t].removes = Append(@, op)]

Issue(x) ==
  /\ phase[x] = "open"
  /\ \E t \in Table, op \in Op[x] : Put(x, t, op) \/ Remove(x, t, op)
  /\ UNCHANGED <<phase, store>>

\* The puts of a table go in before its removes.
Commit(x) ==
  /\ phase[x] = "open"
  /\ phase' = [phase EXCEPT ![x] = "committed"]
  /\ store' = [t \in Table |-> store[t] \o work[x][t].puts \o work[x][t].removes]
  /\ UNCHANGED work

Abort(x) ==
  /\ phase[x] = "open"
  /\ phase' = [phase EXCEPT ![x] = "aborted"]
  /\ UNCHANGED <<work, store>>

Next == \E x \in Tx : Issue(x) \/ Commit(x) \/ Abort(x)

Spec == Init /\ [][Next]_vars
=============================================================================

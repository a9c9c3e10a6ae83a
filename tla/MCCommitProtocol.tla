-------------------------- MODULE MCCommitProtocol --------------------------
(***************************************************************************)
(* Small instances of CommitProtocol for TLC.                              *)
(***************************************************************************)
EXTENDS CommitProtocol, TLC

CONSTANT
  MaxWrites    \* bound: operations of all transactions together

Writes == {<<x, t, i>> \in Tx \X Table \X (1..MaxOps) :
             i <= Len(work[x][t].puts) + Len(work[x][t].removes)}

FewWrites == Cardinality(Writes) <= MaxWrites

\* Connection c is in its first transaction and did nothing yet.
Fresh(c) == turn[c] = 1 /\ Live(c) = {} /\ frame[c].pc = "idle"

\* Either one connection runs all its transactions while the others rest, or
\* each runs one, which puts at most one row into a table.
Alone == \E c \in Conn : \A d \in Conn \ {c} : Fresh(d)
OneEach ==
  /\ \A c \in Conn : turn[c] = 1 \/ (turn[c] = 2 /\ Live(c) = {})
  /\ \A x \in Tx, t \in Table : Len(work[x][t].puts) <= 1 /\ work[x][t].removes = << >>

AloneOrOneEach == FewWrites /\ (Alone \/ OneEach)

Symmetry == Permutations(Conn) \cup Permutations(Table) \cup Permutations(TxId)
=============================================================================

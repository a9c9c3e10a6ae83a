-------------------------- MODULE MCPrepareWorkers --------------------------
(***************************************************************************)
(* A small instance of PrepareWorkers for TLC.  Tables are symmetric; a    *)
(* liveness property rules out symmetry sets, so the constraint names the  *)
(* table of the first operation.                                           *)
(***************************************************************************)
EXTENDS PrepareWorkers

FirstTable == CHOOSE t \in Table : TRUE

InFixedOrder == ops # << >> => ops[1].table = FirstTable
=============================================================================

------------------------------ MODULE CallQueue ------------------------------
(***************************************************************************)
(* What the calls of the engine should be to the chain: a queue.  A call   *)
(* takes its place when it is made; it may be lost, and then nothing after *)
(* it can be mined; calls are mined in the order of their places, each at  *)
(* most once.  CommitProtocol takes this for granted of its pool.          *)
(***************************************************************************)
EXTENDS Integers, Sequences

CONSTANTS
  Calls,     \* the calls
  Hole       \* the place of a call that was lost

VARIABLES
  queue,     \* the places that are not mined yet
  log        \* the calls that were mined

Init == queue = << >> /\ log = << >>

Enter(c) ==
  /\ \A i \in DOMAIN queue : queue[i] # c
  /\ \A i \in DOMAIN log : log[i] # c
  /\ queue' = Append(queue, c)
  /\ UNCHANGED log

Lose(i) ==
  /\ queue[i] # Hole
  /\ queue' = [queue EXCEPT ![i] = Hole]
  /\ UNCHANGED log

Mine ==
  /\ queue # << >> /\ Head(queue) # Hole
  /\ log' = Append(log, Head(queue))
  /\ queue' = Tail(queue)

Next ==
  \/ \E c \in Calls : Enter(c)
  \/ \E i \in DOMAIN queue : Lose(i)
  \/ Mine

Spec == Init /\ [][Next]_<<queue, log>>
=============================================================================

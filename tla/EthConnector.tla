---------------------------- MODULE EthConnector ----------------------------
(***************************************************************************)
(* How the connector sends calls (ethereum.cpp): the nonce that all        *)
(* connectors of the server share, its initialisation by the constructor,  *)
(* the send with its answers, the retry with a higher nonce, and the       *)
(* polling until the call is mined or the waiting time is over.            *)
(*                                                                         *)
(* Threads are the connections of the server.  A thread makes one call     *)
(* after the other and may construct one connector before each, as         *)
(* atomic_commit does.  The node keeps one place per nonce, as go-ethereum *)
(* does, whose error messages the code compares with.                      *)
(***************************************************************************)
EXTENDS Integers, Sequences, FiniteSets

CONSTANTS
  Thread,        \* the threads that make calls
  NoThread,      \* nobody holds the lock
  Foreign,       \* a call that another client makes from the same account
  Hole,          \* a nonce whose call was lost
  NonceMod,      \* the nonce is computed modulo this, 2^64 in the code
  StartCount,    \* calls of the account that were mined before
  MaxCalls,      \* bound: calls of a thread
  MaxPolls,      \* polls that fit into the waiting time
  MaxUncounted,  \* bound: unusable answers to eth_getTransactionCount
  MaxLost,       \* bound: requests that do not reach the node
  MaxResends,    \* bound: requests that curl sends twice
  MaxForeign,    \* bound: calls of other clients
  MaxCrashes     \* bound: crashes of the server

ASSUME NoThreadAssumption == NoThread \notin Thread
ASSUME BoundAssumption ==
  /\ {StartCount, MaxCalls, MaxPolls} \subseteq Nat
  /\ {MaxUncounted, MaxLost, MaxResends, MaxForeign, MaxCrashes} \subseteq Nat
  /\ NonceMod \in Nat /\ NonceMod > 1

VARIABLES
  nonce,      \* Ethereum::nonce
  lock,       \* the thread that holds nonce_init_mtx
  thread,     \* what each thread is doing
  pool,       \* the calls that the node accepted and has not mined
  mined,      \* the calls mined from the account since the start, in order
  result,     \* the result of each call
  faults      \* how often each bounded event happened

vars == <<nonce, lock, thread, pool, mined, result, faults>>

Call == Thread \X (1..MaxCalls)

ASSUME CallAssumption == Foreign \notin Call /\ Hole \notin Call \cup {Foreign}

(***************************************************************************)
(* pc: none - no connector; counting and counted - in the constructor,     *)
(* before and after the answer; ready - constructed a connector; idle -    *)
(* made a call and keeps its connector; drawing - in a call without a      *)
(* nonce; sending - with one; polling. call: the number of the call.       *)
(* drawn: params.nonce. place: the nonce under which the node accepted the *)
(* call. start: the nonce that the constructor computed.                   *)
(***************************************************************************)
State == [pc : {"none", "counting", "counted", "ready", "idle", "drawing", "sending", "polling"},
          call : 1..(MaxCalls + 1), drawn : 0..(NonceMod - 1), place : Nat,
          start : 0..(NonceMod - 1), polls : 0..MaxPolls]

Fault == {"uncounted", "lost", "resends", "foreign", "crashes"}

\* A thread before call n.
Fresh(pc, n) == [pc |-> pc, call |-> n, drawn |-> 0, place |-> 0, start |-> 0, polls |-> 0]

Count == StartCount + Len(mined)

InCall(t) == thread[t].pc \in {"drawing", "sending", "polling"}

Current(t) == <<t, thread[t].call>>

\* The node holds a call for nonce n.
Taken(n) == \E e \in pool : e.nonce = n

Accept(n, c) == pool' = pool \cup {[nonce |-> n, call |-> c]}

\* The nonce that the node gives to a call that names none.
NextPlace == CHOOSE n \in Count..(Count + Cardinality(pool)) :
               ~Taken(n) /\ \A i \in Count..(n - 1) : Taken(i)

IsMined(n, c) ==
  /\ n \in StartCount..(Count - 1)
  /\ mined[n - StartCount + 1] = c

Init ==
  /\ nonce = 0
  /\ lock = NoThread
  /\ thread = [t \in Thread |-> Fresh("none", 1)]
  /\ pool = {}
  /\ mined = << >>
  /\ result = [c \in Call |-> "none"]
  /\ faults = [f \in Fault |-> 0]

\* An event of a bounded kind happens.
Happens(fault, bound) ==
  /\ faults[fault] < bound
  /\ faults' = [faults EXCEPT ![fault] = @ + 1]

Goto(t, pc) == thread' = [thread EXCEPT ![t].pc = pc]

\* The call of t is over.
Return(t, how) ==
  /\ result' = [result EXCEPT ![Current(t)] = how]
  /\ thread' = [thread EXCEPT ![t] = Fresh("idle", thread[t].call + 1)]
-----------------------------------------------------------------------------
(***************************************************************************)
(* The constructor.                                                        *)
(***************************************************************************)
Construct(t) ==
  /\ thread[t].pc \in {"none", "idle"} /\ thread[t].call <= MaxCalls
  /\ lock = NoThread
  /\ IF nonce = 0 THEN Goto(t, "counting") /\ lock' = t
                  ELSE Goto(t, "ready") /\ UNCHANGED lock
  /\ UNCHANGED <<nonce, pool, mined, result, faults>>

\* Mutant of StartNonce: a count of zero gives zero.
StartNonceClamped == IF Count = 0 THEN 0 ELSE Count - 1

\* Mutant of StartNonce: the subtraction is signed.
StartNonceSigned == Count - 1

\* std::max((ulong) 0, tmp_nonce - 1), in unsigned arithmetic.
StartNonce == (Count - 1) % NonceMod

CountAnswered(t) ==
  /\ thread[t].pc = "counting"
  /\ thread' = [thread EXCEPT ![t].pc = "counted", ![t].start = StartNonce]
  /\ UNCHANGED <<nonce, lock, pool, mined, result, faults>>

\* The answer can not be parsed: the connector works with the nonce there is.
CountUnusable(t) ==
  /\ Happens("uncounted", MaxUncounted)
  /\ thread[t].pc = "counting"
  /\ Goto(t, "ready")
  /\ lock' = NoThread
  /\ UNCHANGED <<nonce, pool, mined, result>>

StoreNonce(t) ==
  /\ thread[t].pc = "counted"
  /\ nonce' = thread[t].start
  /\ lock' = NoThread
  /\ Goto(t, "ready")
  /\ UNCHANGED <<pool, mined, result, faults>>
-----------------------------------------------------------------------------
(***************************************************************************)
(* A call.                                                                 *)
(***************************************************************************)
StartCall(t) ==
  /\ thread[t].pc \in {"ready", "idle"} /\ thread[t].call <= MaxCalls
  /\ Goto(t, "drawing")
  /\ UNCHANGED <<nonce, lock, pool, mined, result, faults>>

\* Mutant of Draw: params.nonce = nonce + 1.
DrawUnclaimed(t) ==
  /\ thread[t].pc = "drawing"
  /\ thread' = [thread EXCEPT ![t].pc = "sending", ![t].drawn = (nonce + 1) % NonceMod]
  /\ UNCHANGED <<nonce, lock, pool, mined, result, faults>>

\* params.nonce = ++nonce, in one atomic step.
Draw(t) ==
  /\ thread[t].pc = "drawing"
  /\ nonce' = (nonce + 1) % NonceMod
  /\ thread' = [thread EXCEPT ![t].pc = "sending", ![t].drawn = nonce']
  /\ UNCHANGED <<lock, pool, mined, result, faults>>

\* A nonce of zero is left out of the request.
PlaceOf(t) == IF thread[t].drawn = 0 THEN NextPlace ELSE thread[t].drawn

TooLow(t) == PlaceOf(t) < Count

AlreadyKnown(t) == [nonce |-> PlaceOf(t), call |-> Current(t)] \in pool

\* The node answers "replacement transaction underpriced".
Underpriced(t) == ~TooLow(t) /\ Taken(PlaceOf(t)) /\ ~AlreadyKnown(t)

Acceptable(t) == thread[t].pc = "sending" /\ ~TooLow(t) /\ ~Taken(PlaceOf(t))

Accepted(t) ==
  /\ Acceptable(t)
  /\ Accept(PlaceOf(t), Current(t))
  /\ thread' = [thread EXCEPT ![t].pc = "polling", ![t].place = PlaceOf(t)]
  /\ UNCHANGED <<nonce, lock, mined, result, faults>>

\* The node answers "nonce too low" or "already known": the same call is sent
\* again with the next nonce.
Retry(t) ==
  /\ thread[t].pc = "sending"
  /\ TooLow(t) \/ AlreadyKnown(t)
  /\ Goto(t, "drawing")
  /\ UNCHANGED <<nonce, lock, pool, mined, result, faults>>

\* Curl loses the connection and sends the request again; the answer to the
\* second is "already known".
AcceptedTwice(t) ==
  /\ Happens("resends", MaxResends)
  /\ Acceptable(t) /\ thread[t].drawn # 0
  /\ Accept(PlaceOf(t), Current(t))
  /\ Goto(t, "drawing")
  /\ UNCHANGED <<nonce, lock, mined, result>>

Refused(t) ==
  /\ thread[t].pc = "sending" /\ Underpriced(t)
  /\ Return(t, "error")
  /\ UNCHANGED <<nonce, lock, pool, mined, faults>>

\* Mutant of Lost: a request that got no answer is sent again.
LostAndRetried(t) ==
  /\ thread[t].pc = "sending"
  /\ Happens("lost", MaxLost)
  /\ Goto(t, "drawing")
  /\ \/ UNCHANGED pool
     \/ Acceptable(t) /\ Accept(PlaceOf(t), Current(t))
  /\ UNCHANGED <<nonce, lock, mined, result>>

\* The request or its answer is lost; the response can not be parsed.
Lost(t) ==
  /\ thread[t].pc = "sending"
  /\ Happens("lost", MaxLost)
  /\ Return(t, "error")
  /\ \/ UNCHANGED pool
     \/ Acceptable(t) /\ Accept(PlaceOf(t), Current(t))
  /\ UNCHANGED <<nonce, lock, mined>>

\* The answer to a poll has a block number.
Confirmed(t) ==
  /\ thread[t].pc = "polling" /\ thread[t].polls < MaxPolls
  /\ IsMined(thread[t].place, Current(t))
  /\ Return(t, "ok")
  /\ UNCHANGED <<nonce, lock, pool, mined, faults>>

\* Mutant of Unconfirmed: the waiting time starts again when the answer can not
\* be parsed.
UnconfirmedReset(t) ==
  /\ thread[t].pc = "polling" /\ thread[t].polls < MaxPolls
  /\ \E polls \in {0, thread[t].polls + 1} :
       thread' = [thread EXCEPT ![t].polls = polls]
  /\ UNCHANGED <<nonce, lock, pool, mined, result, faults>>

\* It has none, or it can not be parsed.
Unconfirmed(t) ==
  /\ thread[t].pc = "polling" /\ thread[t].polls < MaxPolls
  /\ thread' = [thread EXCEPT ![t].polls = @ + 1]
  /\ UNCHANGED <<nonce, lock, pool, mined, result, faults>>

GiveUp(t) ==
  /\ thread[t].pc = "polling" /\ thread[t].polls = MaxPolls
  /\ Return(t, "error")
  /\ UNCHANGED <<nonce, lock, pool, mined, faults>>
-----------------------------------------------------------------------------
(***************************************************************************)
(* The chain, other clients of the account, and crashes.                   *)
(***************************************************************************)
Mine ==
  \E e \in pool :
    /\ e.nonce = Count
    /\ pool' = pool \ {e}
    /\ mined' = Append(mined, e.call)
    /\ UNCHANGED <<nonce, lock, thread, result, faults>>

OtherClient ==
  /\ Happens("foreign", MaxForeign)
  /\ Accept(NextPlace, Foreign)
  /\ UNCHANGED <<nonce, lock, thread, mined, result>>

\* The server restarts; the calls that were under way have no result.
Crash ==
  /\ Happens("crashes", MaxCrashes)
  /\ nonce' = 0
  /\ lock' = NoThread
  /\ thread' = [t \in Thread |->
       Fresh("none", IF InCall(t) THEN thread[t].call + 1 ELSE thread[t].call)]
  /\ UNCHANGED <<pool, mined, result>>

\* What a thread does without the node.
Local(t) == StoreNonce(t) \/ Draw(t) \/ GiveUp(t)

\* A request ends, with an answer or without: curl_easy_perform returns.
Answer(t) ==
  \/ CountAnswered(t) \/ CountUnusable(t)
  \/ Accepted(t) \/ AcceptedTwice(t) \/ Retry(t) \/ Refused(t) \/ Lost(t)
  \/ Confirmed(t) \/ Unconfirmed(t)

Step(t) == Local(t) \/ Answer(t)

Next ==
  \/ \E t \in Thread : Construct(t) \/ StartCall(t) \/ Step(t)
  \/ Mine \/ OtherClient \/ Crash

Spec == Init /\ [][Next]_vars

\* A thread inside a call or a constructor runs on, but a request need never end:
\* curl has no time-out.
FairSpec == Spec /\ \A t \in Thread : WF_vars(Local(t))
-----------------------------------------------------------------------------
TypeOK ==
  /\ nonce \in 0..(NonceMod - 1)
  /\ lock \in Thread \cup {NoThread}
  /\ thread \in [Thread -> State]
  /\ pool \subseteq [nonce : Nat, call : Call \cup {Foreign}]
  /\ mined \in Seq(Call \cup {Foreign})
  /\ result \in [Call -> {"none", "ok", "error"}]
  /\ faults \in [Fault -> Nat]

Faultless(kinds) == \A f \in kinds : faults[f] = 0

\* No call is executed twice, also when it was sent several times, unless curl
\* sent a request twice.
MinedOnce ==
  Faultless({"resends"}) =>
    \A i, j \in DOMAIN mined : mined[i] = mined[j] /\ mined[i] # Foreign => i = j

\* No call is sent with the nonce of another call that waits to be mined.
NoReplacement ==
  \A t \in Thread : thread[t].pc = "sending" => ~Underpriced(t)

\* While nothing fails, every call in the pool can be mined: the nonces before it
\* belong to calls that are in the pool too, or on their way.
NoGap ==
  Faultless(Fault) =>
    \A e \in pool : \A n \in Count..(e.nonce - 1) :
      Taken(n) \/ \E t \in Thread : thread[t].pc = "sending" /\ thread[t].drawn \in {0, n}

Busy(t) == thread[t].pc \notin {"none", "ready", "idle"}

\* The thread waits inside curl_easy_perform.
Requesting(t) ==
  \/ thread[t].pc \in {"counting", "sending"}
  \/ thread[t].pc = "polling" /\ thread[t].polls < MaxPolls

\* A call or a constructor that never returns hangs in one request that never ends:
\* retries and polls do not go on for ever, whatever node and chain answer, and
\* no call waits for another thread. (A constructor that waits for the mutex of one
\* that hangs has not begun here.)
CallReturns ==
  \A t \in Thread :
    <>[]Busy(t) => <>[]Requesting(t) /\ <>[][FALSE]_(thread[t])

\* The queue of calls: what holds the nonces from the next to be mined up to the
\* last that was drawn.
Holder(n) ==
  IF Taken(n) THEN (CHOOSE e \in pool : e.nonce = n).call
  ELSE IF \E t \in Thread : thread[t].pc = "sending" /\ thread[t].drawn = n
       THEN Current(CHOOSE t \in Thread : thread[t].pc = "sending" /\ thread[t].drawn = n)
       ELSE Hole

Places == [i \in 1..(IF nonce < Count THEN 0 ELSE nonce - Count + 1) |-> Holder(Count + i - 1)]

Queue == INSTANCE CallQueue WITH Calls <- Call, queue <- Places, log <- mined

\* The calls of all threads go to the chain as through one queue.
ImplementsCallQueue == Queue!Spec
=============================================================================

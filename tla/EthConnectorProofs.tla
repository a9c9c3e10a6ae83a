-------------------------- MODULE EthConnectorProofs --------------------------
(***************************************************************************)
(* Proofs about EthConnector, for any threads, bounds, width of the nonce  *)
(* and number of calls mined before: types are right, and no call is mined *)
(* twice although calls are retried, lost and given up.  Without other     *)
(* clients, crashes and unheard constructors, no call takes the nonce of   *)
(* another, and the calls of all threads go to the chain as through        *)
(* CallQueue.                                                              *)
(***************************************************************************)
EXTENDS EthConnector, TLAPS, FiniteSetTheorems, WellFoundedInduction

(***************************************************************************)
(* The inductive invariant.                                                *)
(***************************************************************************)
\* A thread that is in a call has a call to make.
CallsBounded == \A t \in Thread : InCall(t) => thread[t].call <= MaxCalls

Waiting(c) == \E e \in pool : e.call = c

Done(c) == \E i \in DOMAIN mined : mined[i] = c

\* A call is in the pool once, or was mined once.
SentOnce ==
  /\ \A d, e \in pool : d.call = e.call /\ d.call # Foreign => d = e
  /\ \A c \in Call : ~(Waiting(c) /\ Done(c))
  /\ \A i, j \in DOMAIN mined : mined[i] = mined[j] /\ mined[i] # Foreign => i = j

\* A thread polls exactly while its call was accepted; the node knows nothing of
\* a call before that.
Unsent ==
  \A t \in Thread : \A n \in 1..MaxCalls :
    n > thread[t].call \/ (n = thread[t].call /\ thread[t].pc # "polling")
      => ~Waiting(<<t, n>>) /\ ~Done(<<t, n>>)

IInv ==
  /\ TypeOK
  /\ IsFiniteSet(pool)
  /\ CallsBounded
  /\ faults["resends"] = 0 => SentOnce /\ Unsent

-----------------------------------------------------------------------------
\* The node finds a nonce for a call that names none, and it is a free one.
LEMMA NextPlaceFree ==
  ASSUME Count \in Nat, IsFiniteSet(pool)
  PROVE  NextPlace \in Nat /\ ~Taken(NextPlace)
<1> DEFINE I == Count..(Count + Cardinality(pool))
           U == {n \in I : ~Taken(n)}
<1>1. Cardinality(pool) \in Nat
  BY FS_CardinalityType
<1>2. IsFiniteSet(I) /\ Cardinality(I) = Cardinality(pool) + 1
  BY <1>1, FS_Interval
<1>3. U # {}
  <2>1. SUFFICES ASSUME \A n \in I : Taken(n)
                 PROVE  FALSE
    OBVIOUS
  <2> DEFINE g == [n \in I |-> CHOOSE e \in pool : e.nonce = n]
  <2>2. \A n \in I : g[n] \in pool /\ g[n].nonce = n
    BY <2>1 DEF Taken
  <2>3. g \in Injection(I, pool)
    BY <2>2 DEF Injection, IsInjective
  <2>4. Cardinality(I) <= Cardinality(pool)
    BY <2>3, FS_Injection
  <2> QED
    BY <1>1, <1>2, <2>4
<1>4. U \subseteq Nat
  BY <1>1
<1>5. PICK m \in U : \A k \in U : ~(<<k, m>> \in OpToRel(<, Nat))
  <2> HIDE DEF U
  <2> QED BY <1>3, <1>4, NatLessThanWellFounded, WFMin, Zenon
<1>6. \A k \in U : ~(k < m)
  BY <1>4, <1>5 DEF OpToRel
<1>7. m \in I /\ ~Taken(m) /\ \A i \in Count..(m - 1) : Taken(i)
  BY <1>1, <1>6
<1> QED
  BY <1>1, <1>7 DEF NextPlace

-----------------------------------------------------------------------------
(***************************************************************************)
(* Types.                                                                  *)
(***************************************************************************)
LEMMA CountType == TypeOK => Count \in Nat
BY BoundAssumption DEF TypeOK, Count

LEMMA CurrentType ==
  ASSUME TypeOK, CallsBounded, NEW t \in Thread, InCall(t)
  PROVE  Current(t) \in Call /\ thread[t].call \in 1..MaxCalls
BY BoundAssumption DEF TypeOK, CallsBounded, State, Current, Call

LEMMA StartNonceType == TypeOK => StartNonce \in 0..(NonceMod - 1)
BY CountType, BoundAssumption DEF StartNonce

\* A thread between its calls.
LEMMA FreshType ==
  ASSUME NEW n \in 1..(MaxCalls + 1), NEW pc \in {"none", "idle"}
  PROVE  Fresh(pc, n) \in State /\ Fresh(pc, n).pc = pc /\ Fresh(pc, n).call = n
<1>1. 0 \in 0..(NonceMod - 1) /\ 0 \in 0..MaxPolls
  BY BoundAssumption
<1> QED
  BY <1>1 DEF Fresh, State

LEMMA PlaceType ==
  ASSUME TypeOK, IsFiniteSet(pool), NEW t \in Thread
  PROVE  PlaceOf(t) \in Nat
<1>1. NextPlace \in Nat
  BY CountType, NextPlaceFree
<1>2. thread[t].drawn \in Nat
  BY BoundAssumption DEF TypeOK, State
<1> QED
  BY <1>1, <1>2 DEF PlaceOf

\* A thread that only moves on.
LEMMA GotoType ==
  ASSUME TypeOK, NEW t \in Thread, NEW pc, Goto(t, pc),
         pc \in {"none", "counting", "counted", "ready", "idle", "drawing", "sending", "polling"}
  PROVE  /\ thread' \in [Thread -> State]
         /\ thread'[t] = [thread[t] EXCEPT !.pc = pc]
         /\ \A u \in Thread \ {t} : thread'[u] = thread[u]
BY DEF TypeOK, Goto, State

\* A thread whose call is over.
LEMMA ReturnType ==
  ASSUME TypeOK, CallsBounded, NEW t \in Thread, InCall(t), NEW how \in {"ok", "error"},
         Return(t, how)
  PROVE  /\ thread' \in [Thread -> State]
         /\ result' \in [Call -> {"none", "ok", "error"}]
         /\ thread'[t].pc = "idle" /\ thread'[t].call = thread[t].call + 1
         /\ \A u \in Thread \ {t} : thread'[u] = thread[u]
         /\ \A c \in Call \ {Current(t)} : result'[c] = result[c]
         /\ result'[Current(t)] = how
<1>1. Current(t) \in Call /\ thread[t].call \in 1..MaxCalls
  BY CurrentType
<1>2. thread[t].call + 1 \in 1..(MaxCalls + 1)
  BY <1>1, BoundAssumption
<1> QED
  BY <1>1, <1>2, FreshType DEF Return, TypeOK

\* A call enters the pool.
LEMMA AcceptType ==
  ASSUME TypeOK, IsFiniteSet(pool), NEW n \in Nat, NEW c \in Call \cup {Foreign}, Accept(n, c)
  PROVE  pool' \subseteq [nonce : Nat, call : Call \cup {Foreign}] /\ IsFiniteSet(pool')
<1>1. pool' \subseteq [nonce : Nat, call : Call \cup {Foreign}]
  BY DEF TypeOK, Accept
<1>2. IsFiniteSet(pool')
  BY FS_AddElement, Zenon DEF Accept
<1> QED
  BY <1>1, <1>2

LEMMA HappensType ==
  ASSUME TypeOK, NEW f \in Fault, NEW bound, Happens(f, bound)
  PROVE  /\ faults' \in [Fault -> Nat]
         /\ \A g \in Fault : faults'[g] = 0 => faults[g] = 0
         /\ faults'[f] # 0
BY DEF TypeOK, Happens

-----------------------------------------------------------------------------
(***************************************************************************)
(* What a step does to the calls that the node knows.                      *)
(***************************************************************************)
\* A thread goes on with its call, or to the next one.
Onward(t) ==
  \/ thread'[t].call > thread[t].call
  \/ /\ thread'[t].call = thread[t].call
     /\ thread[t].pc = "polling" => thread'[t].pc = "polling"

LEMMA CallNat ==
  ASSUME NEW f \in [Thread -> State], NEW t \in Thread
  PROVE  f[t].call \in Nat
<1>1. f[t] \in State
  OBVIOUS
<1> QED
  BY <1>1 DEF State

\* Steps that send nothing.
LEMMA NothingSent ==
  ASSUME TypeOK, thread' \in [Thread -> State], SentOnce, Unsent,
         UNCHANGED <<pool, mined>>, \A t \in Thread : Onward(t)
  PROVE  SentOnce' /\ Unsent'
<1>1. \A c : (Waiting(c)' <=> Waiting(c)) /\ (Done(c)' <=> Done(c))
  BY DEF Waiting, Done
<1>2. SentOnce'
  BY <1>1 DEF SentOnce
<1>3. Unsent'
  <2>1. SUFFICES ASSUME NEW t \in Thread, NEW n \in 1..MaxCalls,
                        \/ n > thread'[t].call
                        \/ n = thread'[t].call /\ thread'[t].pc # "polling"
                 PROVE  ~Waiting(<<t, n>>) /\ ~Done(<<t, n>>)
    BY <1>1 DEF Unsent
  <2>2. thread[t].call \in Nat /\ thread'[t].call \in Nat /\ n \in Nat
    BY CallNat DEF TypeOK
  <2>3. n > thread[t].call \/ (n = thread[t].call /\ thread[t].pc # "polling")
    BY <2>1, <2>2 DEF Onward
  <2> QED
    BY <2>3 DEF Unsent
<1> QED
  BY <1>2, <1>3

\* Steps in which the node accepts the call of a thread for the first time.
LEMMA FirstSent ==
  ASSUME TypeOK, CallsBounded, thread' \in [Thread -> State], SentOnce, Unsent,
         NEW t \in Thread, thread[t].pc = "sending",
         NEW p, Accept(p, Current(t)), mined' = mined,
         \A u \in Thread \ {t} : thread'[u] = thread[u],
         \/ thread'[t].call = thread[t].call + 1
         \/ thread'[t].call = thread[t].call /\ thread'[t].pc = "polling"
  PROVE  SentOnce' /\ Unsent'
<1>1. Current(t) \in Call /\ thread[t].call \in 1..MaxCalls
  BY CurrentType DEF InCall
<1>2. ~Waiting(Current(t)) /\ ~Done(Current(t))
  BY <1>1 DEF Unsent, Current
<1>3. \A c : (Waiting(c)' <=> Waiting(c) \/ c = Current(t)) /\ (Done(c)' <=> Done(c))
  <2>1. TAKE c
  <2>2. Done(c)' <=> Done(c)
    BY DEF Done
  <2>3. Waiting(c)' <=> \E e \in pool \cup {[nonce |-> p, call |-> Current(t)]} : e.call = c
    BY DEF Waiting, Accept
  <2>4. [nonce |-> p, call |-> Current(t)].call = Current(t)
    OBVIOUS
  <2>5. (\E e \in pool \cup {[nonce |-> p, call |-> Current(t)]} : e.call = c)
          <=> Waiting(c) \/ c = Current(t)
    BY <2>4, Zenon DEF Waiting
  <2> QED
    BY <2>2, <2>3, <2>5
<1>4. SentOnce'
  <2>1. \A d, e \in pool' : d.call = e.call /\ d.call # Foreign => d = e
    BY <1>2 DEF SentOnce, Accept, Waiting
  <2>2. \A c \in Call : ~(Waiting(c)' /\ Done(c)')
    BY <1>2, <1>3 DEF SentOnce
  <2> QED
    BY <2>1, <2>2, <1>3 DEF SentOnce
<1>5. Unsent'
  <2>1. SUFFICES ASSUME NEW u \in Thread, NEW n \in 1..MaxCalls,
                        \/ n > thread'[u].call
                        \/ n = thread'[u].call /\ thread'[u].pc # "polling"
                 PROVE  ~Waiting(<<u, n>>)' /\ ~Done(<<u, n>>)'
    BY DEF Unsent
  <2>2. /\ thread[u].call \in Nat /\ thread'[u].call \in Nat /\ n \in Nat
        /\ thread[t].call \in Nat
    BY CallNat DEF TypeOK
  <2>3. /\ n > thread[u].call \/ (n = thread[u].call /\ thread[u].pc # "polling")
        /\ <<u, n>> # Current(t)
    <3>1. CASE u = t
      BY <3>1, <2>1, <2>2 DEF Current
    <3>2. CASE u # t
      BY <3>2, <2>1 DEF Current
    <3> QED
      BY <3>1, <3>2
  <2> QED
    BY <1>3, <2>3 DEF Unsent
<1> QED
  BY <1>4, <1>5

\* A mined call leaves the pool.
LEMMA MinedMoves ==
  ASSUME TypeOK, SentOnce, Unsent, UNCHANGED thread, NEW e \in pool,
         pool' = pool \ {e}, mined' = Append(mined, e.call)
  PROVE  SentOnce' /\ Unsent'
<1> DEFINE last == Len(mined) + 1
<1>1. /\ mined \in Seq(Call \cup {Foreign}) /\ e.call \in Call \cup {Foreign}
      /\ DOMAIN mined = 1..Len(mined) /\ Len(mined) \in Nat
  BY DEF TypeOK
<1>2. /\ DOMAIN mined' = 1..last /\ mined'[last] = e.call
      /\ \A i \in DOMAIN mined : mined'[i] = mined[i]
  BY <1>1
<1>3. \A c : Done(c)' <=> Done(c) \/ c = e.call
  <2>1. TAKE c
  <2>2. Done(c)' <=> \E i \in 1..last : mined'[i] = c
    BY <1>2 DEF Done
  <2>3. (\E i \in 1..last : mined'[i] = c) <=> (\E i \in DOMAIN mined : mined[i] = c) \/ c = e.call
    BY <1>1, <1>2
  <2> QED
    BY <2>2, <2>3 DEF Done
<1>4. \A c : Waiting(c)' => Waiting(c) /\ (c # Foreign => c # e.call)
  BY DEF Waiting, SentOnce
<1>5. Waiting(e.call)
  BY DEF Waiting
<1>6. SentOnce'
  <2>1. \A d, f \in pool' : d.call = f.call /\ d.call # Foreign => d = f
    BY DEF SentOnce
  <2>2. \A c \in Call : ~(Waiting(c)' /\ Done(c)')
    BY <1>3, <1>4, CallAssumption DEF SentOnce
  <2>3. \A i, j \in DOMAIN mined' : mined'[i] = mined'[j] /\ mined'[i] # Foreign => i = j
    <3>1. SUFFICES ASSUME NEW i \in DOMAIN mined', NEW j \in DOMAIN mined',
                          mined'[i] = mined'[j], mined'[i] # Foreign
                   PROVE  i = j
      OBVIOUS
    <3>2. e.call # Foreign => ~Done(e.call)
      BY <1>1, <1>5 DEF SentOnce
    <3>3. \A k \in DOMAIN mined' : k = last \/ k \in DOMAIN mined
      BY <1>1, <1>2
    <3>4. CASE i = last /\ j = last
      BY <3>4
    <3>5. CASE i = last /\ j \in DOMAIN mined
      BY <3>1, <3>2, <3>5, <1>2 DEF Done
    <3>6. CASE i \in DOMAIN mined /\ j = last
      BY <3>1, <3>2, <3>6, <1>2 DEF Done
    <3>7. CASE i \in DOMAIN mined /\ j \in DOMAIN mined
      BY <3>1, <3>7, <1>2 DEF SentOnce
    <3> QED
      BY <3>3, <3>4, <3>5, <3>6, <3>7
  <2> QED
    BY <2>1, <2>2, <2>3 DEF SentOnce
<1>7. Unsent'
  BY <1>3, <1>4, <1>5 DEF Unsent
<1> QED
  BY <1>6, <1>7

\* Another client's call enters the pool.
LEMMA ForeignSent ==
  ASSUME TypeOK, SentOnce, Unsent, UNCHANGED <<thread, mined>>, NEW p, Accept(p, Foreign)
  PROVE  SentOnce' /\ Unsent'
<1>1. [nonce |-> p, call |-> Foreign].call = Foreign
  OBVIOUS
<1>2. \A c \in Call : (Waiting(c)' => Waiting(c)) /\ (Done(c)' <=> Done(c))
  BY <1>1, CallAssumption DEF Waiting, Done, Accept
<1>3. \A d, e \in pool' : d.call = e.call /\ d.call # Foreign => d = e
  BY <1>1 DEF SentOnce, Accept
<1>4. SentOnce'
  BY <1>2, <1>3 DEF SentOnce
<1>5. \A t \in Thread, n \in 1..MaxCalls : <<t, n>> \in Call
  BY DEF Call
<1>6. Unsent'
  BY <1>2, <1>5 DEF Unsent
<1> QED
  BY <1>4, <1>6

-----------------------------------------------------------------------------
(***************************************************************************)
(* The kinds of steps that a thread takes.                                 *)
(***************************************************************************)
\* The shared variables other than pool, mined and result keep their types.
Typed ==
  /\ nonce' \in 0..(NonceMod - 1)
  /\ lock' \in Thread \cup {NoThread}
  /\ faults' \in [Fault -> Nat]
  /\ faults'["resends"] = 0 => faults["resends"] = 0

OnlyThread(t) ==
  /\ thread' \in [Thread -> State]
  /\ \A u \in Thread \ {t} : thread'[u] = thread[u]

\* A step inside a call or a constructor that sends nothing.
LEMMA LocalStep ==
  ASSUME IInv, Typed, NEW t \in Thread, OnlyThread(t),
         thread'[t].call = thread[t].call, thread[t].pc = "polling" => thread'[t].pc = "polling",
         thread'[t].pc \in {"drawing", "sending", "polling"} => thread[t].call <= MaxCalls,
         UNCHANGED <<pool, mined, result>>
  PROVE  IInv'
<1>1. TypeOK'
  BY DEF IInv, TypeOK, Typed, OnlyThread
<1>2. CallsBounded'
  BY DEF IInv, CallsBounded, InCall, OnlyThread
<1>3. \A u \in Thread : Onward(u)
  BY DEF Onward, OnlyThread
<1>4. faults'["resends"] = 0 => SentOnce' /\ Unsent'
  BY <1>3, NothingSent DEF IInv, Typed, OnlyThread
<1> QED
  BY <1>1, <1>2, <1>4 DEF IInv

\* A call returns, and nothing was sent.
LEMMA ReturnStep ==
  ASSUME IInv, Typed, NEW t \in Thread, InCall(t), NEW how \in {"ok", "error"}, Return(t, how),
         UNCHANGED <<pool, mined>>
  PROVE  IInv'
<1>1. /\ OnlyThread(t) /\ result' \in [Call -> {"none", "ok", "error"}]
      /\ thread'[t].pc = "idle" /\ thread'[t].call = thread[t].call + 1
  BY ReturnType DEF IInv, OnlyThread
<1>2. TypeOK'
  BY <1>1 DEF IInv, TypeOK, Typed, OnlyThread
<1>3. CallsBounded'
  BY <1>1 DEF IInv, CallsBounded, InCall, OnlyThread
<1>4. \A u \in Thread : Onward(u)
  <2>1. thread[t].call \in Nat
    BY CallNat DEF IInv, TypeOK
  <2> QED
    BY <1>1, <2>1 DEF Onward, OnlyThread
<1>5. faults'["resends"] = 0 => SentOnce' /\ Unsent'
  BY <1>1, <1>4, NothingSent DEF IInv, Typed, OnlyThread
<1> QED
  BY <1>2, <1>3, <1>5 DEF IInv

\* The node accepts the call of a thread for the first time.
LEMMA SendStep ==
  ASSUME IInv, Typed, NEW t \in Thread, thread[t].pc = "sending", OnlyThread(t),
         Accept(PlaceOf(t), Current(t)), mined' = mined,
         \/ thread'[t].call = thread[t].call + 1 /\ thread'[t].pc = "idle"
         \/ thread'[t].call = thread[t].call /\ thread'[t].pc = "polling",
         result' \in [Call -> {"none", "ok", "error"}]
  PROVE  IInv'
<1>1. Current(t) \in Call /\ thread[t].call \in 1..MaxCalls
  BY CurrentType DEF IInv, InCall
<1>2. PlaceOf(t) \in Nat
  BY PlaceType DEF IInv
<1>3. pool' \subseteq [nonce : Nat, call : Call \cup {Foreign}] /\ IsFiniteSet(pool')
  BY <1>1, <1>2, AcceptType DEF IInv
<1>4. TypeOK'
  BY <1>3 DEF IInv, TypeOK, Typed, OnlyThread
<1>5. CallsBounded'
  BY <1>1 DEF IInv, CallsBounded, InCall, OnlyThread
<1>6. faults'["resends"] = 0 => SentOnce' /\ Unsent'
  BY FirstSent DEF IInv, Typed, OnlyThread
<1> QED
  BY <1>3, <1>4, <1>5, <1>6 DEF IInv

-----------------------------------------------------------------------------
(***************************************************************************)
(* The actions.                                                            *)
(***************************************************************************)
\* No event of another kind than f happened.
LEMMA FaultTyped ==
  ASSUME TypeOK, NEW f \in Fault, NEW bound, Happens(f, bound), UNCHANGED <<nonce, lock>>
  PROVE  Typed
<1>1. "resends" \in Fault
  BY DEF Fault
<1> QED
  BY <1>1, HappensType DEF Typed, TypeOK

LEMMA GotoStep ==
  ASSUME IInv, NEW t \in Thread, NEW pc, Goto(t, pc),
         pc \in {"none", "counting", "counted", "ready", "idle", "drawing", "sending", "polling"}
  PROVE  /\ OnlyThread(t)
         /\ thread'[t].call = thread[t].call /\ thread'[t].pc = pc
<1>1. thread[t] \in State
  BY DEF IInv, TypeOK
<1>2. [thread[t] EXCEPT !.pc = pc].call = thread[t].call /\ [thread[t] EXCEPT !.pc = pc].pc = pc
  BY <1>1 DEF State
<1> QED
  BY <1>2, GotoType DEF IInv, OnlyThread

LEMMA ConstructorKeeps ==
  ASSUME IInv, NEW t \in Thread,
         Construct(t) \/ CountAnswered(t) \/ CountUnusable(t) \/ StoreNonce(t) \/ StartCall(t)
  PROVE  IInv'
<1>1. CASE Construct(t)
  <2>1. CASE nonce = 0
    <3>1. Goto(t, "counting") /\ Typed
      BY <1>1, <2>1 DEF Construct, Typed, IInv, TypeOK
    <3> QED
      BY <1>1, <3>1, GotoStep, LocalStep DEF Construct
  <2>2. CASE nonce # 0
    <3>1. Goto(t, "ready") /\ Typed
      BY <1>1, <2>2 DEF Construct, Typed, IInv, TypeOK
    <3> QED
      BY <1>1, <3>1, GotoStep, LocalStep DEF Construct
  <2> QED
    BY <2>1, <2>2
<1>2. CASE CountAnswered(t)
  <2>1. Typed
    BY <1>2 DEF CountAnswered, Typed, IInv, TypeOK
  <2>2. StartNonce \in 0..(NonceMod - 1) /\ thread[t] \in State
    BY StartNonceType DEF IInv, TypeOK
  <2>3. OnlyThread(t) /\ thread'[t].call = thread[t].call /\ thread'[t].pc = "counted"
    BY <1>2, <2>2 DEF CountAnswered, OnlyThread, IInv, TypeOK, State
  <2> QED
    BY <1>2, <2>1, <2>3, LocalStep DEF CountAnswered
<1>3. CASE CountUnusable(t)
  <2>1. Goto(t, "ready") /\ Happens("uncounted", MaxUncounted) /\ "uncounted" \in Fault
    BY <1>3 DEF CountUnusable, Fault
  <2>2. "resends" \in Fault
    BY DEF Fault
  <2>3. Typed
    BY <1>3, <2>1, <2>2, HappensType DEF CountUnusable, Typed, IInv, TypeOK
  <2> QED
    BY <1>3, <2>1, <2>3, GotoStep, LocalStep DEF CountUnusable
<1>4. CASE StoreNonce(t)
  <2>1. thread[t].start \in 0..(NonceMod - 1)
    BY DEF IInv, TypeOK, State
  <2>2. Goto(t, "ready") /\ Typed
    BY <1>4, <2>1 DEF StoreNonce, Typed, IInv, TypeOK
  <2> QED
    BY <1>4, <2>2, GotoStep, LocalStep DEF StoreNonce
<1>5. CASE StartCall(t)
  <2>1. Goto(t, "drawing") /\ Typed
    BY <1>5 DEF StartCall, Typed, IInv, TypeOK
  <2> QED
    BY <1>5, <2>1, GotoStep, LocalStep DEF StartCall
<1> QED
  BY <1>1, <1>2, <1>3, <1>4, <1>5

LEMMA SendKeeps ==
  ASSUME IInv, NEW t \in Thread,
         Draw(t) \/ Accepted(t) \/ AcceptedTwice(t) \/ Retry(t) \/ Refused(t) \/ Lost(t)
  PROVE  IInv'
<1>1. CASE Draw(t)
  <2>1. (nonce + 1) % NonceMod \in 0..(NonceMod - 1)
    BY BoundAssumption DEF IInv, TypeOK
  <2>2. thread[t] \in State /\ thread[t].call <= MaxCalls
    BY <1>1 DEF Draw, IInv, TypeOK, CallsBounded, InCall
  <2>3. Typed
    BY <1>1, <2>1 DEF Draw, Typed, IInv, TypeOK
  <2>4. OnlyThread(t) /\ thread'[t].call = thread[t].call /\ thread'[t].pc = "sending"
    BY <1>1, <2>1, <2>2 DEF Draw, OnlyThread, IInv, TypeOK, State
  <2> QED
    BY <1>1, <2>2, <2>3, <2>4, LocalStep DEF Draw
<1>2. CASE Accepted(t)
  <2>1. thread[t] \in State /\ PlaceOf(t) \in Nat
    BY PlaceType DEF IInv, TypeOK
  <2>2. Typed
    BY <1>2 DEF Accepted, Typed, IInv, TypeOK
  <2>3. OnlyThread(t) /\ thread'[t].call = thread[t].call /\ thread'[t].pc = "polling"
    BY <1>2, <2>1 DEF Accepted, OnlyThread, IInv, TypeOK, State
  <2>4. result' \in [Call -> {"none", "ok", "error"}]
    BY <1>2 DEF Accepted, IInv, TypeOK
  <2> QED
    BY <1>2, <2>2, <2>3, <2>4, SendStep DEF Accepted, Acceptable
<1>3. CASE AcceptedTwice(t)
  <2>1. Current(t) \in Call /\ thread[t].call \in 1..MaxCalls /\ PlaceOf(t) \in Nat
    BY <1>3, CurrentType, PlaceType DEF AcceptedTwice, Acceptable, IInv, InCall
  <2>2. "resends" \in Fault /\ Happens("resends", MaxResends)
    BY <1>3 DEF AcceptedTwice, Fault
  <2>3. faults' \in [Fault -> Nat] /\ faults'["resends"] # 0
    BY <2>2, HappensType DEF IInv
  <2>4. OnlyThread(t) /\ thread'[t].call = thread[t].call /\ thread'[t].pc = "drawing"
    BY <1>3, GotoStep DEF AcceptedTwice
  <2>5. pool' \subseteq [nonce : Nat, call : Call \cup {Foreign}] /\ IsFiniteSet(pool')
    BY <1>3, <2>1, AcceptType DEF AcceptedTwice, IInv
  <2>6. TypeOK'
    BY <1>3, <2>3, <2>4, <2>5 DEF AcceptedTwice, IInv, TypeOK, OnlyThread
  <2>7. CallsBounded'
    BY <2>1, <2>4 DEF IInv, CallsBounded, InCall, OnlyThread
  <2> QED
    BY <2>3, <2>5, <2>6, <2>7 DEF IInv
<1>4. CASE Retry(t)
  <2>1. Goto(t, "drawing") /\ Typed
    BY <1>4 DEF Retry, Typed, IInv, TypeOK
  <2>2. thread[t].call <= MaxCalls
    BY <1>4 DEF Retry, IInv, CallsBounded, InCall
  <2> QED
    BY <1>4, <2>1, <2>2, GotoStep, LocalStep DEF Retry
<1>5. CASE Refused(t)
  <2>1. Typed /\ InCall(t) /\ Return(t, "error")
    BY <1>5 DEF Refused, Typed, IInv, TypeOK, InCall
  <2> QED
    BY <1>5, <2>1, ReturnStep DEF Refused
<1>6. CASE Lost(t)
  <2>1. InCall(t) /\ Return(t, "error") /\ thread[t].pc = "sending"
    BY <1>6 DEF Lost, InCall
  <2>2. Typed
    <3>1. Happens("lost", MaxLost) /\ "lost" \in Fault
      BY <1>6 DEF Lost, Fault
    <3> QED
      BY <1>6, <3>1, FaultTyped DEF Lost, IInv
  <2>3. CASE UNCHANGED pool
    BY <1>6, <2>1, <2>2, <2>3, ReturnStep DEF Lost
  <2>4. CASE Acceptable(t) /\ Accept(PlaceOf(t), Current(t))
    <3>1. /\ OnlyThread(t) /\ result' \in [Call -> {"none", "ok", "error"}]
          /\ thread'[t].pc = "idle" /\ thread'[t].call = thread[t].call + 1
      BY <2>1, ReturnType DEF IInv, OnlyThread
    <3> QED
      BY <1>6, <2>1, <2>2, <2>4, <3>1, SendStep DEF Lost
  <2> QED
    BY <1>6, <2>3, <2>4 DEF Lost
<1> QED
  BY <1>1, <1>2, <1>3, <1>4, <1>5, <1>6

LEMMA PollKeeps ==
  ASSUME IInv, NEW t \in Thread, Confirmed(t) \/ Unconfirmed(t) \/ GiveUp(t)
  PROVE  IInv'
<1>1. thread[t].pc = "polling" /\ InCall(t)
  BY DEF Confirmed, Unconfirmed, GiveUp, InCall
<1>2. Typed /\ UNCHANGED <<pool, mined>>
  BY DEF Confirmed, Unconfirmed, GiveUp, Typed, IInv, TypeOK
<1>3. CASE Confirmed(t)
  BY <1>1, <1>2, <1>3, ReturnStep DEF Confirmed
<1>4. CASE Unconfirmed(t)
  <2>1. thread[t] \in State /\ thread[t].polls + 1 \in 0..MaxPolls
    <3>1. thread[t] \in State /\ thread[t].polls \in 0..MaxPolls
      BY DEF IInv, TypeOK, State
    <3>2. thread[t].polls < MaxPolls
      BY <1>4 DEF Unconfirmed
    <3> QED
      BY <3>1, <3>2, BoundAssumption
  <2>2. OnlyThread(t) /\ thread'[t].call = thread[t].call /\ thread'[t].pc = "polling"
    BY <1>1, <1>4, <2>1 DEF Unconfirmed, OnlyThread, IInv, TypeOK, State
  <2>3. thread[t].call <= MaxCalls
    BY <1>1 DEF IInv, CallsBounded
  <2> QED
    BY <1>2, <1>4, <2>2, <2>3, LocalStep DEF Unconfirmed
<1>5. CASE GiveUp(t)
  BY <1>1, <1>2, <1>5, ReturnStep DEF GiveUp
<1> QED
  BY <1>3, <1>4, <1>5

LEMMA ChainKeeps ==
  ASSUME IInv, Mine \/ OtherClient \/ Crash
  PROVE  IInv'
<1>1. CASE Mine
  <2>1. PICK e \in pool : /\ pool' = pool \ {e} /\ mined' = Append(mined, e.call)
                          /\ UNCHANGED <<nonce, lock, thread, result, faults>>
    BY <1>1 DEF Mine
  <2>2. mined \in Seq(Call \cup {Foreign}) /\ e.call \in Call \cup {Foreign}
    BY DEF IInv, TypeOK
  <2>3. mined' \in Seq(Call \cup {Foreign})
    BY <2>1, <2>2
  <2>4. TypeOK'
    BY <2>1, <2>3 DEF IInv, TypeOK
  <2>5. IsFiniteSet(pool')
    BY <2>1, FS_Subset DEF IInv
  <2>6. CallsBounded'
    BY <2>1 DEF IInv, CallsBounded, InCall
  <2>7. faults'["resends"] = 0 => SentOnce' /\ Unsent'
    BY <2>1, MinedMoves DEF IInv
  <2> QED
    BY <2>4, <2>5, <2>6, <2>7 DEF IInv
<1>2. CASE OtherClient
  <2>1. /\ Happens("foreign", MaxForeign) /\ "foreign" \in Fault /\ "resends" \in Fault
        /\ Accept(NextPlace, Foreign) /\ UNCHANGED <<nonce, lock, thread, mined, result>>
    BY <1>2 DEF OtherClient, Fault
  <2>2. pool' \subseteq [nonce : Nat, call : Call \cup {Foreign}] /\ IsFiniteSet(pool')
    BY <2>1, CountType, NextPlaceFree, AcceptType DEF IInv
  <2>3. faults' \in [Fault -> Nat] /\ (faults'["resends"] = 0 => faults["resends"] = 0)
    BY <2>1, HappensType DEF IInv
  <2>4. TypeOK'
    BY <2>1, <2>2, <2>3 DEF IInv, TypeOK
  <2>5. CallsBounded'
    BY <2>1 DEF IInv, CallsBounded, InCall
  <2>6. faults'["resends"] = 0 => SentOnce' /\ Unsent'
    BY <2>1, <2>3, ForeignSent DEF IInv
  <2> QED
    BY <2>2, <2>4, <2>5, <2>6 DEF IInv
<1>3. CASE Crash
  <2>1. /\ Happens("crashes", MaxCrashes) /\ "crashes" \in Fault /\ "resends" \in Fault
        /\ UNCHANGED <<pool, mined, result>>
        /\ nonce' = 0 /\ lock' = NoThread
    BY <1>3 DEF Crash, Fault
  <2>2. faults' \in [Fault -> Nat] /\ (faults'["resends"] = 0 => faults["resends"] = 0)
    BY <2>1, HappensType DEF IInv
  <2>3. \A t \in Thread : /\ thread'[t] \in State /\ thread'[t].pc = "none"
                          /\ \/ InCall(t) /\ thread'[t].call = thread[t].call + 1
                             \/ ~InCall(t) /\ thread'[t].call = thread[t].call
    <3>1. TAKE t \in Thread
    <3> DEFINE n == IF InCall(t) THEN thread[t].call + 1 ELSE thread[t].call
    <3>2. thread'[t] = Fresh("none", n)
      BY <1>3 DEF Crash
    <3>3. n \in 1..(MaxCalls + 1)
      <4>1. thread[t].call \in 1..(MaxCalls + 1)
        BY DEF IInv, TypeOK, State
      <4>2. InCall(t) => thread[t].call <= MaxCalls
        BY DEF IInv, CallsBounded
      <4> QED
        BY <4>1, <4>2, BoundAssumption
    <3> QED
      BY <3>2, <3>3, FreshType
  <2>4. thread' \in [Thread -> State]
    BY <1>3, <2>3 DEF Crash
  <2>5. TypeOK'
    BY <2>1, <2>2, <2>4, BoundAssumption DEF IInv, TypeOK
  <2>6. CallsBounded'
    BY <2>1, <2>3 DEF IInv, CallsBounded, InCall
  <2>7. \A t \in Thread : Onward(t)
    <3>1. \A t \in Thread : thread[t].call \in Nat
      BY CallNat DEF IInv, TypeOK
    <3> QED
      BY <2>3, <3>1 DEF Onward, InCall
  <2>8. faults'["resends"] = 0 => SentOnce' /\ Unsent'
    BY <2>1, <2>2, <2>4, <2>7, NothingSent DEF IInv
  <2> QED
    BY <2>1, <2>5, <2>6, <2>8 DEF IInv
<1> QED
  BY <1>1, <1>2, <1>3

-----------------------------------------------------------------------------
(***************************************************************************)
(* The theorems.                                                           *)
(***************************************************************************)
LEMMA InitInv == Init => IInv
<1> SUFFICES ASSUME Init PROVE IInv
  OBVIOUS
<1>1. Fresh("none", 1) \in State /\ Fresh("none", 1).pc = "none"
  BY FreshType, BoundAssumption
<1>2. TypeOK
  BY <1>1, BoundAssumption DEF Init, TypeOK
<1>3. IsFiniteSet(pool)
  BY FS_EmptySet DEF Init
<1>4. CallsBounded
  BY <1>1 DEF Init, CallsBounded, InCall
<1>5. SentOnce /\ Unsent
  BY DEF Init, SentOnce, Unsent, Waiting, Done
<1> QED
  BY <1>2, <1>3, <1>4, <1>5 DEF IInv

LEMMA NextInv == IInv /\ [Next]_vars => IInv'
<1> SUFFICES ASSUME IInv, [Next]_vars PROVE IInv'
  OBVIOUS
<1>1. ASSUME NEW t \in Thread, Construct(t) \/ StartCall(t) \/ Step(t) PROVE IInv'
  BY <1>1, ConstructorKeeps, SendKeeps, PollKeeps DEF Step, Local, Answer
<1>2. CASE Mine \/ OtherClient \/ Crash
  BY <1>2, ChainKeeps
<1>3. CASE UNCHANGED vars
  BY <1>3 DEF vars, IInv, TypeOK, CallsBounded, InCall, SentOnce, Unsent,
              Waiting, Done
<1> QED
  BY <1>1, <1>2, <1>3 DEF Next

\* In every reachable state a call is in the pool once or was mined once, and the
\* node knows nothing of a call whose thread does not poll for it.
THEOREM InductiveInvariant == Spec => []IInv
BY InitInv, NextInv, PTL DEF Spec

\* Nonces keep their width and threads their kinds of state: of constructors,
\* draws, sends and polls, none leaves a thread in a state with no handler.
THEOREM TypeCorrect == Spec => []TypeOK
<1>1. IInv => TypeOK
  BY DEF IInv
<1> QED
  BY <1>1, InductiveInvariant, PTL

\* The retry with a higher nonce never gets a call mined twice, as long as curl
\* sends no request of its own accord a second time.
THEOREM NoDoubleMining == Spec => []MinedOnce
<1>1. IInv => MinedOnce
  BY DEF IInv, MinedOnce, Faultless, SentOnce
<1> QED
  BY <1>1, InductiveInvariant, PTL

-----------------------------------------------------------------------------
(***************************************************************************)
(* The queue.  From here on the account has mined calls, the nonce is wide *)
(* enough for all calls to come, and neither constructors without an       *)
(* answer, nor other clients or crashes disturb.                           *)
(***************************************************************************)
NonceFits ==
  /\ StartCount >= 2
  /\ IsFiniteSet(Thread) /\ StartCount + Cardinality(Call) + MaxResends <= NonceMod

Undisturbed == Faultless({"uncounted", "foreign", "crashes"})

\* The calls that have drawn a nonce; one that curl sent twice draws again.
Drawn == {c \in Call :
  \/ c[2] < thread[c[1]].call
  \/ c[2] = thread[c[1]].call /\ thread[c[1]].pc \in {"sending", "polling"}}

Sending(t) == thread[t].pc = "sending"

\* One constructor sets the nonce, before any call; then it counts the draws.
Initialised ==
  /\ \A t \in Thread : thread[t].pc \in {"counting", "counted"} => lock = t /\ nonce = 0
  /\ \A t \in Thread : thread[t].pc = "counted" => thread[t].start = StartCount - 1
  /\ nonce = 0 =>
       /\ pool = {} /\ mined = << >> /\ Drawn = {} /\ faults["resends"] = 0
       /\ \A t \in Thread : thread[t].pc \in {"none", "counting", "counted"}
  /\ nonce # 0 => nonce = StartCount - 1 + Cardinality(Drawn) + faults["resends"]
  /\ faults["resends"] \in 0..MaxResends

\* Each nonce from the next to be mined to the last that was drawn is that of one
\* call at most.
OnePlace ==
  /\ nonce = 0 \/ Count <= nonce + 1
  /\ \A e \in pool : e.nonce \in Count..nonce /\ e.call # Foreign
  /\ \A d, e \in pool : d.nonce = e.nonce => d = e
  /\ \A t \in Thread : Sending(t) => thread[t].drawn \in Count..nonce /\ ~Taken(thread[t].drawn)
  /\ \A s, t \in Thread : Sending(s) /\ Sending(t) /\ thread[s].drawn = thread[t].drawn => s = t

\* As long as no request was lost, there is one.
Filled ==
  faults["lost"] = 0 => \A n \in Count..nonce :
    Taken(n) \/ \E t \in Thread : Sending(t) /\ thread[t].drawn = n

QueueOk == Initialised /\ OnePlace /\ Filled

QInv == Undisturbed => QueueOk

LEMMA CallFinite ==
  ASSUME NonceFits
  PROVE  /\ IsFiniteSet(Drawn) /\ Cardinality(Drawn) \in Nat
         /\ Cardinality(Call) \in Nat /\ Cardinality(Drawn) <= Cardinality(Call)
         /\ \A c \in Call \ Drawn : /\ Cardinality(Drawn \cup {c}) = Cardinality(Drawn) + 1
                                    /\ Cardinality(Drawn) + 1 <= Cardinality(Call)
<1>1. IsFiniteSet(Call)
  <2>1. MaxCalls \in Int
    BY BoundAssumption
  <2>2. IsFiniteSet(1..MaxCalls)
    BY <2>1, FS_Interval
  <2> QED
    BY <2>2, FS_Product DEF NonceFits, Call
<1>2. Drawn \subseteq Call
  BY DEF Drawn
<1>3. IsFiniteSet(Drawn) /\ Cardinality(Drawn) <= Cardinality(Call)
  BY <1>1, <1>2, FS_Subset
<1>4. Cardinality(Drawn) \in Nat /\ Cardinality(Call) \in Nat
  BY <1>1, <1>3, FS_CardinalityType
<1>5. ASSUME NEW c \in Call \ Drawn
      PROVE  /\ Cardinality(Drawn \cup {c}) = Cardinality(Drawn) + 1
             /\ Cardinality(Drawn \cup {c}) <= Cardinality(Call)
  <2>1. Drawn \cup {c} \subseteq Call
    BY <1>2
  <2>2. Cardinality(Drawn \cup {c}) <= Cardinality(Call)
    BY <1>1, <2>1, FS_Subset
  <2> QED
    BY <1>3, <2>2, FS_AddElement
<1> QED
  BY <1>1, <1>3, <1>4, <1>5

\* The nonce that a call names is free.
LEMMA SendsFree ==
  ASSUME NonceFits, IInv, QueueOk, NEW t \in Thread, Sending(t)
  PROVE  /\ thread[t].drawn # 0 /\ PlaceOf(t) = thread[t].drawn
         /\ ~Taken(PlaceOf(t)) /\ Acceptable(t) /\ ~TooLow(t) /\ ~AlreadyKnown(t)
         /\ ~Underpriced(t)
<1>1. /\ thread[t].drawn \in Count..nonce /\ ~Taken(thread[t].drawn) /\ Count \in Nat
      /\ nonce \in Nat
  BY CountType, BoundAssumption DEF IInv, TypeOK, QueueOk, OnePlace
<1>2. Count >= 2
  BY <1>1, BoundAssumption DEF NonceFits, Count, IInv, TypeOK
<1>3. thread[t].drawn # 0 /\ PlaceOf(t) = thread[t].drawn
  BY <1>1, <1>2 DEF PlaceOf
<1>4. ~AlreadyKnown(t)
  BY <1>1, <1>3 DEF AlreadyKnown, Taken
<1> QED
  BY <1>1, <1>2, <1>3, <1>4 DEF TooLow, Acceptable, Underpriced, Sending

LEMMA StateFields ==
  ASSUME TypeOK, NEW t \in Thread
  PROVE  /\ thread[t] \in State /\ thread[t].call \in Nat /\ thread[t].call >= 1
         /\ thread[t].drawn \in Nat
<1>1. thread[t] \in State
  BY DEF TypeOK
<1>2. thread[t].call \in 1..(MaxCalls + 1) /\ thread[t].drawn \in 0..(NonceMod - 1)
  BY <1>1 DEF State
<1>3. MaxCalls \in Nat /\ NonceMod \in Nat
  BY BoundAssumption
<1> QED
  BY <1>1, <1>2, <1>3

\* The calls that have drawn stay the same when a thread goes from one state
\* before the draw to another, from one after it to another, or to its next call.
LEMMA DrawnKeeps ==
  ASSUME TypeOK, NEW t \in Thread, \A u \in Thread : u # t => thread'[u] = thread[u],
         \/ /\ thread'[t].call = thread[t].call
            /\ thread'[t].pc \in {"sending", "polling"} <=> thread[t].pc \in {"sending", "polling"}
         \/ /\ thread'[t].call = thread[t].call + 1
            /\ thread[t].pc \in {"sending", "polling"} /\ thread'[t].pc = "idle"
  PROVE  Drawn' = Drawn
<1>1. ASSUME NEW c \in Call PROVE c \in Drawn' <=> c \in Drawn
  <2>1. c[1] \in Thread /\ c[2] \in Nat
    BY BoundAssumption DEF Call
  <2>2. CASE c[1] # t
    BY <2>1, <2>2 DEF Drawn
  <2>3. CASE c[1] = t
    <3>1. thread[t].call \in Nat
      BY StateFields
    <3>2. c \in Drawn <=> \/ c[2] < thread[t].call
                          \/ c[2] = thread[t].call /\ thread[t].pc \in {"sending", "polling"}
      BY <2>3 DEF Drawn
    <3>3. c \in Drawn' <=> \/ c[2] < thread'[t].call
                           \/ c[2] = thread'[t].call /\ thread'[t].pc \in {"sending", "polling"}
      BY <2>3 DEF Drawn
    <3>4. CASE thread'[t].call = thread[t].call
      BY <3>2, <3>3, <3>1, <3>4
    <3>5. CASE /\ thread'[t].call = thread[t].call + 1
               /\ thread[t].pc \in {"sending", "polling"} /\ thread'[t].pc = "idle"
      BY <2>1, <3>1, <3>2, <3>3, <3>5
    <3> QED
      BY <3>4, <3>5
  <2> QED
    BY <2>2, <2>3
<1> QED
  BY <1>1 DEF Drawn

\* Steps of a thread that is not sending, before and after.
LEMMA QuietStep ==
  ASSUME QueueOk, NEW t \in Thread, \A u \in Thread : u # t => thread'[u] = thread[u],
         ~Sending(t), thread'[t].pc # "sending", UNCHANGED <<nonce, pool, mined, faults>>
  PROVE  OnePlace' /\ Filled'
<1>1. Count' = Count /\ \A n : Taken(n)' <=> Taken(n)
  BY DEF Count, Taken
<1>2. \A u \in Thread : Sending(u)' => Sending(u) /\ thread'[u] = thread[u]
  BY DEF Sending
<1>3. \A u \in Thread : Sending(u) => Sending(u)' /\ thread'[u] = thread[u]
  BY DEF Sending
<1>4. OnePlace'
  BY <1>1, <1>2 DEF QueueOk, OnePlace
<1>5. Filled'
  BY <1>1, <1>3 DEF QueueOk, Filled
<1> QED
  BY <1>4, <1>5

LEMMA ConstructorQueue ==
  ASSUME NonceFits, IInv, QueueOk, NEW t \in Thread,
         Construct(t) \/ CountAnswered(t) \/ StartCall(t)
  PROVE  QueueOk'
<1>1. /\ UNCHANGED <<nonce, pool, mined, faults>> /\ thread \in [Thread -> State]
      /\ \A u \in Thread : u # t => thread'[u] = thread[u]
      /\ thread'[t].call = thread[t].call
      /\ thread[t].pc \in {"none", "idle", "counting", "ready"}
      /\ thread'[t].pc \in {"counting", "counted", "ready", "drawing"}
  BY DEF Construct, CountAnswered, StartCall, Goto, IInv, TypeOK, State
<1>2. OnePlace' /\ Filled'
  BY <1>1, QuietStep DEF Sending
<1>3. Drawn' = Drawn
  BY <1>1, DrawnKeeps DEF IInv
<1>4. Initialised'
  <2>1. CASE Construct(t)
    <3>1. thread'[t].pc = (IF nonce = 0 THEN "counting" ELSE "ready") /\ lock = NoThread
          /\ lock' = IF nonce = 0 THEN t ELSE lock
      BY <2>1, <1>1 DEF Construct, Goto, State
    <3>2. \A u \in Thread : thread[u].pc \notin {"counting", "counted"}
      BY <3>1, NoThreadAssumption DEF QueueOk, Initialised
    <3> QED
      BY <1>1, <1>3, <3>1, <3>2 DEF QueueOk, Initialised
  <2>2. CASE CountAnswered(t)
    <3>1. /\ thread'[t].pc = "counted" /\ thread'[t].start = StartNonce /\ thread[t].pc = "counting"
          /\ lock' = lock
      BY <2>2, <1>1 DEF CountAnswered, State
    <3>2. nonce = 0 /\ lock = t /\ mined = << >>
      BY <3>1 DEF QueueOk, Initialised
    <3>3. StartNonce = StartCount - 1
      <4>1. Count = StartCount /\ StartCount \in Nat /\ NonceMod \in Nat
        BY <3>2, BoundAssumption DEF Count
      <4>2. Cardinality(Call) \in Nat /\ MaxResends \in Nat /\ StartCount >= 2
            /\ StartCount + Cardinality(Call) + MaxResends <= NonceMod
        BY CallFinite, BoundAssumption DEF NonceFits
      <4>3. StartCount - 1 \in Nat /\ StartCount - 1 < NonceMod
        BY <4>1, <4>2
      <4> QED
        BY <4>1, <4>3 DEF StartNonce
    <3> QED
      BY <1>1, <1>3, <3>1, <3>2, <3>3 DEF QueueOk, Initialised
  <2>3. CASE StartCall(t)
    <3>1. thread'[t].pc = "drawing" /\ thread[t].pc \in {"ready", "idle"} /\ lock' = lock
      BY <2>3, <1>1 DEF StartCall, Goto, State
    <3>2. nonce # 0
      BY <3>1 DEF QueueOk, Initialised
    <3> QED
      BY <1>1, <1>3, <3>1, <3>2 DEF QueueOk, Initialised
  <2> QED
    BY <2>1, <2>2, <2>3
<1> QED
  BY <1>2, <1>4 DEF QueueOk

LEMMA StoreQueue ==
  ASSUME NonceFits, IInv, QueueOk, NEW t \in Thread, StoreNonce(t)
  PROVE  QueueOk'
<1>1. /\ UNCHANGED <<pool, mined, faults>> /\ thread \in [Thread -> State]
      /\ \A u \in Thread : u # t => thread'[u] = thread[u]
      /\ thread'[t].call = thread[t].call /\ thread[t].pc = "counted" /\ thread'[t].pc = "ready"
      /\ nonce' = thread[t].start /\ lock' = NoThread
  BY DEF StoreNonce, Goto, IInv, TypeOK, State
<1>2. /\ lock = t /\ nonce = 0 /\ nonce' = StartCount - 1 /\ pool = {} /\ mined = << >>
      /\ Drawn = {} /\ faults["resends"] = 0
      /\ \A u \in Thread : thread[u].pc \in {"none", "counting", "counted"}
  BY <1>1 DEF QueueOk, Initialised
<1>3. \A u \in Thread : u # t => thread[u].pc = "none"
  BY <1>2 DEF QueueOk, Initialised
<1>4. Drawn' = Drawn
  BY <1>1, DrawnKeeps DEF IInv
<1>5. Count' = StartCount /\ nonce' # 0 /\ nonce' \in Nat /\ nonce' + 1 = Count' /\ Count' <= nonce' + 1
  BY <1>1, <1>2, BoundAssumption DEF Count, NonceFits
<1>6. Initialised'
  <2>1. Cardinality(Drawn') = 0
    BY <1>2, <1>4, FS_EmptySet
  <2> QED
    BY <1>1, <1>2, <1>3, <1>4, <1>5, <2>1, BoundAssumption DEF Initialised
<1>7. OnePlace' /\ Filled'
  <2>1. \A u \in Thread : ~Sending(u)'
    BY <1>1, <1>3 DEF Sending
  <2>2. pool' = {} /\ Count'..nonce' = {}
    BY <1>1, <1>2, <1>5
  <2>3. OnePlace'
    <3>1. (Count <= nonce + 1)'
      BY <1>5
    <3>2. pool' = {}
      BY <2>2
    <3> QED
      BY <2>1, <3>1, <3>2, Zenon DEF OnePlace
  <2>4. Filled'
    BY <2>2 DEF Filled
  <2> QED
    BY <2>3, <2>4
<1> QED
  BY <1>6, <1>7 DEF QueueOk

LEMMA DrawQueue ==
  ASSUME NonceFits, IInv, QueueOk, NEW t \in Thread, Draw(t)
  PROVE  QueueOk' /\ nonce' = nonce + 1 /\ nonce \in Nat /\ nonce # 0
<1>1. /\ UNCHANGED <<lock, pool, mined, faults>> /\ thread \in [Thread -> State]
      /\ \A u \in Thread : u # t => thread'[u] = thread[u]
      /\ thread'[t].call = thread[t].call /\ thread[t].pc = "drawing" /\ thread'[t].pc = "sending"
      /\ nonce' = (nonce + 1) % NonceMod /\ thread'[t].drawn = nonce'
  BY DEF Draw, IInv, TypeOK, State
<1>2. /\ nonce # 0 /\ nonce = StartCount - 1 + Cardinality(Drawn) + faults["resends"]
      /\ faults["resends"] \in 0..MaxResends /\ Count <= nonce + 1
      /\ nonce \in Nat /\ Count \in Nat
      /\ StartCount \in Nat /\ NonceMod \in Nat /\ MaxResends \in Nat
  <2>1. nonce # 0
    BY <1>1 DEF QueueOk, Initialised
  <2>2. /\ nonce = StartCount - 1 + Cardinality(Drawn) + faults["resends"]
        /\ faults["resends"] \in 0..MaxResends
    BY <2>1 DEF QueueOk, Initialised
  <2>3. Count <= nonce + 1
    BY <2>1 DEF QueueOk, OnePlace
  <2>4. nonce \in Nat /\ Count \in Nat
    BY CountType, BoundAssumption DEF IInv, TypeOK
  <2> QED
    BY <2>1, <2>2, <2>3, <2>4, BoundAssumption
<1>3. Current(t) \in Call /\ Current(t) \notin Drawn /\ thread[t].call \in Nat
  <2>1. Current(t) \in Call
    BY <1>1, CurrentType DEF IInv, InCall
  <2>2. thread[t].call \in Nat
    BY StateFields DEF IInv
  <2> QED
    BY <1>1, <2>1, <2>2 DEF Drawn, Current
<1>4. Drawn' = Drawn \cup {Current(t)}
  <2>1. ASSUME NEW c \in Call PROVE c \in Drawn' <=> c \in Drawn \cup {Current(t)}
    <3>1. CASE c[1] # t
      BY <1>1, <3>1 DEF Drawn, Current, Call
    <3>2. CASE c[1] = t
      <4>1. c \in Drawn <=> c[2] < thread[t].call
        BY <1>1, <3>2 DEF Drawn
      <4>2. c \in Drawn' <=> c[2] < thread[t].call \/ c[2] = thread[t].call
        BY <1>1, <3>2 DEF Drawn
      <4>3. c = Current(t) <=> c[2] = thread[t].call
        BY <3>2 DEF Current, Call
      <4> QED
        BY <4>1, <4>2, <4>3
    <3> QED
      BY <3>1, <3>2
  <2>2. Drawn \subseteq Call /\ Drawn' \subseteq Call
    BY DEF Drawn
  <2> QED
    BY <1>3, <2>1, <2>2
<1>5. /\ Cardinality(Drawn') = Cardinality(Drawn) + 1 /\ Cardinality(Drawn) \in Nat
      /\ Cardinality(Drawn) + 1 <= Cardinality(Call) /\ Cardinality(Call) \in Nat
  BY <1>3, <1>4, CallFinite
<1>6. nonce' = nonce + 1
  <2>1. nonce + 1 < NonceMod
    BY <1>2, <1>5 DEF NonceFits
  <2> QED
    BY <1>1, <1>2, <2>1
<1>7. Initialised'
  <2>1. nonce' = StartCount - 1 + Cardinality(Drawn') + faults["resends"] /\ nonce' # 0
    BY <1>2, <1>5, <1>6
  <2>2. \A u \in Thread : thread'[u].pc \notin {"counting", "counted"}
    BY <1>1, <1>2 DEF QueueOk, Initialised
  <2> QED
    BY <1>1, <1>2, <2>1, <2>2 DEF Initialised
<1>8. Count' = Count /\ \A n : Taken(n)' <=> Taken(n)
  BY <1>1 DEF Count, Taken
<1>9. \A e \in pool : e.nonce \in Nat /\ e.nonce \in Count..nonce
  BY <1>1 DEF QueueOk, OnePlace, IInv, TypeOK
<1>10. ~Taken(nonce + 1)
  BY <1>2, <1>9 DEF Taken
<1>11. \A u \in Thread : u # t => (Sending(u)' <=> Sending(u)) /\ thread'[u].drawn = thread[u].drawn
  BY <1>1 DEF Sending
<1>12. \A u \in Thread : Sending(u) => thread[u].drawn \in Count..nonce /\ ~Taken(thread[u].drawn)
  BY DEF QueueOk, OnePlace
<1>13. OnePlace'
  <2>1. Count' <= nonce' + 1
    BY <1>2, <1>6, <1>8
  <2>2. \A e \in pool' : e.nonce \in Count'..nonce' /\ e.call # Foreign
    BY <1>1, <1>2, <1>6, <1>8, <1>9 DEF QueueOk, OnePlace
  <2>3. \A d, e \in pool' : d.nonce = e.nonce => d = e
    BY <1>1 DEF QueueOk, OnePlace
  <2>4. ASSUME NEW u \in Thread, Sending(u)'
        PROVE  thread'[u].drawn \in Count'..nonce' /\ ~Taken(thread'[u].drawn)
    <3>1. CASE u = t
      BY <1>1, <1>2, <1>6, <1>8, <1>10, <3>1
    <3>2. CASE u # t
      BY <1>2, <1>6, <1>8, <1>11, <1>12, <2>4, <3>2
    <3> QED
      BY <3>1, <3>2
  <2>5. ASSUME NEW r \in Thread, NEW u \in Thread, Sending(r)', Sending(u)',
               thread'[r].drawn = thread'[u].drawn
        PROVE  r = u
    <3>1. \A v \in Thread : v # t /\ Sending(v)' => thread'[v].drawn # nonce + 1 /\ Sending(v)
      BY <1>2, <1>11, <1>12
    <3>2. thread'[t].drawn = nonce + 1
      BY <1>1, <1>6
    <3> QED
      BY <1>11, <2>5, <3>1, <3>2 DEF QueueOk, OnePlace
  <2> QED
    BY <1>1, <2>1, <2>2, <2>3, <2>4, <2>5 DEF OnePlace, Taken
<1>14. Filled'
  <2>1. ASSUME faults["lost"] = 0, NEW n \in Count..(nonce + 1)
        PROVE  Taken(n) \/ \E u \in Thread : Sending(u)' /\ thread'[u].drawn = n
    <3>1. CASE n = nonce + 1
      BY <1>1, <1>6, <3>1 DEF Sending
    <3>2. CASE n # nonce + 1
      <4>1. n \in Count..nonce
        BY <1>2, <3>2
      <4>2. Taken(n) \/ \E u \in Thread : Sending(u) /\ thread[u].drawn = n
        BY <2>1, <4>1 DEF QueueOk, Filled
      <4>3. ~Sending(t)
        BY <1>1 DEF Sending
      <4> QED
        BY <1>11, <4>2, <4>3
    <3> QED
      BY <3>1, <3>2
  <2> QED
    BY <1>1, <1>6, <1>8, <2>1 DEF Filled
<1> QED
  BY <1>2, <1>6, <1>7, <1>13, <1>14 DEF QueueOk

\* The request reaches the node, or it is lost and the call is over: in the first
\* case the node has it under the nonce that it drew, also when curl sends it again.
LEMMA SendQueue ==
  ASSUME NonceFits, IInv, QueueOk, NEW t \in Thread,
         Accepted(t) \/ Lost(t) \/ AcceptedTwice(t)
  PROVE  /\ QueueOk'
         /\ UNCHANGED <<nonce, mined>> /\ Sending(t)
         /\ \A u \in Thread : u # t => thread'[u] = thread[u]
         /\ thread'[t].pc # "sending"
         /\ pool' = pool \/ pool' = pool \cup {[nonce |-> thread[t].drawn, call |-> Current(t)]}
<1>1. /\ UNCHANGED <<nonce, lock, mined>> /\ thread \in [Thread -> State] /\ Sending(t)
      /\ \A u \in Thread : u # t => thread'[u] = thread[u]
      /\ \/ thread'[t].call = thread[t].call /\ thread'[t].pc = "polling"
         \/ thread'[t].call = thread[t].call + 1 /\ thread'[t].pc = "idle"
         \/ thread'[t].call = thread[t].call /\ thread'[t].pc = "drawing" /\ AcceptedTwice(t)
      /\ faults["lost"] \in Nat
  <2>1. CASE Accepted(t)
    BY <2>1 DEF Accepted, Acceptable, Sending, IInv, TypeOK, State, Fault
  <2>2. CASE Lost(t)
    <3>1. thread' = [thread EXCEPT ![t] = Fresh("idle", thread[t].call + 1)]
      BY <2>2 DEF Lost, Return
    <3>2. thread'[t] = Fresh("idle", thread[t].call + 1)
      BY <3>1 DEF IInv, TypeOK
    <3> QED
      BY <2>2, <3>1, <3>2 DEF Lost, Sending, Fresh, IInv, TypeOK, Fault
  <2>3. CASE AcceptedTwice(t)
    BY <2>3 DEF AcceptedTwice, Acceptable, Goto, Sending, IInv, TypeOK, State, Fault
  <2> QED
    BY <2>1, <2>2, <2>3
<1>2. PICK p : p = thread[t].drawn
  OBVIOUS
<1>3. /\ p # 0 /\ PlaceOf(t) = p /\ ~Taken(p) /\ p \in Count..nonce
  BY <1>1, <1>2, SendsFree DEF QueueOk, OnePlace
<1>4. PICK e : e = [nonce |-> p, call |-> Current(t)]
  OBVIOUS
<1>5. /\ e.nonce = p /\ e.call = Current(t) /\ (pool' = pool \/ pool' = pool \cup {e})
      /\ pool' = pool => Lost(t)
  <2>1. pool' = pool \/ pool' = pool \cup {e}
    BY <1>3, <1>4 DEF Accepted, Lost, AcceptedTwice, Accept
  <2>2. pool' = pool => Lost(t)
    <3>1. ASSUME Accepted(t) \/ AcceptedTwice(t) PROVE e \in pool' /\ e \notin pool
      BY <1>3, <1>4, <3>1 DEF Accepted, AcceptedTwice, Accept, Taken
    <3> QED
      BY <3>1
  <2> QED
    BY <1>4, <2>1, <2>2
<1>6. e.call # Foreign
  BY <1>1, <1>5, CurrentType, CallAssumption DEF IInv, InCall, Sending
<1>7. /\ nonce # 0 /\ nonce = StartCount - 1 + Cardinality(Drawn) + faults["resends"]
      /\ faults["resends"] \in 0..MaxResends /\ MaxResends \in Nat /\ StartCount \in Nat
  BY <1>1, BoundAssumption DEF QueueOk, Initialised, Sending
<1>8. /\ nonce = StartCount - 1 + Cardinality(Drawn') + faults'["resends"]
      /\ faults'["resends"] \in 0..MaxResends
  <2>1. CASE AcceptedTwice(t)
    <3>1. /\ thread'[t].call = thread[t].call /\ thread'[t].pc = "drawing"
          /\ faults'["resends"] = faults["resends"] + 1 /\ faults["resends"] < MaxResends
      BY <2>1 DEF AcceptedTwice, Happens, Goto, IInv, TypeOK, State, Fault
    <3>2. Current(t) \in Call /\ thread[t].call \in Nat
      BY <1>1, CurrentType, StateFields DEF IInv, InCall, Sending
    <3>3. Current(t) \in Drawn /\ Current(t) \notin Drawn'
      BY <1>1, <3>1, <3>2 DEF Drawn, Current, Sending
    <3>4. ASSUME NEW c \in Call, c # Current(t) PROVE c \in Drawn' <=> c \in Drawn
      <4>1. CASE c[1] # t
        BY <1>1, <4>1 DEF Drawn, Call
      <4>2. CASE c[1] = t
        <5>1. c[2] # thread[t].call
          BY <3>4, <4>2 DEF Current, Call
        <5> QED
          BY <3>1, <4>2, <5>1 DEF Drawn
      <4> QED
        BY <4>1, <4>2
    <3>5. Drawn \subseteq Call /\ Drawn' \subseteq Call
      BY DEF Drawn
    <3>6. Drawn' = Drawn \ {Current(t)}
      BY <3>3, <3>4, <3>5
    <3>7. Cardinality(Drawn') = Cardinality(Drawn) - 1 /\ Cardinality(Drawn) \in Nat
      BY <3>3, <3>6, CallFinite, FS_RemoveElement
    <3> QED
      BY <1>7, <3>1, <3>7
  <2>2. CASE Accepted(t) \/ Lost(t)
    <3>1. thread'[t].pc # "drawing"
      <4>1. CASE Accepted(t)
        BY <4>1 DEF Accepted, IInv, TypeOK, State
      <4>2. CASE Lost(t)
        <5>1. thread' = [thread EXCEPT ![t] = Fresh("idle", thread[t].call + 1)]
          BY <4>2 DEF Lost, Return
        <5> QED
          BY <5>1 DEF Fresh, IInv, TypeOK
      <4> QED
        BY <2>2, <4>1, <4>2
    <3>2. Drawn' = Drawn
      BY <1>1, <3>1, DrawnKeeps DEF IInv, Sending
    <3>3. faults'["resends"] = faults["resends"]
      BY <2>2 DEF Accepted, Lost, Happens, IInv, TypeOK, Fault
    <3> QED
      BY <1>7, <3>2, <3>3
  <2> QED
    BY <2>1, <2>2
<1>9. Initialised'
  BY <1>1, <1>7, <1>8 DEF QueueOk, Initialised, Sending
<1>10. Count' = Count
  BY <1>1 DEF Count
<1>11. \A u \in Thread : Sending(u)' <=> Sending(u) /\ u # t
  BY <1>1 DEF Sending
<1>12. \A n : Taken(n)' => Taken(n) \/ n = p
  BY <1>5 DEF Taken
<1>13. OnePlace'
  <2>1. \A d \in pool' : d.nonce \in Count'..nonce' /\ d.call # Foreign
    BY <1>1, <1>3, <1>5, <1>6, <1>10 DEF QueueOk, OnePlace
  <2>2. \A c, d \in pool' : c.nonce = d.nonce => c = d
    BY <1>3, <1>5 DEF QueueOk, OnePlace, Taken
  <2>3. \A u \in Thread : Sending(u)' =>
          thread'[u].drawn \in Count'..nonce' /\ \A d \in pool' : d.nonce # thread'[u].drawn
    <3>1. \A u \in Thread : Sending(u)' =>
            /\ u # t /\ Sending(u) /\ thread'[u].drawn = thread[u].drawn
            /\ thread[u].drawn # p
      BY <1>1, <1>2, <1>11 DEF QueueOk, OnePlace
    <3>2. \A u \in Thread : Sending(u) => thread[u].drawn \in Count..nonce /\ ~Taken(thread[u].drawn)
      BY DEF QueueOk, OnePlace
    <3> QED
      BY <1>1, <1>5, <1>10, <3>1, <3>2 DEF Taken
  <2>4. \A r, u \in Thread : Sending(r)' /\ Sending(u)' /\ thread'[r].drawn = thread'[u].drawn => r = u
    BY <1>1, <1>11 DEF QueueOk, OnePlace
  <2> QED
    BY <1>1, <1>10, <2>1, <2>2, <2>3, <2>4 DEF QueueOk, OnePlace, Taken
<1>14. Filled'
  <2>1. CASE Lost(t)
    <3>1. faults'["lost"] = faults["lost"] + 1
      BY <2>1 DEF Lost, Happens, Fault, IInv, TypeOK
    <3> QED
      BY <1>1, <3>1 DEF Filled
  <2>2. CASE Accepted(t) \/ AcceptedTwice(t)
    <3>1. faults'["lost"] = faults["lost"] /\ Taken(p)' /\ \A n : Taken(n) => Taken(n)'
      <4>1. e \in pool' /\ pool \subseteq pool'
        BY <2>2, <1>3, <1>4, <1>5 DEF Accepted, AcceptedTwice, Accept
      <4>2. faults'["lost"] = faults["lost"]
        BY <2>2 DEF Accepted, AcceptedTwice, Happens, IInv, TypeOK, Fault
      <4> QED
        BY <1>5, <4>1, <4>2 DEF Taken
    <3> QED
      BY <1>1, <1>2, <1>10, <1>11, <3>1 DEF QueueOk, Filled
  <2> QED
    BY <2>1, <2>2
<1> QED
  BY <1>1, <1>2, <1>4, <1>5, <1>9, <1>13, <1>14 DEF QueueOk

LEMMA PollQueue ==
  ASSUME NonceFits, IInv, QueueOk, NEW t \in Thread, Confirmed(t) \/ Unconfirmed(t) \/ GiveUp(t)
  PROVE  QueueOk' /\ UNCHANGED <<nonce, pool, mined, faults>>
<1>1. /\ UNCHANGED <<nonce, lock, pool, mined, faults>> /\ thread[t].pc = "polling"
      /\ \A u \in Thread : u # t => thread'[u] = thread[u]
      /\ \/ thread'[t].call = thread[t].call /\ thread'[t].pc = "polling"
         \/ thread'[t].call = thread[t].call + 1 /\ thread'[t].pc = "idle"
  <2>1. CASE Unconfirmed(t)
    BY <2>1 DEF Unconfirmed, IInv, TypeOK, State
  <2>2. CASE Confirmed(t) \/ GiveUp(t)
    <3>1. thread' = [thread EXCEPT ![t] = Fresh("idle", thread[t].call + 1)]
      BY <2>2 DEF Confirmed, GiveUp, Return
    <3>2. thread'[t] = Fresh("idle", thread[t].call + 1)
      BY <3>1 DEF IInv, TypeOK
    <3> QED
      BY <2>2, <3>1, <3>2 DEF Confirmed, GiveUp, Fresh, IInv, TypeOK
  <2> QED
    BY <2>1, <2>2
<1>2. OnePlace' /\ Filled'
  BY <1>1, QuietStep DEF Sending
<1>3. Drawn' = Drawn
  BY <1>1, DrawnKeeps DEF IInv
<1>4. nonce # 0
  BY <1>1 DEF QueueOk, Initialised
<1>5. Initialised'
  BY <1>1, <1>3, <1>4 DEF QueueOk, Initialised
<1> QED
  BY <1>1, <1>2, <1>5 DEF QueueOk

LEMMA MineQueue ==
  ASSUME NonceFits, IInv, QueueOk, NEW e \in pool, e.nonce = Count, pool' = pool \ {e},
         mined' = Append(mined, e.call), UNCHANGED <<nonce, lock, thread, result, faults>>
  PROVE  QueueOk' /\ Count' = Count + 1 /\ Count <= nonce /\ nonce # 0
<1>1. Count' = Count + 1 /\ Count \in Nat /\ nonce \in Nat
  <2>1. mined \in Seq(Call \cup {Foreign}) /\ e.call \in Call \cup {Foreign} /\ nonce \in Nat
    BY BoundAssumption DEF IInv, TypeOK
  <2>2. Len(mined') = Len(mined) + 1 /\ Len(mined) \in Nat
    BY <2>1
  <2>3. StartCount \in Nat
    BY BoundAssumption
  <2> QED
    BY <2>1, <2>2, <2>3 DEF Count
<1>2. Count <= nonce /\ nonce # 0
  BY <1>1 DEF QueueOk, OnePlace, Initialised
<1>3. Initialised'
  <2>1. Drawn' = Drawn
    BY DEF Drawn
  <2> QED
    BY <1>2, <2>1 DEF QueueOk, Initialised
<1>4. \A n : n # Count => (Taken(n)' <=> Taken(n))
  BY DEF Taken
<1>5. \A d \in pool' : d.nonce # Count
  BY DEF QueueOk, OnePlace
<1>6. \A u \in Thread : Sending(u) => thread[u].drawn # Count
  BY DEF QueueOk, OnePlace, Taken
<1>7. OnePlace'
  <2>1. \A d \in pool' : d.nonce \in Count'..nonce' /\ d.call # Foreign
    BY <1>1, <1>5 DEF QueueOk, OnePlace
  <2>2. \A c, d \in pool' : c.nonce = d.nonce => c = d
    BY DEF QueueOk, OnePlace
  <2>3. \A u \in Thread : Sending(u)' =>
          thread'[u].drawn \in Count'..nonce' /\ \A d \in pool' : d.nonce # thread'[u].drawn
    <3>1. \A u \in Thread : Sending(u)' => Sending(u) /\ thread'[u] = thread[u]
      BY DEF Sending
    <3>2. \A u \in Thread : Sending(u) => thread[u].drawn \in Count..nonce /\ ~Taken(thread[u].drawn)
      BY DEF QueueOk, OnePlace
    <3> QED
      BY <1>1, <1>6, <3>1, <3>2 DEF Taken
  <2>4. \A r, u \in Thread : Sending(r)' /\ Sending(u)' /\ thread'[r].drawn = thread'[u].drawn => r = u
    BY DEF QueueOk, OnePlace, Sending
  <2>5. Count' <= nonce' + 1
    BY <1>1, <1>2
  <2> QED
    BY <2>1, <2>2, <2>3, <2>4, <2>5 DEF OnePlace, Taken
<1>8. Filled'
  <2>1. \A n \in Count'..nonce' : n \in Count..nonce /\ n # Count
    BY <1>1
  <2> QED
    BY <1>4, <2>1 DEF QueueOk, Filled, Sending
<1> QED
  BY <1>1, <1>2, <1>3, <1>7, <1>8 DEF QueueOk

\* Steps that disturb the queue are noted.
LEMMA DisturbedSteps ==
  ASSUME TypeOK
  PROVE  /\ (\E t \in Thread : CountUnusable(t)) \/ OtherClient \/ Crash
              => ~Undisturbed'
         /\ Next \/ UNCHANGED vars => (Undisturbed' => Undisturbed)
<1>1. ASSUME NEW f \in Fault, NEW bound, Happens(f, bound)
      PROVE  /\ f \in {"uncounted", "foreign", "crashes"} => ~Undisturbed'
             /\ Undisturbed' => Undisturbed
  <2>1. faults'[f] # 0 /\ \A g \in Fault : faults'[g] = 0 => faults[g] = 0
    BY <1>1, HappensType
  <2> QED
    BY <2>1 DEF Undisturbed, Faultless, Fault
<1>2. UNCHANGED faults => (Undisturbed' => Undisturbed)
  BY DEF Undisturbed, Faultless
<1>3. ASSUME NEW t \in Thread PROVE CountUnusable(t) => ~Undisturbed'
  BY <1>1 DEF CountUnusable, Fault
<1>4. OtherClient \/ Crash => ~Undisturbed'
  BY <1>1 DEF OtherClient, Crash, Fault
<1>5. ASSUME NEW t \in Thread, Lost(t) \/ AcceptedTwice(t)
      PROVE  Undisturbed' => Undisturbed
  BY <1>1, <1>5 DEF Lost, AcceptedTwice, Fault
<1>6. ASSUME NEW t \in Thread, Construct(t) \/ StartCall(t) \/ Step(t) PROVE Undisturbed' => Undisturbed
  <2>1. CASE Construct(t) \/ StartCall(t) \/ CountAnswered(t) \/ StoreNonce(t) \/ Draw(t)
             \/ Accepted(t) \/ Retry(t) \/ Refused(t) \/ Confirmed(t) \/ Unconfirmed(t) \/ GiveUp(t)
    BY <1>2, <2>1 DEF Construct, StartCall, CountAnswered, StoreNonce, Draw, Accepted, Retry,
         Refused, Confirmed, Unconfirmed, GiveUp
  <2> QED
    BY <1>3, <1>5, <1>6, <2>1 DEF Step, Local, Answer
<1>7. Mine => (Undisturbed' => Undisturbed)
  BY <1>2 DEF Mine
<1>8. UNCHANGED vars => (Undisturbed' => Undisturbed)
  BY <1>2 DEF vars
<1> QED
  BY <1>3, <1>4, <1>6, <1>7, <1>8 DEF Next

\* With a free nonce, the node neither asks for another one nor refuses.
LEMMA NoRetry ==
  ASSUME NonceFits, IInv, QueueOk, NEW t \in Thread
  PROVE  ~Retry(t) /\ ~Refused(t)
<1>1. thread[t].pc = "sending" => ~TooLow(t) /\ ~AlreadyKnown(t) /\ ~Underpriced(t)
  BY SendsFree DEF Sending
<1> QED
  BY <1>1 DEF Retry, Refused

LEMMA InitQueue ==
  ASSUME NonceFits, Init
  PROVE  QueueOk
<1>1. /\ nonce = 0 /\ pool = {} /\ mined = << >>
      /\ \A t \in Thread : thread[t].pc = "none" /\ thread[t].call = 1
  BY DEF Init, Fresh
<1>2. Drawn = {}
  <2>1. \A c \in Call : c[1] \in Thread /\ c[2] \in Nat /\ c[2] >= 1
    BY BoundAssumption DEF Call
  <2> QED
    BY <1>1, <2>1 DEF Drawn
<1>3. Initialised
  BY <1>1, <1>2, BoundAssumption DEF Init, Initialised, Fault
<1>4. OnePlace
  BY <1>1 DEF OnePlace, Sending
<1>5. Filled
  <2>1. Count = StartCount + 0 /\ StartCount \in Nat /\ StartCount >= 2
    BY <1>1, BoundAssumption DEF Count, NonceFits
  <2>2. Count..nonce = {}
    BY <1>1, <2>1
  <2> QED
    BY <2>2 DEF Filled
<1> QED
  BY <1>3, <1>4, <1>5 DEF QueueOk

LEMMA NextQueue ==
  ASSUME NonceFits, IInv, QInv, [Next]_vars
  PROVE  QInv'
<1> SUFFICES ASSUME Undisturbed' PROVE QueueOk'
  BY DEF QInv
<1>1. Undisturbed /\ QueueOk /\ TypeOK
  BY DisturbedSteps DEF QInv, IInv
<1>2. /\ ~OtherClient /\ ~Crash
      /\ \A t \in Thread : ~CountUnusable(t)
  BY <1>1, DisturbedSteps
<1>3. ASSUME NEW t \in Thread, Construct(t) \/ StartCall(t) \/ Step(t) PROVE QueueOk'
  BY <1>1, <1>2, <1>3, ConstructorQueue, StoreQueue, DrawQueue, SendQueue, PollQueue, NoRetry
     DEF Step, Local, Answer
<1>4. CASE Mine
  BY <1>1, <1>4, MineQueue DEF Mine
<1>5. CASE UNCHANGED vars
  <2>1. UNCHANGED <<nonce, lock, thread, pool, mined, faults>>
    BY <1>5 DEF vars
  <2>2. Count' = Count /\ Drawn' = Drawn /\ \A n : Taken(n)' <=> Taken(n)
    BY <2>1 DEF Count, Drawn, Taken
  <2>3. \A t : Sending(t)' <=> Sending(t)
    BY <2>1 DEF Sending
  <2> QED
    BY <1>1, <2>1, <2>2, <2>3 DEF QueueOk, Initialised, OnePlace, Filled
<1> QED
  BY <1>2, <1>3, <1>4, <1>5 DEF Next

\* Every undisturbed state: nonces are given to one call each.
THEOREM QueueInvariant ==
  ASSUME NonceFits
  PROVE  Spec => []QInv
<1>1. IInv /\ QInv /\ [Next]_vars => QInv'
  BY NextQueue
<1>2. Init => QInv
  BY InitQueue DEF QInv
<1> QED
  BY <1>1, <1>2, InductiveInvariant, PTL DEF Spec

\* Nothing disturbs, if no disturbance is allowed.
NoDisturbance == MaxUncounted = 0 /\ MaxForeign = 0 /\ MaxCrashes = 0

LEMMA StaysUndisturbed ==
  ASSUME NoDisturbance
  PROVE  Spec => []Undisturbed
<1>1. Init => Undisturbed
  BY DEF Init, Undisturbed, Faultless, Fault
<1>2. ASSUME IInv, Undisturbed, [Next]_vars PROVE Undisturbed'
  <2>1. \A f \in Fault : faults[f] \in Nat
    BY <1>2 DEF IInv, TypeOK
  <2>2. \A f \in Fault : ~Happens(f, 0)
    BY <2>1 DEF Happens
  <2>3. /\ ~OtherClient /\ ~Crash
        /\ \A t \in Thread : ~CountUnusable(t)
    BY <2>2 DEF NoDisturbance, OtherClient, Crash, CountUnusable, Fault
  <2>4. ASSUME UNCHANGED faults PROVE Undisturbed'
    BY <1>2, <2>4 DEF Undisturbed, Faultless
  <2>5. ASSUME NEW t \in Thread, Lost(t) \/ AcceptedTwice(t) PROVE Undisturbed'
    BY <1>2, <2>5 DEF Lost, AcceptedTwice, Happens, Undisturbed, Faultless, IInv, TypeOK, Fault
  <2>6. ASSUME NEW t \in Thread, Construct(t) \/ StartCall(t) \/ Step(t) PROVE Undisturbed'
    <3>1. CASE Construct(t) \/ StartCall(t) \/ CountAnswered(t) \/ StoreNonce(t) \/ Draw(t)
               \/ Accepted(t) \/ Retry(t) \/ Refused(t) \/ Confirmed(t) \/ Unconfirmed(t) \/ GiveUp(t)
      BY <2>4, <3>1 DEF Construct, StartCall, CountAnswered, StoreNonce, Draw, Accepted, Retry,
           Refused, Confirmed, Unconfirmed, GiveUp
    <3> QED
      BY <2>3, <2>5, <2>6, <3>1 DEF Step, Local, Answer
  <2>7. CASE Mine \/ UNCHANGED vars
    BY <2>4, <2>7 DEF Mine, vars
  <2> QED
    BY <1>2, <2>3, <2>6, <2>7 DEF Next
<1>3. IInv /\ Undisturbed /\ [Next]_vars => Undisturbed'
  BY <1>2
<1> QED
  BY <1>1, <1>3, InductiveInvariant, PTL DEF Spec

\* However the threads interleave, and whatever requests and answers are lost, no
\* call is sent with the nonce of another that waits to be mined: the draws are
\* atomic, and the one constructor that sets the nonce ends before the first.
THEOREM NoneReplaced ==
  ASSUME NonceFits, NoDisturbance
  PROVE  Spec => []NoReplacement
<1>1. ASSUME IInv, QInv, Undisturbed PROVE NoReplacement
  BY <1>1, SendsFree DEF QInv, NoReplacement, Sending
<1>2. IInv /\ QInv /\ Undisturbed => NoReplacement
  BY <1>1
<1> QED
  BY <1>2, InductiveInvariant, QueueInvariant, StaysUndisturbed, PTL

\* While nothing fails, each nonce before that of a call in the pool is of a call
\* that is in the pool too, or on its way: the pool empties.
THEOREM GapFree ==
  ASSUME NonceFits
  PROVE  Spec => []NoGap
<1>1. ASSUME IInv, QInv PROVE NoGap
  <2>1. ASSUME Faultless(Fault), NEW e \in pool, NEW n \in Count..(e.nonce - 1)
        PROVE  Taken(n) \/ \E t \in Thread : thread[t].pc = "sending" /\ thread[t].drawn \in {0, n}
    <3>1. QueueOk /\ faults["lost"] = 0
      BY <1>1, <2>1 DEF QInv, Undisturbed, Faultless, Fault
    <3>2. Count \in Nat /\ nonce \in Nat /\ e.nonce \in Count..nonce
      BY <1>1, <3>1, CountType, BoundAssumption DEF IInv, TypeOK, QueueOk, OnePlace
    <3>3. n \in Count..nonce
      BY <3>2
    <3> QED
      BY <3>1, <3>3 DEF QueueOk, Filled, Sending
  <2> QED
    BY <2>1 DEF NoGap
<1>2. IInv /\ QInv => NoGap
  BY <1>1
<1> QED
  BY <1>2, InductiveInvariant, QueueInvariant, PTL

-----------------------------------------------------------------------------
(***************************************************************************)
(* The refinement of CallQueue.                                            *)
(***************************************************************************)
Size == IF nonce < Count THEN 0 ELSE nonce - Count + 1

\* Each place is that of the call in the pool with its nonce, or of the call that
\* drew its nonce and is on its way, or a hole.
PlaceOk(i) ==
  /\ \A e \in pool : e.nonce = Count + i - 1 => Places[i] = e.call
  /\ \A t \in Thread : Sending(t) /\ thread[t].drawn = Count + i - 1 => Places[i] = Current(t)
  /\ (\A e \in pool : e.nonce # Count + i - 1)
       /\ (\A t \in Thread : ~(Sending(t) /\ thread[t].drawn = Count + i - 1))
       => Places[i] = Hole

PlacesOk ==
  /\ Size \in Nat /\ Count \in Nat
  /\ Places \in Seq(Call \cup {Foreign, Hole}) /\ Len(Places) = Size
  /\ \A i \in 1..Size : PlaceOk(i)

LEMMA HolderIs ==
  ASSUME IInv, QueueOk, NEW n
  PROVE  /\ \A e \in pool : e.nonce = n => Holder(n) = e.call
         /\ \A t \in Thread : Sending(t) /\ thread[t].drawn = n => Holder(n) = Current(t)
         /\ ~Taken(n) /\ (\A t \in Thread : ~(Sending(t) /\ thread[t].drawn = n)) => Holder(n) = Hole
         /\ Holder(n) \in Call \cup {Foreign, Hole}
<1>1. ASSUME NEW e \in pool, e.nonce = n PROVE Holder(n) = e.call
  <2>1. \A d \in pool : d.nonce = n => d = e
    BY <1>1 DEF QueueOk, OnePlace
  <2>2. (CHOOSE d \in pool : d.nonce = n) = e
    BY <1>1, <2>1
  <2> QED
    BY <1>1, <2>2 DEF Holder, Taken
<1>2. ASSUME NEW t \in Thread, Sending(t), thread[t].drawn = n PROVE Holder(n) = Current(t)
  <2>1. ~Taken(n)
    BY <1>2 DEF QueueOk, OnePlace
  <2>2. \A u \in Thread : Sending(u) /\ thread[u].drawn = n => u = t
    BY <1>2 DEF QueueOk, OnePlace
  <2>3. (CHOOSE u \in Thread : thread[u].pc = "sending" /\ thread[u].drawn = n) = t
    BY <1>2, <2>2 DEF Sending
  <2> QED
    BY <1>2, <2>1, <2>3 DEF Holder, Sending
<1>3. ~Taken(n) /\ (\A t \in Thread : ~(Sending(t) /\ thread[t].drawn = n)) => Holder(n) = Hole
  BY DEF Holder, Sending
<1>4. Holder(n) \in Call \cup {Foreign, Hole}
  <2>1. \A e \in pool : e.call \in Call \cup {Foreign}
    BY DEF IInv, TypeOK
  <2>2. \A t \in Thread : Sending(t) => Current(t) \in Call
    BY CurrentType DEF IInv, InCall, Sending
  <2> QED
    BY <1>1, <1>2, <1>3, <2>1, <2>2 DEF Taken
<1> QED
  BY <1>1, <1>2, <1>3, <1>4

LEMMA PlacesAre == IInv /\ QueueOk => PlacesOk
<1> SUFFICES ASSUME IInv, QueueOk PROVE PlacesOk
  OBVIOUS
<1>1. Count \in Nat /\ nonce \in Nat
  BY CountType, BoundAssumption DEF IInv, TypeOK
<1>2. Size \in Nat
  BY <1>1 DEF Size
<1>3. Places = [i \in 1..Size |-> Holder(Count + i - 1)]
  BY DEF Places, Size
<1>4. Places \in Seq(Call \cup {Foreign, Hole}) /\ Len(Places) = Size
  <2>1. \A i \in 1..Size : Holder(Count + i - 1) \in Call \cup {Foreign, Hole}
    BY HolderIs
  <2>2. Places \in [1..Size -> Call \cup {Foreign, Hole}]
    BY <1>3, <2>1
  <2> QED
    BY <1>2, <2>2
<1>5. ASSUME NEW i \in 1..Size
      PROVE  PlaceOk(i)
  <2>1. PICK n : n = Count + i - 1
    OBVIOUS
  <2>2. Places[i] = Holder(n)
    BY <1>3, <1>5, <2>1
  <2> QED
    BY <2>1, <2>2, HolderIs DEF Taken, PlaceOk
<1> QED
  BY <1>1, <1>2, <1>4, <1>5 DEF PlacesOk

LEMMA PlacesArePrimed == IInv' /\ QueueOk' => PlacesOk'
BY PlacesAre, PTL

\* A place is that of the same call after a step, if the calls that have or drew its
\* nonce are the same.
LEMMA PlaceKept ==
  ASSUME PlacesOk, PlacesOk', NEW i \in 1..Size, NEW j \in 1..Size', NEW n,
         n = Count + i - 1, n = Count' + j - 1,
         \A e \in pool : e.nonce = n => e \in pool',
         \A e \in pool' : e.nonce = n => e \in pool \/ \E t \in Thread : Sending(t) /\ thread[t].drawn = n,
         \A t \in Thread : Sending(t) /\ thread[t].drawn = n =>
           \/ Sending(t)' /\ thread'[t] = thread[t]
           \/ \E e \in pool' : e.nonce = n /\ e.call = Current(t),
         \A t \in Thread : Sending(t)' /\ thread'[t].drawn = n => Sending(t) /\ thread[t].drawn = n
  PROVE  Places'[j] = Places[i]
<1>1. /\ \A e \in pool : e.nonce = n => Places[i] = e.call
      /\ \A t \in Thread : Sending(t) /\ thread[t].drawn = n => Places[i] = Current(t)
      /\ (\A e \in pool : e.nonce # n)
           /\ (\A t \in Thread : ~(Sending(t) /\ thread[t].drawn = n)) => Places[i] = Hole
  <2>1. PlaceOk(i)
    BY DEF PlacesOk
  <2> QED
    BY <2>1 DEF PlaceOk
<1>2. /\ \A e \in pool' : e.nonce = n => Places'[j] = e.call
      /\ \A t \in Thread : Sending(t)' /\ thread'[t].drawn = n => Places'[j] = <<t, thread'[t].call>>
      /\ (\A e \in pool' : e.nonce # n)
           /\ (\A t \in Thread : ~(Sending(t)' /\ thread'[t].drawn = n)) => Places'[j] = Hole
  <2>1. PlaceOk(j)'
    BY DEF PlacesOk
  <2> QED
    BY <2>1 DEF PlaceOk, Current
<1>3. CASE \E e \in pool : e.nonce = n
  BY <1>1, <1>2, <1>3
<1>4. CASE \E t \in Thread : Sending(t) /\ thread[t].drawn = n
  <2>1. PICK t \in Thread : Sending(t) /\ thread[t].drawn = n
    BY <1>4
  <2>2. Places[i] = Current(t)
    BY <1>1, <2>1
  <2>3. CASE Sending(t)' /\ thread'[t] = thread[t]
    BY <1>2, <2>1, <2>2, <2>3 DEF Current
  <2>4. CASE \E e \in pool' : e.nonce = n /\ e.call = Current(t)
    BY <1>2, <2>2, <2>4
  <2> QED
    BY <2>1, <2>3, <2>4
<1>5. CASE /\ \A e \in pool : e.nonce # n
           /\ \A t \in Thread : ~(Sending(t) /\ thread[t].drawn = n)
  BY <1>1, <1>2, <1>5
<1> QED
  BY <1>3, <1>4, <1>5

LEMMA SamePlaces ==
  ASSUME PlacesOk, PlacesOk', Size' = Size, \A i \in 1..Size : Places'[i] = Places[i]
  PROVE  Places' = Places
<1>1. DOMAIN Places = 1..Size /\ DOMAIN Places' = 1..Size
  BY DEF PlacesOk
<1>2. Places = [i \in DOMAIN Places |-> Places[i]] /\ Places' = [i \in DOMAIN Places' |-> Places'[i]]
  BY DEF PlacesOk
<1> QED
  BY <1>1, <1>2

\* A step of a thread that neither draws nor sends.
LEMMA QuietPlaces ==
  ASSUME PlacesOk, PlacesOk', NEW t \in Thread, \A u \in Thread : u # t => thread'[u] = thread[u],
         ~Sending(t), thread'[t].pc # "sending", Size' = Size, UNCHANGED <<pool, mined>>
  PROVE  UNCHANGED <<Places, mined>>
<1>1. Count' = Count
  BY DEF Count
<1>2. \A u \in Thread : /\ Sending(u)' => Sending(u) /\ thread'[u] = thread[u]
                        /\ Sending(u) => Sending(u)' /\ thread'[u] = thread[u]
  BY DEF Sending
<1>3. ASSUME NEW i \in 1..Size PROVE Places'[i] = Places[i]
  <2>1. PICK n : n = Count + i - 1
    OBVIOUS
  <2> QED
    BY <1>1, <1>2, <2>1, PlaceKept
<1> QED
  BY <1>3, SamePlaces

\* A draw enters the call.
LEMMA DrawEnters ==
  ASSUME NonceFits, IInv, QueueOk, PlacesOk, PlacesOk', NEW t \in Thread, Draw(t),
         MaxResends = 0
  PROVE  Queue!Enter(Current(t))
<1>1. /\ UNCHANGED <<pool, mined>> /\ thread[t].pc = "drawing" /\ thread'[t].pc = "sending"
      /\ \A u \in Thread : u # t => thread'[u] = thread[u]
      /\ thread'[t].call = thread[t].call /\ thread'[t].drawn = nonce'
  BY DEF Draw, IInv, TypeOK, State
<1>2. /\ nonce' = nonce + 1 /\ nonce \in Nat /\ Count \in Nat /\ Count' = Count /\ Count <= nonce + 1
      /\ Size' = Size + 1 /\ Size = nonce - Count + 1
  <2>1. nonce' = nonce + 1 /\ nonce \in Nat /\ nonce # 0
    BY DrawQueue
  <2>2. Count \in Nat /\ Count' = Count /\ Count <= nonce + 1
    BY <1>1, <2>1 DEF PlacesOk, QueueOk, OnePlace, Count
  <2> QED
    BY <2>1, <2>2 DEF Size
<1>3. Current(t) \in Call /\ thread[t].call \in 1..MaxCalls
  BY <1>1, CurrentType DEF IInv, InCall
<1>4. ~Waiting(Current(t)) /\ ~Done(Current(t))
  <2>1. faults["resends"] = 0
    BY DEF QueueOk, Initialised
  <2> QED
    BY <1>1, <1>3, <2>1 DEF IInv, Unsent, Current
<1>5. ASSUME NEW i \in 1..Size PROVE Places[i] # Current(t)
  <2>1. PlaceOk(i)
    BY DEF PlacesOk
  <2>2. Hole # Current(t)
    BY <1>3, CallAssumption
  <2>3. \A e \in pool : e.call # Current(t)
    BY <1>4 DEF Waiting
  <2>4. \A u \in Thread : Sending(u) => Current(u) # Current(t)
    BY <1>1 DEF Sending, Current
  <2> QED
    BY <2>1, <2>2, <2>3, <2>4 DEF PlaceOk
<1>6. ASSUME NEW i \in 1..Size PROVE Places'[i] = Places[i]
  <2>1. PICK n : n = Count + i - 1 /\ n # nonce'
    BY <1>2
  <2>2. i \in 1..Size'
    BY <1>2
  <2>3. \A u \in Thread :
          /\ Sending(u)' /\ thread'[u].drawn = n => Sending(u) /\ thread[u].drawn = n
          /\ Sending(u) => Sending(u)' /\ thread'[u] = thread[u]
    BY <1>1, <2>1 DEF Sending
  <2> QED
    BY <1>1, <1>2, <2>1, <2>2, <2>3, PlaceKept
<1>7. Places'[Size + 1] = Current(t)
  <2>1. PICK j : j = Size + 1
    OBVIOUS
  <2>2. j \in 1..Size'
    BY <1>2, <2>1 DEF PlacesOk
  <2>3. PlaceOk(j)'
    BY <2>2 DEF PlacesOk
  <2>4. Sending(t)' /\ thread'[t].drawn = Count' + j - 1
    BY <1>1, <1>2, <2>1 DEF Sending
  <2>5. Places'[j] = <<t, thread'[t].call>>
    BY <2>3, <2>4 DEF PlaceOk, Current
  <2> QED
    BY <1>1, <2>1, <2>5 DEF Current
<1>8. Places' = Append(Places, Current(t))
  <2>1. /\ Places \in Seq(Call \cup {Foreign, Hole}) /\ Len(Places) = Size /\ Size \in Nat
        /\ Places' \in Seq(Call \cup {Foreign, Hole}) /\ Len(Places') = Size + 1
    BY <1>2 DEF PlacesOk
  <2>2. Append(Places, Current(t)) \in Seq(Call \cup {Foreign, Hole})
    BY <1>3, <2>1
  <2>3. Len(Append(Places, Current(t))) = Size + 1
    BY <2>1
  <2>4. \A i \in 1..(Size + 1) : Append(Places, Current(t))[i] = IF i = Size + 1 THEN Current(t) ELSE Places[i]
    BY <2>1
  <2>5. \A i \in 1..(Size + 1) : Places'[i] = Append(Places, Current(t))[i]
    BY <1>6, <1>7, <2>1, <2>4
  <2> QED
    BY <2>1, <2>2, <2>3, <2>5
<1>9. \A i \in DOMAIN Places : Places[i] # Current(t)
  BY <1>5 DEF PlacesOk
<1>10. \A i \in DOMAIN mined : mined[i] # Current(t)
  BY <1>4 DEF Done
<1> QED
  BY <1>1, <1>8, <1>9, <1>10 DEF Queue!Enter

\* A call that the node accepted keeps its place, also when the answer is lost; one
\* that was lost leaves a hole.
LEMMA SendKeepsOrLoses ==
  ASSUME NonceFits, IInv, QueueOk, PlacesOk, PlacesOk', NEW t \in Thread, Accepted(t) \/ Lost(t)
  PROVE  UNCHANGED <<Places, mined>> \/ \E i \in DOMAIN Places : Queue!Lose(i)
<1>1. /\ UNCHANGED <<nonce, mined>> /\ Sending(t) /\ thread'[t].pc # "sending"
      /\ \A u \in Thread : u # t => thread'[u] = thread[u]
      /\ pool' = pool \/ pool' = pool \cup {[nonce |-> thread[t].drawn, call |-> Current(t)]}
  BY SendQueue
<1>2. PICK p : p = thread[t].drawn
  OBVIOUS
<1>3. p \in Count..nonce /\ ~Taken(p) /\ nonce \in Nat /\ Count \in Nat
  BY <1>1, <1>2, BoundAssumption DEF QueueOk, OnePlace, PlacesOk, IInv, TypeOK
<1>4. Count' = Count /\ Size' = Size /\ Size = nonce - Count + 1
  BY <1>1, <1>3 DEF Count, Size
<1>5. PICK k \in 1..Size : p = Count + k - 1
  <2>1. p - Count + 1 \in 1..Size /\ p = Count + (p - Count + 1) - 1
    BY <1>3, <1>4
  <2> QED
    BY <2>1
<1>6. \A u \in Thread : Sending(u)' => Sending(u) /\ thread'[u] = thread[u]
  BY <1>1 DEF Sending
<1>7. \A u \in Thread : Sending(u) /\ u # t => Sending(u)' /\ thread'[u] = thread[u]
  BY <1>1 DEF Sending
<1>8. \A u \in Thread : Sending(u) /\ thread[u].drawn = p => u = t
  BY <1>1, <1>2 DEF QueueOk, OnePlace
<1>9. ASSUME NEW i \in 1..Size, i # k PROVE Places'[i] = Places[i]
  <2>1. PICK n : n = Count + i - 1 /\ n # p
    BY <1>3, <1>4, <1>5, <1>9
  <2>2. \A u \in Thread : Sending(u) /\ thread[u].drawn = n => u # t
    BY <1>2, <2>1
  <2>3. \A e \in pool' : e.nonce = n => e \in pool
    BY <1>1, <1>2, <2>1
  <2>4. \A e \in pool : e \in pool'
    BY <1>1
  <2> QED
    BY <1>4, <1>6, <1>7, <2>1, <2>2, <2>3, <2>4, PlaceKept
<1>10. Places[k] = Current(t) /\ Current(t) # Hole
  <2>1. PlaceOk(k)
    BY DEF PlacesOk
  <2>2. Current(t) \in Call
    BY <1>1, CurrentType DEF IInv, InCall, Sending
  <2> QED
    BY <1>1, <1>2, <1>5, <2>1, <2>2, CallAssumption DEF PlaceOk
<1>11. PlaceOk(k)'
  BY <1>4 DEF PlacesOk
<1>12. CASE pool' # pool
  <2>1. PICK e \in pool' : e.nonce = p /\ e.call = Current(t)
    BY <1>1, <1>2, <1>12
  <2>2. Places'[k] = Places[k]
    BY <1>4, <1>5, <1>10, <1>11, <2>1 DEF PlaceOk
  <2>3. \A i \in 1..Size : Places'[i] = Places[i]
    BY <1>9, <2>2
  <2> QED
    BY <1>1, <1>4, <2>3, SamePlaces
<1>13. CASE pool' = pool
  <2>1. \A e \in pool' : e.nonce # p
    BY <1>3, <1>13 DEF Taken
  <2>2. \A u \in Thread : ~(Sending(u)' /\ thread'[u].drawn = p)
    BY <1>1, <1>6, <1>8 DEF Sending
  <2>3. Places'[k] = Hole
    BY <1>4, <1>5, <1>11, <2>1, <2>2 DEF PlaceOk
  <2>4. DOMAIN Places = 1..Size /\ DOMAIN Places' = 1..Size
    BY <1>4 DEF PlacesOk
  <2>5. Places' = [Places EXCEPT ![k] = Hole]
    <3>1. Places' = [i \in 1..Size |-> Places'[i]]
      BY <2>4 DEF PlacesOk
    <3> QED
      BY <1>9, <2>3, <2>4, <3>1
  <2>6. Queue!Lose(k)
    BY <1>1, <1>10, <2>5 DEF Queue!Lose
  <2> QED
    BY <2>4, <2>6
<1> QED
  BY <1>12, <1>13

\* The chain mines the call that has the first place.
LEMMA MineTakesFirst ==
  ASSUME NonceFits, IInv, QueueOk, PlacesOk, PlacesOk', NEW e \in pool, e.nonce = Count,
         pool' = pool \ {e}, mined' = Append(mined, e.call),
         UNCHANGED <<nonce, lock, thread, result, faults>>
  PROVE  Queue!Mine
<1>1. /\ Count' = Count + 1 /\ Count <= nonce /\ Count \in Nat /\ nonce \in Nat
      /\ Size = nonce - Count + 1 /\ Size' = Size - 1 /\ Size >= 1
  <2>1. Count' = Count + 1 /\ Count <= nonce
    BY MineQueue
  <2>2. Count \in Nat /\ nonce \in Nat
    BY BoundAssumption DEF PlacesOk, IInv, TypeOK
  <2> QED
    BY <2>1, <2>2 DEF Size
<1>2. Places[1] = e.call /\ e.call # Hole
  <2>1. PlaceOk(1) /\ Count + 1 - 1 = Count
    BY <1>1 DEF PlacesOk
  <2>2. e.call \in Call \cup {Foreign}
    BY DEF IInv, TypeOK
  <2> QED
    BY <2>1, <2>2, CallAssumption DEF PlaceOk
<1>3. ASSUME NEW i \in 1..Size' PROVE Places'[i] = Places[i + 1]
  <2>1. PICK j \in 1..Size : j = i + 1
    BY <1>1
  <2>2. PICK n : n = Count + j - 1 /\ n = Count' + i - 1 /\ n # Count
    BY <1>1, <2>1
  <2>3. \A d \in pool : d.nonce = n <=> d \in pool' /\ d.nonce = n
    BY <2>2
  <2>4. \A u \in Thread : Sending(u)' <=> Sending(u)
    BY DEF Sending
  <2>5. Places'[i] = Places[j]
    BY <1>3, <2>1, <2>2, <2>3, <2>4, PlaceKept
  <2> QED
    BY <2>1, <2>5
<1>4. /\ Places \in Seq(Call \cup {Foreign, Hole}) /\ Len(Places) = Size /\ Size \in Nat
      /\ Places' \in Seq(Call \cup {Foreign, Hole}) /\ Len(Places') = Size - 1
  BY <1>1 DEF PlacesOk
<1>5. Places # << >> /\ Head(Places) = e.call
  BY <1>1, <1>2, <1>4
<1>6. Places' = Tail(Places)
  <2>1. Tail(Places) \in Seq(Call \cup {Foreign, Hole}) /\ Len(Tail(Places)) = Size - 1
    BY <1>4, <1>5
  <2>2. \A i \in 1..(Size - 1) : Tail(Places)[i] = Places[i + 1]
    BY <1>4, <1>5
  <2>3. \A i \in 1..(Size - 1) : Places'[i] = Tail(Places)[i]
    BY <1>1, <1>3, <2>2
  <2> QED
    BY <1>4, <2>1, <2>3
<1> QED
  BY <1>2, <1>5, <1>6 DEF Queue!Mine

LEMMA QueueStep ==
  ASSUME NonceFits, MaxResends = 0, IInv, QueueOk, PlacesOk, PlacesOk', Undisturbed', [Next]_vars
  PROVE  [Queue!Next]_<<Places, mined>>
<1>1. \A t \in Thread : ~CountUnusable(t) /\ ~AcceptedTwice(t)
  <2>1. \A t \in Thread : ~CountUnusable(t)
    BY DisturbedSteps DEF IInv
  <2>2. \A t \in Thread : ~AcceptedTwice(t)
    BY DEF QueueOk, Initialised, AcceptedTwice, Happens
  <2> QED
    BY <2>1, <2>2
<1>2. ~OtherClient /\ ~Crash
  BY DisturbedSteps DEF IInv
<1>3. ASSUME NEW t \in Thread, Construct(t) \/ StartCall(t) \/ Step(t)
      PROVE  [Queue!Next]_<<Places, mined>>
  <2>1. CASE Construct(t) \/ CountAnswered(t) \/ StartCall(t)
    <3>1. /\ UNCHANGED <<nonce, pool, mined>>
          /\ \A u \in Thread : u # t => thread'[u] = thread[u]
          /\ ~Sending(t) /\ thread'[t].pc # "sending"
      BY <2>1 DEF Construct, CountAnswered, StartCall, Goto, IInv, TypeOK, State, Sending
    <3>2. Size' = Size
      BY <3>1 DEF Size, Count
    <3> QED
      BY <3>1, <3>2, QuietPlaces
  <2>2. CASE StoreNonce(t)
    <3>1. /\ UNCHANGED <<pool, mined>> /\ nonce' = thread[t].start
          /\ \A u \in Thread : u # t => thread'[u] = thread[u]
          /\ ~Sending(t) /\ thread'[t].pc = "ready" /\ thread[t].pc = "counted"
      BY <2>2 DEF StoreNonce, Goto, IInv, TypeOK, State, Sending
    <3>2. nonce = 0 /\ nonce' = StartCount - 1 /\ mined = << >>
      BY <3>1 DEF QueueOk, Initialised
    <3>3. Count = StartCount /\ Count' = StartCount /\ StartCount \in Nat /\ StartCount >= 2
      BY <3>1, <3>2, BoundAssumption DEF Count, NonceFits
    <3>4. Size' = Size
      BY <3>2, <3>3 DEF Size
    <3> QED
      BY <3>1, <3>4, QuietPlaces
  <2>3. CASE Draw(t)
    <3>1. Current(t) \in Call
      BY <2>3, CurrentType DEF IInv, InCall, Draw
    <3> QED
      BY <2>3, <3>1, DrawEnters DEF Queue!Next
  <2>4. CASE Accepted(t) \/ Lost(t)
    BY <2>4, SendKeepsOrLoses DEF Queue!Next
  <2>5. CASE Confirmed(t) \/ Unconfirmed(t) \/ GiveUp(t)
    <3>1. UNCHANGED <<nonce, pool, mined>> /\ ~Sending(t)
      BY <2>5 DEF Confirmed, Unconfirmed, GiveUp, Sending
    <3>2. (\A u \in Thread : u # t => thread'[u] = thread[u]) /\ thread'[t].pc # "sending"
      <4>1. CASE Unconfirmed(t)
        BY <4>1 DEF Unconfirmed, IInv, TypeOK, State
      <4>2. CASE Confirmed(t) \/ GiveUp(t)
        <5>1. thread' = [thread EXCEPT ![t] = Fresh("idle", thread[t].call + 1)]
          BY <4>2 DEF Confirmed, GiveUp, Return
        <5> QED
          BY <5>1 DEF Fresh, IInv, TypeOK
      <4> QED
        BY <2>5, <4>1, <4>2
    <3>3. Size' = Size
      BY <3>1 DEF Size, Count
    <3> QED
      BY <3>1, <3>2, <3>3, QuietPlaces
  <2> QED
    BY <1>1, <1>3, <2>1, <2>2, <2>3, <2>4, <2>5, NoRetry DEF Step, Local, Answer
<1>4. CASE Mine
  <2>1. PICK e \in pool : /\ e.nonce = Count /\ pool' = pool \ {e} /\ mined' = Append(mined, e.call)
                          /\ UNCHANGED <<nonce, lock, thread, result, faults>>
    BY <1>4 DEF Mine
  <2> QED
    BY <2>1, MineTakesFirst DEF Queue!Next
<1>5. CASE UNCHANGED vars
  <2>1. Size' = Size /\ Count' = Count /\ UNCHANGED <<pool, mined, thread>>
    BY <1>5 DEF vars, Size, Count
  <2>2. \A t \in Thread : Sending(t)' <=> Sending(t)
    BY <2>1 DEF Sending
  <2>3. ASSUME NEW i \in 1..Size PROVE Places'[i] = Places[i]
    <3>1. PICK n : n = Count + i - 1
      OBVIOUS
    <3> QED
      BY <2>1, <2>2, <3>1, PlaceKept
  <2> QED
    BY <2>1, <2>3, SamePlaces
<1> QED
  BY <1>2, <1>3, <1>4, <1>5 DEF Next

\* Without disturbance and resent requests the calls of all threads go to the chain as through one queue.
\* A call takes its place when it draws its nonce, keeps it while the request is on its
\* way and while it waits in the pool, and leaves a hole when the request was lost.
THEOREM ImplementsQueue ==
  ASSUME NonceFits, NoDisturbance, MaxResends = 0
  PROVE  Spec => ImplementsCallQueue
<1>1. ASSUME Init PROVE Queue!Init
  <2>1. nonce = 0 /\ mined = << >>
    BY <1>1 DEF Init
  <2>2. Count = StartCount /\ StartCount \in Nat /\ StartCount >= 2
    BY <2>1, BoundAssumption DEF Count, NonceFits
  <2>3. nonce < Count
    BY <2>1, <2>2
  <2>4. Places = << >>
    <3>1. Places = [i \in 1..0 |-> Holder(Count + i - 1)]
      BY <2>3 DEF Places
    <3>2. 1..0 = {}
      OBVIOUS
    <3> QED
      BY <3>1, <3>2
  <2> QED
    BY <2>1, <2>4 DEF Queue!Init
<1>2. Init => Queue!Init
  BY <1>1
<1>3. ASSUME IInv, IInv', QInv, QInv', Undisturbed, Undisturbed', [Next]_vars
      PROVE  [Queue!Next]_<<Places, mined>>
  BY <1>3, QueueStep, PlacesAre, PlacesArePrimed DEF QInv
<1>4. IInv /\ IInv' /\ QInv /\ QInv' /\ Undisturbed /\ Undisturbed' /\ [Next]_vars
        => [Queue!Next]_<<Places, mined>>
  BY <1>3
<1> QED
  BY <1>2, <1>4, InductiveInvariant, QueueInvariant, StaysUndisturbed, PTL
     DEF Spec, ImplementsCallQueue, Queue!Spec
=============================================================================

-------------------------- MODULE ActorPoolProofs --------------------------
(* Theorems about ActorPool, for every number of actors, threads and tasks. *)
EXTENDS ActorPool, TLAPS

(* The facts about finite sequences the proofs rest on.                     *)
LEMMA TailElements ==
  ASSUME NEW S, NEW q \in Seq(S), q # <<>>
  PROVE  /\ Head(q) \in S /\ Head(q) = q[1] /\ Tail(q) \in Seq(S)
         /\ Len(Tail(q)) = Len(q) - 1 /\ Len(q) \in Nat \ {0}
         /\ \A i \in 1 .. Len(q) - 1 : Tail(q)[i] = q[i + 1]
OBVIOUS

LEMMA AppendElements ==
  ASSUME NEW S, NEW q \in Seq(S), NEW e \in S
  PROVE  /\ Append(q, e) \in Seq(S) /\ Len(Append(q, e)) = Len(q) + 1
         /\ \A i \in 1 .. Len(q) : Append(q, e)[i] = q[i]
         /\ Append(q, e)[Len(q) + 1] = e
OBVIOUS

-----------------------------------------------------------------------------
(* The inductive invariant: an actor has at most one token, which is a task *)
(* in the executor's queue or in a thread's hand; and one that has it is in *)
(* playingNow, so that submit() leaves its tasks in pending.                *)

QueuedOnce ==
  \A i, j \in 1 .. Len(ready) : ready[i].act = ready[j].act => i = j

HeldOnce ==
  \A t, s \in Threads :
    hand[t] # None /\ hand[s] # None /\ hand[t].act = hand[s].act => t = s

QueuedOrHeld ==
  \A t \in Threads, i \in 1 .. Len(ready) : hand[t] # None => ready[i].act # hand[t].act

TokensPlay ==
  /\ \A i \in 1 .. Len(ready) : ready[i].act \in playingNow
  /\ \A t \in Threads : hand[t] # None => hand[t].act \in playingNow

Tokens == QueuedOnce /\ HeldOnce /\ QueuedOrHeld /\ TokensPlay

PoolInv == TypeOK /\ Tokens

LEMMA InitPool == Init => PoolInv
<1> SUFFICES ASSUME Init PROVE PoolInv
  OBVIOUS
<1>1. ready = <<>> /\ ready \in Seq(Task) /\ 1 .. Len(ready) = {}
  BY DEF Init
<1>2. pending \in [Actors -> Seq(1 .. MaxTasks)]
  BY DEF Init
<1>3. submitted \in [Actors -> 0 .. MaxTasks] /\ ran \in [Actors -> Nat]
  BY MaxTasksAssumption DEF Init
<1>4. TypeOK
  BY <1>1, <1>2, <1>3 DEF Init, TypeOK, Phases
<1>5. \A t \in Threads : hand[t] = None
  BY DEF Init
<1>6. Tokens
  BY <1>1, <1>5 DEF Tokens, QueuedOnce, HeldOnce, QueuedOrHeld, TokensPlay
<1>7. QED
  BY <1>4, <1>6 DEF PoolInv

(* A thread that is not idle has a task.                                    *)
LEMMA HandTask ==
  ASSUME TypeOK, NEW t \in Threads, phase[t] # "idle"
  PROVE  hand[t] \in Task /\ hand[t] # None /\ hand[t].act \in Actors
<1>1. hand[t] \in Task /\ hand[t] # None
  BY DEF TypeOK
<1>2. \A task \in Task : task.act \in Actors
  BY DEF Task
<1>3. QED
  BY <1>1, <1>2

LEMMA SubmitPool ==
  ASSUME PoolInv, NEW a \in Actors, Submit(a)
  PROVE  PoolInv'
<1> DEFINE n == submitted[a] + 1
           e == [act |-> a, n |-> n]
<1>1. n \in 1 .. MaxTasks /\ e \in Task
  BY MaxTasksAssumption DEF Submit, PoolInv, TypeOK, Task
<1>2. /\ submitted' \in [Actors -> 0 .. MaxTasks]
      /\ UNCHANGED <<phase, hand, ran, down>>
  BY <1>1, MaxTasksAssumption DEF Submit, PoolInv, TypeOK
<1>3. CASE a \notin playingNow /\ playingNow' = playingNow \cup {a} /\ ready' = Append(ready, e)
           /\ UNCHANGED pending
  <2>1. /\ ready' \in Seq(Task) /\ Len(ready') = Len(ready) + 1 /\ Len(ready) \in Nat
        /\ \A i \in 1 .. Len(ready) : ready'[i] = ready[i]
        /\ ready'[Len(ready) + 1] = e
    BY <1>1, <1>3, AppendElements DEF PoolInv, TypeOK
  <2>2. \A i \in 1 .. Len(ready) : ready[i].act # a
    BY <1>3 DEF PoolInv, Tokens, TokensPlay
  <2>3. \A t \in Threads : hand[t] # None => hand[t].act # a
    BY <1>3 DEF PoolInv, Tokens, TokensPlay
  <2>4. \A i \in 1 .. Len(ready') :
          i \in 1 .. Len(ready) \/ (i = Len(ready) + 1 /\ ready'[i].act = a)
    BY <2>1
  <2>5. QueuedOnce'
    BY <2>1, <2>2, <2>4 DEF PoolInv, Tokens, QueuedOnce
  <2>6. QueuedOrHeld'
    BY <1>2, <2>1, <2>3, <2>4 DEF PoolInv, Tokens, QueuedOrHeld
  <2>7. TokensPlay'
    BY <1>2, <1>3, <2>1, <2>4 DEF PoolInv, Tokens, TokensPlay
  <2>8. HeldOnce' /\ TypeOK'
    BY <1>2, <1>3, <2>1 DEF PoolInv, Tokens, HeldOnce, TypeOK
  <2>9. QED
    BY <2>5, <2>6, <2>7, <2>8 DEF PoolInv, Tokens
<1>4. CASE a \in playingNow /\ pending' = [pending EXCEPT ![a] = Append(@, n)]
           /\ UNCHANGED <<playingNow, ready>>
  <2>1. pending' \in [Actors -> Seq(1 .. MaxTasks)]
    BY <1>1, <1>4, AppendElements DEF PoolInv, TypeOK
  <2>2. QED
    BY <1>2, <1>4, <2>1
    DEF PoolInv, TypeOK, Tokens, QueuedOnce, HeldOnce, QueuedOrHeld, TokensPlay
<1>5. QED
  BY <1>3, <1>4 DEF Submit

LEMMA TakePool ==
  ASSUME PoolInv, NEW t \in Threads, Take(t)
  PROVE  PoolInv'
<1>1. /\ Head(ready) \in Task /\ Head(ready) = ready[1] /\ ready' \in Seq(Task)
      /\ Len(ready') = Len(ready) - 1 /\ Len(ready) \in Nat \ {0}
      /\ \A i \in 1 .. Len(ready) - 1 : ready'[i] = ready[i + 1]
  BY TailElements DEF PoolInv, TypeOK, Take
<1>2. /\ phase' = [phase EXCEPT ![t] = "run"] /\ hand' = [hand EXCEPT ![t] = ready[1]]
      /\ hand[t] = None
      /\ UNCHANGED <<submitted, pending, playingNow, ran, down>>
  BY <1>1 DEF Take, PoolInv, TypeOK
<1>3. TypeOK'
  BY <1>1, <1>2, NoneAssumption DEF PoolInv, TypeOK, Phases
<1>4. \A s \in Threads : hand'[s] = IF s = t THEN ready[1] ELSE hand[s]
  BY <1>2 DEF PoolInv, TypeOK
<1>5. \A i \in 1 .. Len(ready') :
        ready'[i] = ready[i + 1] /\ i + 1 \in 1 .. Len(ready) /\ i + 1 # 1
  BY <1>1
<1>6. 1 \in 1 .. Len(ready)
  BY <1>1
<1>7. QueuedOnce'
  BY <1>5 DEF PoolInv, Tokens, QueuedOnce
<1>8. HeldOnce'
  BY <1>4, <1>6 DEF PoolInv, Tokens, HeldOnce, QueuedOrHeld
<1>9. QueuedOrHeld'
  BY <1>4, <1>5, <1>6 DEF PoolInv, Tokens, QueuedOnce, QueuedOrHeld
<1>10. TokensPlay'
  BY <1>2, <1>4, <1>5, <1>6 DEF PoolInv, Tokens, TokensPlay
<1>11. QED
  BY <1>3, <1>7, <1>8, <1>9, <1>10 DEF PoolInv, Tokens

LEMMA RunPool ==
  ASSUME PoolInv, NEW t \in Threads, Run(t)
  PROVE  PoolInv'
<1>1. hand[t] \in Task /\ hand[t] # None /\ hand[t].act \in Actors
  BY HandTask DEF PoolInv, Run
<1>2. TypeOK'
  BY <1>1 DEF Run, PoolInv, TypeOK, Phases
<1>3. Tokens'
  BY DEF Run, PoolInv, Tokens, QueuedOnce, HeldOnce, QueuedOrHeld, TokensPlay
<1>4. QED
  BY <1>2, <1>3 DEF PoolInv

LEMMA CompletePool ==
  ASSUME PoolInv, NEW t \in Threads, Complete(t)
  PROVE  PoolInv'
<1>1. PICK a \in Actors : hand[t].act = a /\ hand[t] # None
  BY HandTask DEF PoolInv, Complete
<1>2. /\ phase' = [phase EXCEPT ![t] = "idle"] /\ hand' = [hand EXCEPT ![t] = None]
      /\ UNCHANGED <<submitted, ran, down>>
  BY DEF Complete, Release
<1>3. /\ phase' \in [Threads -> Phases] /\ hand' \in [Threads -> Task \cup {None}]
      /\ \A s \in Threads : phase'[s] = "idle" <=> hand'[s] = None
  BY <1>2 DEF PoolInv, TypeOK, Phases
<1>4. \A s \in Threads : hand'[s] # None => s # t /\ hand'[s] = hand[s] /\ hand[s].act # a
  BY <1>1, <1>2 DEF PoolInv, TypeOK, Tokens, HeldOnce
<1>5. \A i \in 1 .. Len(ready) : ready[i].act # a
  BY <1>1 DEF PoolInv, Tokens, QueuedOrHeld
<1>6. HeldOnce'
  BY <1>4 DEF PoolInv, Tokens, HeldOnce
<1>7. CASE pending[a] = <<>> /\ playingNow' = playingNow \ {a} /\ UNCHANGED <<pending, ready>>
  <2>1. TypeOK'
    BY <1>2, <1>3, <1>7 DEF PoolInv, TypeOK
  <2>2. QueuedOnce' /\ QueuedOrHeld'
    BY <1>4, <1>7 DEF PoolInv, Tokens, QueuedOnce, QueuedOrHeld
  <2>3. TokensPlay'
    BY <1>4, <1>5, <1>7 DEF PoolInv, Tokens, TokensPlay
  <2>4. QED
    BY <1>6, <2>1, <2>2, <2>3 DEF PoolInv, Tokens
<1>8. CASE /\ pending[a] # <<>> /\ pending' = [pending EXCEPT ![a] = Tail(@)]
           /\ ready' = IF down THEN ready ELSE Append(ready, [act |-> a, n |-> Head(pending[a])])
           /\ UNCHANGED playingNow
  <2>1. Head(pending[a]) \in 1 .. MaxTasks /\ Tail(pending[a]) \in Seq(1 .. MaxTasks)
    BY <1>8, TailElements DEF PoolInv, TypeOK
  <2>2. pending' \in [Actors -> Seq(1 .. MaxTasks)]
    BY <1>8, <2>1 DEF PoolInv, TypeOK
  <2>3. PICK e \in Task : e = [act |-> a, n |-> Head(pending[a])]
    BY <2>1 DEF Task
  <2>4. /\ ready' \in Seq(Task)
        /\ \A i \in 1 .. Len(ready') :
             \/ i \in 1 .. Len(ready) /\ ready'[i] = ready[i]
             \/ i = Len(ready) + 1 /\ ready'[i].act = a
    BY <1>8, <2>3, AppendElements DEF PoolInv, TypeOK
  <2>5. QueuedOnce'
    BY <1>5, <2>4 DEF PoolInv, Tokens, QueuedOnce
  <2>6. QueuedOrHeld'
    BY <1>4, <1>5, <2>4 DEF PoolInv, Tokens, QueuedOrHeld
  <2>7. a \in playingNow
    BY <1>1 DEF PoolInv, Tokens, TokensPlay
  <2>8. TokensPlay'
    BY <1>4, <1>8, <2>4, <2>7 DEF PoolInv, Tokens, TokensPlay
  <2>9. TypeOK'
    BY <1>2, <1>3, <1>8, <2>2, <2>4 DEF PoolInv, TypeOK
  <2>10. QED
    BY <1>6, <2>5, <2>6, <2>8, <2>9 DEF PoolInv, Tokens
<1>9. QED
  BY <1>1, <1>7, <1>8 DEF Complete

LEMMA NextPool == PoolInv /\ [Next]_vars => PoolInv'
<1> SUFFICES ASSUME PoolInv, [Next]_vars PROVE PoolInv'
  OBVIOUS
<1>1. CASE Shutdown
  BY <1>1
  DEF Shutdown, PoolInv, TypeOK, Tokens, QueuedOnce, HeldOnce, QueuedOrHeld, TokensPlay
<1>2. CASE UNCHANGED vars
  BY <1>2
  DEF vars, PoolInv, TypeOK, Tokens, QueuedOnce, HeldOnce, QueuedOrHeld, TokensPlay
<1>3. QED
  BY <1>1, <1>2, SubmitPool, TakePool, RunPool, CompletePool DEF Next

LEMMA PoolInvariant == Spec => []PoolInv
BY InitPool, NextPool, PTL DEF Spec

-----------------------------------------------------------------------------
(* Every variable keeps its type.                                           *)
THEOREM PoolTypeCorrect == Spec => []TypeOK
<1>1. PoolInv => TypeOK
  BY DEF PoolInv
<1>2. QED
  BY <1>1, PoolInvariant, PTL

(* However many threads the pool has, no two of them run tasks of one       *)
(* connection: submit() and complete() hand each actor a single token.      *)
THEOREM PoolMutualExclusion == Spec => []OneAtATime
<1>1. PoolInv => OneAtATime
  BY HandTask DEF PoolInv, Tokens, HeldOnce, OneAtATime
<1>2. QED
  BY <1>1, PoolInvariant, PTL

-----------------------------------------------------------------------------
(* The pool implements ActorQueues.  An actor that is not in playingNow has *)
(* nothing in pending: a task handed to the executor overtakes none.        *)

NothingOvertaken == \A a \in Actors \ playingNow : pending[a] = <<>>

QueueInv == PoolInv /\ NothingOvertaken

LEMMA InitQueueInv == Init => QueueInv
BY InitPool DEF QueueInv, NothingOvertaken, Init

LEMMA NextQueueInv == QueueInv /\ [Next]_vars => QueueInv'
<1> SUFFICES ASSUME QueueInv, [Next]_vars PROVE NothingOvertaken'
  BY NextPool DEF QueueInv
<1> USE DEF QueueInv, PoolInv, TypeOK, NothingOvertaken
<1>1. ASSUME NEW a \in Actors, Submit(a)
      PROVE  NothingOvertaken'
  BY <1>1 DEF Submit
<1>2. ASSUME NEW t \in Threads, Complete(t)
      PROVE  NothingOvertaken'
  BY <1>2 DEF Complete
<1>3. ASSUME NEW t \in Threads, Take(t) \/ Run(t)
      PROVE  NothingOvertaken'
  BY <1>3 DEF Take, Run
<1>4. CASE Shutdown \/ UNCHANGED vars
  BY <1>4 DEF Shutdown, vars
<1>5. QED
  BY <1>1, <1>2, <1>3, <1>4 DEF Next

LEMMA QueueInvariant == Spec => []QueueInv
BY InitQueueInv, NextQueueInv, PTL DEF Spec

(* A task in front of others.                                               *)
LEMMA InFront ==
  ASSUME NEW S, NEW q \in Seq(S), NEW e \in S, NEW x \in S
  PROVE  /\ <<e>> \o q # <<>> /\ Head(<<e>> \o q) = e /\ Tail(<<e>> \o q) = q
         /\ Append(<<e>> \o q, x) = <<e>> \o Append(q, x)
         /\ q # <<>> => <<Head(q)>> \o Tail(q) = q
OBVIOUS

(* Where an actor's task is says all there is to say of it.                 *)
LEMMA WaitingInFront ==
  ASSUME QueuedOnce, NEW a, NEW i \in InExecutor(a)
  PROVE  Waiting(a) = <<ready[i].n>> \o pending[a]
BY DEF Waiting, InExecutor, QueuedOnce

LEMMA WaitingBehind ==
  ASSUME NEW a, \A i \in 1 .. Len(ready) : ready[i].act # a
  PROVE  Waiting(a) = pending[a]
BY DEF Waiting, InExecutor

LEMMA ActiveIs ==
  ASSUME PoolInv, NEW t \in Threads, phase[t] = "run", NEW a, hand[t].act = a
  PROVE  Active(a) = hand[t].n
<1>1. t \in Running(a)
  BY DEF Running
<1>2. \A s \in Running(a) : s = t
  BY HandTask DEF Running, PoolInv, Tokens, HeldOnce
<1>3. QED
  BY <1>1, <1>2 DEF Active

LEMMA ActiveIsNone ==
  ASSUME NEW a, \A t \in Threads : phase[t] = "run" => hand[t].act # a
  PROVE  Active(a) = None
BY DEF Active, Running

(* A waiting task of an actor is the same as long as neither its place in   *)
(* the executor nor pending changes.                                        *)
LEMMA SameWaiting ==
  ASSUME PoolInv, PoolInv', NEW a \in Actors, pending'[a] = pending[a],
         NEW T, T = {ready[i] : i \in InExecutor(a)}, T = {ready[i] : i \in InExecutor(a)}'
  PROVE  Waiting(a)' = Waiting(a)
<1>1. CASE InExecutor(a) = {}
  BY <1>1 DEF Waiting
<1>2. CASE InExecutor(a) # {}
  <2>1. PICK i \in InExecutor(a) : TRUE
    BY <1>2
  <2>2. PICK j \in InExecutor(a)' : ready'[j] = ready[i]
    BY <2>1
  <2>3. Waiting(a) = <<ready[i].n>> \o pending[a]
    BY <2>1, WaitingInFront DEF PoolInv, Tokens
  <2>4. Waiting(a)' = <<ready'[j].n>> \o pending'[a]
    BY <2>2, WaitingInFront DEF PoolInv, Tokens, Waiting, InExecutor, QueuedOnce
  <2>5. QED
    BY <2>2, <2>3, <2>4
<1>3. QED
  BY <1>1, <1>2

LEMMA UntouchedWaiting ==
  ASSUME NEW a, pending'[a] = pending[a], ready' = ready
  PROVE  Waiting(a)' = Waiting(a)
BY DEF Waiting, InExecutor

LEMMA SameActive ==
  ASSUME NEW a, UNCHANGED <<phase, hand>>
  PROVE  Active(a)' = Active(a)
BY DEF Active, Running

LEMMA QueuesInit == Init => Queues!Init
<1> SUFFICES ASSUME Init PROVE Queues!Init
  OBVIOUS
<1>1. \A a \in Actors : Waiting(a) = <<>> /\ Active(a) = None
  <2> TAKE a \in Actors
  <2>1. InExecutor(a) = {}
    <3>1. Len(ready) = 0
      BY DEF Init
    <3>2. QED
      BY <3>1 DEF InExecutor
  <2>2. Running(a) = {} /\ pending[a] = <<>>
    BY DEF Init, Running
  <2>3. QED
    BY <2>1, <2>2 DEF Waiting, Active
<1>2. QED
  BY <1>1 DEF Init, Queues!Init

LEMMA SubmitQueues ==
  ASSUME QueueInv, QueueInv', NEW a \in Actors, Submit(a)
  PROVE  Queues!Submit(a)
<1> USE DEF QueueInv, PoolInv
<1> DEFINE n == submitted[a] + 1
           e == [act |-> a, n |-> n]
<1>1. /\ n \in Nat /\ e \in Task /\ e.act = a /\ e.n = n /\ ready \in Seq(Task)
      /\ ready' \in Seq(Task)
      /\ pending \in [Actors -> Seq(Nat)]
  BY MaxTasksAssumption DEF Submit, TypeOK, Task
<1>2. \A b \in Actors : Active(b)' = Active(b)
  BY SameActive DEF Submit
<1>3. CASE a \notin playingNow
  <2>1. /\ ready' = Append(ready, e) /\ UNCHANGED pending
        /\ Len(ready') = Len(ready) + 1 /\ Len(ready) \in Nat
        /\ \A i \in 1 .. Len(ready) : ready'[i] = ready[i]
        /\ ready'[Len(ready) + 1] = e
    <3>1. ready' = Append(ready, e) /\ UNCHANGED pending
      BY <1>3 DEF Submit
    <3>2. QED
      BY <1>1, <3>1, AppendElements
  <2>2. Waiting(a) = <<>>
    BY <1>3, WaitingBehind DEF NothingOvertaken, Tokens, TokensPlay
  <2>3. Waiting(a)' = <<n>>
    <3>1. Len(ready) + 1 \in InExecutor(a)'
      BY <1>1, <2>1 DEF InExecutor
    <3>2. \A i \in InExecutor(a)' : i = Len(ready) + 1
      BY <2>1, <3>1 DEF InExecutor, Tokens, QueuedOnce
    <3>3. Waiting(a)' = <<n>> \o pending[a]
      BY <1>1, <2>1, <3>1, <3>2 DEF Waiting
    <3>4. pending[a] = <<>>
      BY <1>3 DEF NothingOvertaken
    <3>5. QED
      BY <1>1, <3>3, <3>4
  <2>4. \A b \in Actors \ {a} : Waiting(b)' = Waiting(b)
    <3> TAKE b \in Actors \ {a}
    <3>1. InExecutor(b)' = InExecutor(b)
      BY <1>1, <2>1 DEF InExecutor
    <3>2. {ready[i] : i \in InExecutor(b)}' = {ready[i] : i \in InExecutor(b)}
      BY <2>1, <3>1 DEF InExecutor
    <3>3. QED
      BY <2>1, <3>2, SameWaiting
  <2>5. Append(Waiting(a), n) = <<n>>
    BY <1>1, <2>2
  <2>6. QED
    BY <1>1, <1>2, <2>3, <2>4, <2>5 DEF Submit, Queues!Submit
<1>4. CASE a \in playingNow
  <2>1. pending' = [pending EXCEPT ![a] = Append(@, n)] /\ UNCHANGED ready
    BY <1>4 DEF Submit
  <2>2. \A b \in Actors : InExecutor(b)' = InExecutor(b)
    BY <2>1 DEF InExecutor
  <2>3. \A b \in Actors \ {a} : Waiting(b)' = Waiting(b)
    BY <1>1, <2>1, UntouchedWaiting
  <2>4. Waiting(a)' = Append(Waiting(a), n)
    <3>1. pending'[a] = Append(pending[a], n)
      BY <1>1, <2>1
    <3>2. CASE InExecutor(a) = {}
      BY <2>2, <3>1, <3>2 DEF Waiting
    <3>3. CASE InExecutor(a) # {}
      <4>1. PICK i \in InExecutor(a) : i = CHOOSE j \in InExecutor(a) : TRUE
        BY <3>3
      <4>2. ready[i].n \in Nat
        <5>1. ready[i] \in Task
          BY <1>1, <4>1 DEF InExecutor
        <5>2. QED
          BY <5>1, MaxTasksAssumption DEF Task
      <4>3. Waiting(a) = <<ready[i].n>> \o pending[a]
        BY <3>3, <4>1 DEF Waiting
      <4>4. Waiting(a)' = <<ready[i].n>> \o Append(pending[a], n)
        BY <2>1, <2>2, <3>1, <3>3, <4>1 DEF Waiting
      <4>5. QED
        BY <1>1, <4>2, <4>3, <4>4, InFront
    <3>4. QED
      BY <3>2, <3>3
  <2>5. QED
    BY <1>1, <1>2, <2>3, <2>4 DEF Submit, Queues!Submit
<1>5. QED
  BY <1>3, <1>4

LEMMA TakeQueues ==
  ASSUME QueueInv, QueueInv', NEW t \in Threads, Take(t)
  PROVE  \E a \in Actors : Queues!Start(a)
<1> USE DEF QueueInv, PoolInv
<1>0. PICK e \in Task, a \in Actors : e = ready[1] /\ a = e.act /\ e.n \in Nat
  BY TailElements, MaxTasksAssumption DEF TypeOK, Take, Task
<1>1. /\ ready' \in Seq(Task)
      /\ Len(ready') = Len(ready) - 1 /\ Len(ready) \in Nat \ {0}
      /\ \A i \in 1 .. Len(ready) - 1 : ready'[i] = ready[i + 1]
      /\ hand' = [hand EXCEPT ![t] = e]
  BY <1>0, TailElements DEF TypeOK, Take
<1>2. pending[a] \in Seq(Nat) /\ 1 \in InExecutor(a)
  <2>1. pending[a] \in Seq(1 .. MaxTasks)
    BY <1>0 DEF TypeOK
  <2>2. QED
    BY <1>0, <1>1, <2>1, MaxTasksAssumption DEF InExecutor
<1>3. /\ phase' = [phase EXCEPT ![t] = "run"] /\ phase[t] = "idle" /\ hand[t] = None
      /\ UNCHANGED <<submitted, pending, down>>
  BY DEF Take, TypeOK
<1>4. /\ Waiting(a) = <<e.n>> \o pending[a]
  BY <1>0, <1>2, WaitingInFront DEF Tokens
<1>5. Waiting(a)' = pending[a]
  <2>1. \A i \in 1 .. Len(ready') : ready'[i].act # a
    <3> TAKE i \in 1 .. Len(ready')
    <3>1. i + 1 \in 1 .. Len(ready) /\ i + 1 # 1 /\ ready'[i] = ready[i + 1]
      BY <1>1
    <3>2. QED
      BY <1>0, <1>2, <3>1 DEF Tokens, QueuedOnce, InExecutor
  <2>2. InExecutor(a)' = {}
    BY <2>1 DEF InExecutor
  <2>3. QED
    BY <1>3, <2>2 DEF Waiting
<1>6. \A b \in Actors \ {a} : Waiting(b)' = Waiting(b)
  <2> TAKE b \in Actors \ {a}
  <2>1. \A i \in InExecutor(b)' : i + 1 \in InExecutor(b) /\ ready'[i] = ready[i + 1]
    BY <1>1 DEF InExecutor
  <2>2. \A i \in InExecutor(b) : i - 1 \in InExecutor(b)' /\ ready'[i - 1] = ready[i]
    <3> TAKE i \in InExecutor(b)
    <3>1. i # 1 /\ i \in 1 .. Len(ready)
      BY <1>0 DEF InExecutor
    <3>2. i - 1 \in 1 .. Len(ready) - 1 /\ (i - 1) + 1 = i
      BY <1>1, <3>1
    <3>3. ready'[i - 1] = ready[i]
      BY <1>1, <3>2
    <3>4. QED
      BY <1>1, <3>2, <3>3 DEF InExecutor
  <2>3. {ready[i] : i \in InExecutor(b)}' = {ready[i] : i \in InExecutor(b)}
    BY <2>1, <2>2
  <2>4. QED
    BY <1>3, <2>3, SameWaiting
<1>7. Active(a) = None
  <2>1. \A s \in Threads : phase[s] = "run" => hand[s].act # a
    BY <1>2, <1>0 DEF Tokens, QueuedOrHeld, TypeOK, InExecutor
  <2>2. QED
    BY <2>1, ActiveIsNone
<1>8. Active(a)' = e.n
  <2>1. phase'[t] = "run" /\ hand'[t] = e
    BY <1>1, <1>3 DEF TypeOK
  <2>2. t \in Running(a)' /\ \A s \in Running(a)' : s = t
    <3>1. t \in Running(a)'
      BY <1>0, <2>1 DEF Running
    <3>2. \A s \in Threads : phase'[s] = "run" => hand'[s] # None
      BY DEF TypeOK
    <3>3. \A s \in Running(a)' : hand'[s] # None /\ hand'[s].act = a
      BY <3>2 DEF Running
    <3>4. hand'[t] # None /\ hand'[t].act = a
      BY <3>1, <3>3
    <3>5. HeldOnce'
      BY DEF Tokens
    <3>6. \A s \in Running(a)' : s \in Threads
      BY DEF Running
    <3>7. QED
      BY <3>1, <3>3, <3>4, <3>5, <3>6 DEF HeldOnce
  <2>3. QED
    BY <2>1, <2>2 DEF Active
<1>9. \A b \in Actors \ {a} : Active(b)' = Active(b)
  <2> TAKE b \in Actors \ {a}
  <2>1. Running(b)' = Running(b)
    BY <1>0, <1>1, <1>3 DEF Running, TypeOK
  <2>2. t \notin Running(b)
    BY <1>3 DEF Running
  <2>3. \A s \in Running(b) : hand'[s] = hand[s]
    BY <1>1, <2>2 DEF Running, TypeOK
  <2>4. QED
    BY <2>1, <2>3 DEF Active
<1>10. Queues!Start(a)
  <2>1. Waiting(a) # <<>> /\ Head(Waiting(a)) = e.n /\ Tail(Waiting(a)) = pending[a]
    BY <1>0, <1>2, <1>4, InFront
  <2>2. [b \in Actors |-> Active(b)]' = [[b \in Actors |-> Active(b)] EXCEPT ![a] = e.n]
    BY <1>8, <1>9
  <2>3. [b \in Actors |-> Waiting(b)]'
          = [[b \in Actors |-> Waiting(b)] EXCEPT ![a] = pending[a]]
    BY <1>5, <1>6
  <2>4. QED
    BY <1>3, <1>7, <2>1, <2>2, <2>3 DEF Queues!Start
<1>11. QED
  BY <1>10

LEMMA RunQueues ==
  ASSUME QueueInv, QueueInv', NEW t \in Threads, Run(t)
  PROVE  \E a \in Actors : Queues!End(a)
<1> USE DEF QueueInv, PoolInv
<1>1. PICK a \in Actors : a = hand[t].act
  BY HandTask DEF Run
<1>2. phase[t] = "run" /\ phase' = [phase EXCEPT ![t] = "complete"]
      /\ UNCHANGED <<submitted, pending, ready, hand, down>>
  BY DEF Run
<1>3. Active(a) # None
  <2>1. hand[t].n \in Nat
    BY <1>2, HandTask DEF Task
  <2>2. QED
    BY <1>1, <1>2, <2>1, ActiveIs, NoneAssumption
<1>4. Active(a)' = None
  <2>1. \A s \in Threads : phase'[s] = "run" => hand'[s].act # a
    BY <1>1, <1>2, HandTask DEF TypeOK, Tokens, HeldOnce
  <2>2. QED
    BY <2>1 DEF Active, Running
<1>5. \A b \in Actors \ {a} : Active(b)' = Active(b)
  <2> TAKE b \in Actors \ {a}
  <2>1. Running(b)' = Running(b)
    BY <1>1, <1>2 DEF Running, TypeOK
  <2>2. QED
    BY <1>2, <2>1 DEF Active
<1>6. \A b \in Actors : Waiting(b)' = Waiting(b)
  BY <1>2 DEF Waiting, InExecutor
<1>7. Queues!End(a)
  <2>1. [b \in Actors |-> Active(b)]' = [[b \in Actors |-> Active(b)] EXCEPT ![a] = None]
    BY <1>4, <1>5
  <2>2. [b \in Actors |-> Waiting(b)]' = [b \in Actors |-> Waiting(b)]
    BY <1>6
  <2>3. QED
    BY <1>2, <1>3, <2>1, <2>2 DEF Queues!End
<1>8. QED
  BY <1>1, <1>7

LEMMA CompleteQueues ==
  ASSUME QueueInv, QueueInv', NEW t \in Threads, Complete(t)
  PROVE  Queues!Drop \/ UNCHANGED Queues!vars
<1> USE DEF QueueInv, PoolInv
<1>1. PICK a \in Actors : a = hand[t].act /\ hand[t] # None
  BY HandTask DEF Complete
<1>2. /\ phase' = [phase EXCEPT ![t] = "idle"] /\ hand' = [hand EXCEPT ![t] = None]
      /\ phase[t] = "complete" /\ UNCHANGED <<submitted, down>>
  BY DEF Complete, Release
<1>3. \A b \in Actors : Active(b)' = Active(b)
  <2> TAKE b \in Actors
  <2>1. Running(b)' = Running(b) /\ t \notin Running(b)
    BY <1>2 DEF Running, TypeOK
  <2>2. \A s \in Running(b) : hand'[s] = hand[s]
    BY <1>2, <2>1 DEF Running, TypeOK
  <2>3. QED
    BY <2>1, <2>2 DEF Active
<1>4. Waiting(a) = pending[a]
  BY <1>1, WaitingBehind DEF Tokens, QueuedOrHeld
<1>5. CASE pending[a] = <<>> /\ UNCHANGED <<pending, ready>>
  <2>1. \A b \in Actors : Waiting(b)' = Waiting(b)
    BY <1>5 DEF Waiting, InExecutor
  <2>2. QED
    BY <1>2, <1>3, <2>1 DEF Queues!vars
<1>6. CASE /\ pending[a] # <<>> /\ pending' = [pending EXCEPT ![a] = Tail(@)]
           /\ ready' = IF down THEN ready ELSE Append(ready, [act |-> a, n |-> Head(pending[a])])
  <2>1. /\ Head(pending[a]) \in 1 .. MaxTasks /\ Tail(pending[a]) \in Seq(1 .. MaxTasks)
        /\ pending'[a] = Tail(pending[a]) /\ \A b \in Actors \ {a} : pending'[b] = pending[b]
    BY <1>6, TailElements DEF TypeOK
  <2>2. CASE down
    <3>1. \A b \in Actors : InExecutor(b)' = InExecutor(b)
      BY <1>6, <2>2 DEF InExecutor
    <3>2. \A b \in Actors \ {a} : Waiting(b)' = Waiting(b)
      BY <1>6, <2>1, <2>2, UntouchedWaiting
    <3>3. InExecutor(a) = {}
      BY <1>1 DEF InExecutor, Tokens, QueuedOrHeld
    <3>4. Waiting(a)' = Tail(Waiting(a))
      BY <1>4, <2>1, <3>1, <3>3 DEF Waiting
    <3>5. Queues!Drop
      BY <1>2, <1>3, <2>2, <3>2, <3>4 DEF Queues!Drop
    <3>6. QED
      BY <3>5
  <2>3. CASE ~down
    <3>1. PICK e \in Task : e = [act |-> a, n |-> Head(pending[a])]
      BY <2>1 DEF Task
    <3>2. /\ ready' = Append(ready, e)
          /\ Len(ready') = Len(ready) + 1 /\ Len(ready) \in Nat
          /\ \A i \in 1 .. Len(ready) : ready'[i] = ready[i]
          /\ ready'[Len(ready) + 1] = e
      BY <1>6, <2>3, <3>1, AppendElements DEF TypeOK
    <3>3. Waiting(a)' = Waiting(a)
      <4>1. Len(ready) + 1 \in InExecutor(a)'
        BY <3>1, <3>2 DEF InExecutor
      <4>2. \A i \in InExecutor(a)' : i = Len(ready) + 1
        BY <3>2, <4>1 DEF InExecutor, Tokens, QueuedOnce
      <4>3. Waiting(a)' = <<Head(pending[a])>> \o Tail(pending[a])
        BY <2>1, <3>1, <3>2, <4>1, <4>2 DEF Waiting
      <4>4. pending[a] \in Seq(1 .. MaxTasks)
        BY DEF TypeOK
      <4>5. QED
        BY <1>4, <1>6, <2>1, <4>3, <4>4, InFront
    <3>4. \A b \in Actors \ {a} : Waiting(b)' = Waiting(b)
      <4> TAKE b \in Actors \ {a}
      <4>1. InExecutor(b)' = InExecutor(b)
        BY <3>1, <3>2 DEF InExecutor
      <4>2. {ready[i] : i \in InExecutor(b)}' = {ready[i] : i \in InExecutor(b)}
        BY <3>2, <4>1 DEF InExecutor
      <4>3. QED
        BY <2>1, <4>2, SameWaiting
    <3>5. QED
      BY <1>2, <1>3, <3>3, <3>4 DEF Queues!vars
  <2>4. QED
    BY <2>2, <2>3
<1>7. QED
  BY <1>1, <1>5, <1>6 DEF Complete

LEMMA ShutdownQueues ==
  ASSUME QueueInv, Shutdown
  PROVE  Queues!Drop
<1> USE DEF QueueInv, PoolInv
<1>1. \A a \in Actors : Active(a)' = Active(a)
  BY SameActive DEF Shutdown
<1>2. \A a \in Actors : Waiting(a)' = pending[a]
  BY DEF Shutdown, Waiting, InExecutor
<1>3. \A a \in Actors : Waiting(a) = pending[a] \/ pending[a] = Tail(Waiting(a))
  <2> TAKE a \in Actors
  <2>1. CASE InExecutor(a) = {}
    BY <2>1 DEF Waiting
  <2>2. CASE InExecutor(a) # {}
    <3>1. PICK i \in InExecutor(a) : TRUE
      BY <2>2
    <3>2. ready[i].n \in 1 .. MaxTasks /\ pending[a] \in Seq(1 .. MaxTasks)
      <4>1. ready[i] \in Task /\ pending[a] \in Seq(1 .. MaxTasks)
        BY <3>1 DEF TypeOK, InExecutor
      <4>2. QED
        BY <4>1 DEF Task
    <3>3. Waiting(a) = <<ready[i].n>> \o pending[a]
      BY <3>1, WaitingInFront DEF Tokens
    <3>4. QED
      BY <3>2, <3>3, InFront
  <2>3. QED
    BY <2>1, <2>2
<1>4. QED
  BY <1>1, <1>2, <1>3 DEF Shutdown, Queues!Drop

LEMMA QueuesNext == QueueInv /\ QueueInv' /\ [Next]_vars => [Queues!Next]_(Queues!vars)
<1> SUFFICES ASSUME QueueInv, QueueInv', [Next]_vars PROVE [Queues!Next]_(Queues!vars)
  OBVIOUS
<1>1. ASSUME NEW a \in Actors, Submit(a) PROVE Queues!Next
  BY <1>1, SubmitQueues DEF Queues!Next
<1>2. ASSUME NEW t \in Threads, Take(t) PROVE Queues!Next
  BY <1>2, TakeQueues DEF Queues!Next
<1>3. ASSUME NEW t \in Threads, Run(t) PROVE Queues!Next
  BY <1>3, RunQueues DEF Queues!Next
<1>4. ASSUME NEW t \in Threads, Complete(t) PROVE [Queues!Next]_(Queues!vars)
  BY <1>4, CompleteQueues DEF Queues!Next
<1>5. CASE Shutdown
  BY <1>5, ShutdownQueues DEF Queues!Next
<1>6. CASE UNCHANGED vars
  BY <1>6 DEF vars, Queues!vars, Waiting, InExecutor, Active, Running
<1>7. QED
  BY <1>1, <1>2, <1>3, <1>4, <1>5, <1>6 DEF Next

(* The pool implements ActorQueues: the tasks of one actor run in the order *)
(* they were submitted, one at a time, none skipped before a shutdown, for  *)
(* any number of actors, threads and tasks.                                 *)
THEOREM PoolRefinement == Spec => ImplementsQueues
BY QueuesInit, QueuesNext, QueueInvariant, PTL DEF Spec, ImplementsQueues, Queues!Spec
=============================================================================

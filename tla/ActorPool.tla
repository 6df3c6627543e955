----------------------------- MODULE ActorPool -----------------------------
(* ActorThreadPool: the reactor hands it the read tasks of its connections, *)
(* each connection's handler being an actor.                                *)
(*                                                                          *)
(* submit and complete hold the actor's monitor from their first read to    *)
(* their last write, so each is one action.  Only the selector thread       *)
(* submits, and only it shuts the pool down.                                *)
EXTENDS Naturals, Sequences

CONSTANTS
  Actors,     \* connection handlers
  Threads,    \* the threads of the fixed pool
  MaxTasks,   \* how many tasks the selector hands in per actor (a bound)
  None        \* no task

ASSUME MaxTasksAssumption == MaxTasks \in Nat

Task == [act: Actors, n: 1 .. MaxTasks]
ASSUME NoneAssumption == None \notin Nat \cup Task
Phases == {"idle", "run", "complete"}

VARIABLES
  submitted,  \* actor -> how many tasks were handed in; they are numbered 1, 2, ...
  pending,    \* acts: actor -> its tasks behind the one in the executor
  playingNow, \* actors with a task in the executor
  ready,      \* the executor's queue
  phase,      \* what each thread is doing
  hand,       \* the task each thread has, None when idle
  ran,        \* actor -> how many of its tasks have run
  down        \* shutdownNow was called
vars == <<submitted, pending, playingNow, ready, phase, hand, ran, down>>

Init ==
  /\ submitted = [a \in Actors |-> 0]
  /\ pending = [a \in Actors |-> <<>>]
  /\ playingNow = {}
  /\ ready = <<>>
  /\ phase = [t \in Threads |-> "idle"]
  /\ hand = [t \in Threads |-> None]
  /\ ran = [a \in Actors |-> 0]
  /\ down = FALSE

(* Mutant: the executor gets every task at once.                            *)
SubmitUnguarded(a) ==
  /\ ~down
  /\ submitted[a] < MaxTasks
  /\ submitted' = [submitted EXCEPT ![a] = @ + 1]
  /\ playingNow' = playingNow \cup {a}
  /\ ready' = Append(ready, [act |-> a, n |-> submitted[a] + 1])
  /\ UNCHANGED <<pending, phase, hand, ran, down>>

(* Mutant: a task is put in front of those that wait.                       *)
SubmitInFront(a) ==
  /\ ~down
  /\ submitted[a] < MaxTasks
  /\ submitted' = [submitted EXCEPT ![a] = @ + 1]
  /\ \/ /\ a \notin playingNow
        /\ playingNow' = playingNow \cup {a}
        /\ ready' = Append(ready, [act |-> a, n |-> submitted[a] + 1])
        /\ UNCHANGED pending
     \/ /\ a \in playingNow
        /\ pending' = [pending EXCEPT ![a] = <<submitted[a] + 1>> \o @]
        /\ UNCHANGED <<playingNow, ready>>
  /\ UNCHANGED <<phase, hand, ran, down>>

(* submit(act, r), by the selector thread.                                  *)
Submit(a) ==
  /\ ~down
  /\ submitted[a] < MaxTasks
  /\ submitted' = [submitted EXCEPT ![a] = @ + 1]
  /\ \/ /\ a \notin playingNow
        /\ playingNow' = playingNow \cup {a}
        /\ ready' = Append(ready, [act |-> a, n |-> submitted[a] + 1])
        /\ UNCHANGED pending
     \/ /\ a \in playingNow
        /\ pending' = [pending EXCEPT ![a] = Append(@, submitted[a] + 1)]
        /\ UNCHANGED <<playingNow, ready>>
  /\ UNCHANGED <<phase, hand, ran, down>>

(* An idle thread takes the head of the executor's queue.                   *)
Take(t) ==
  /\ phase[t] = "idle"
  /\ ready # <<>>
  /\ phase' = [phase EXCEPT ![t] = "run"]
  /\ hand' = [hand EXCEPT ![t] = Head(ready)]
  /\ ready' = Tail(ready)
  /\ UNCHANGED <<submitted, pending, playingNow, ran, down>>

(* r.run() ends.  An exception comes to the same: complete is called in the *)
(* finally clause, and the executor replaces the thread.                    *)
Run(t) ==
  /\ phase[t] = "run"
  /\ phase' = [phase EXCEPT ![t] = "complete"]
  /\ ran' = [ran EXCEPT ![hand[t].act] = @ + 1]
  /\ UNCHANGED <<submitted, pending, playingNow, ready, hand, down>>

(* Mutant: the thread keeps the task it has run.                            *)
ReleaseKeepsTask(t) ==
  /\ phase' = [phase EXCEPT ![t] = "idle"]
  /\ UNCHANGED <<submitted, hand, ran, down>>

(* The thread is done with its task.                                        *)
Release(t) ==
  /\ phase' = [phase EXCEPT ![t] = "idle"]
  /\ hand' = [hand EXCEPT ![t] = None]
  /\ UNCHANGED <<submitted, ran, down>>

(* Mutant: complete() does not look for tasks that came in meanwhile.       *)
CompleteForgets(t) ==
  /\ phase[t] = "complete"
  /\ playingNow' = playingNow \ {hand[t].act}
  /\ Release(t)
  /\ UNCHANGED <<pending, ready>>

(* complete(act): the next task goes to the executor, which rejects it, an  *)
(* exception after the poll, once it was shut down.                         *)
Complete(t) ==
  /\ phase[t] = "complete"
  /\ LET a == hand[t].act
     IN \/ /\ pending[a] = <<>>
           /\ playingNow' = playingNow \ {a}
           /\ UNCHANGED <<pending, ready>>
        \/ /\ pending[a] # <<>>
           /\ pending' = [pending EXCEPT ![a] = Tail(@)]
           /\ ready' = IF down THEN ready
                       ELSE Append(ready, [act |-> a, n |-> Head(pending[a])])
           /\ UNCHANGED playingNow
  /\ Release(t)

(* shutdown(): shutdownNow drains the executor's queue.                     *)
Shutdown ==
  /\ ~down
  /\ down' = TRUE
  /\ ready' = <<>>
  /\ UNCHANGED <<submitted, pending, playingNow, phase, hand, ran>>

Next ==
  \/ \E a \in Actors : Submit(a)
  \/ \E t \in Threads : Take(t) \/ Run(t) \/ Complete(t)
  \/ Shutdown

Spec == Init /\ [][Next]_vars

(* A pool thread with something to do does it: it is never blocked for      *)
(* ever, as a task is the processing of the frames in one buffer.           *)
FairSpec == Spec /\ \A t \in Threads : WF_vars(Take(t) \/ Run(t) \/ Complete(t))

-----------------------------------------------------------------------------
(* Every variable has its type, and a thread has a task exactly when it is  *)
(* not idle.                                                                *)
TypeOK ==
  /\ submitted \in [Actors -> 0 .. MaxTasks]
  /\ pending \in [Actors -> Seq(1 .. MaxTasks)]
  /\ playingNow \subseteq Actors
  /\ ready \in Seq(Task)
  /\ phase \in [Threads -> Phases]
  /\ hand \in [Threads -> Task \cup {None}]
  /\ ran \in [Actors -> Nat]
  /\ down \in BOOLEAN
  /\ \A t \in Threads : phase[t] = "idle" <=> hand[t] = None

(* No two threads run tasks of one connection: its protocol object, which   *)
(* takes no lock, is never entered twice.                                   *)
OneAtATime ==
  \A t, s \in Threads :
    phase[t] = "run" /\ phase[s] = "run" /\ hand[t].act = hand[s].act => t = s

(* The places of an actor's tasks in the executor's queue, and its tasks    *)
(* that are yet to start: first the one that waits there, if any.           *)
InExecutor(a) == {i \in 1 .. Len(ready) : ready[i].act = a}
Waiting(a) ==
  IF InExecutor(a) = {} THEN pending[a]
  ELSE <<ready[CHOOSE i \in InExecutor(a) : TRUE].n>> \o pending[a]

Running(a) == {t \in Threads : phase[t] = "run" /\ hand[t].act = a}
Active(a) == IF Running(a) = {} THEN None ELSE hand[CHOOSE t \in Running(a) : TRUE].n

(* The pool serves each actor's tasks in order, one at a time.              *)
Queues == INSTANCE ActorQueues WITH
  waiting <- [a \in Actors |-> Waiting(a)],
  active  <- [a \in Actors |-> Active(a)],
  stopped <- down
ImplementsQueues == Queues!Spec

(* A task handed in runs in the end, unless the pool is shut down: none is  *)
(* left in pending when its actor leaves playingNow.                        *)
EveryTaskRuns ==
  \A a \in Actors, n \in 1 .. MaxTasks : submitted[a] >= n ~> ran[a] >= n \/ down
=============================================================================

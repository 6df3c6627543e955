---------------------------- MODULE ActorQueues ----------------------------
(* What the reactor needs of its thread pool: the tasks of one actor run in *)
(* the order they were submitted, one at a time, none twice and none        *)
(* skipped; actors do not wait for one another.                             *)
EXTENDS Naturals, Sequences

CONSTANTS Actors, None

VARIABLES
  submitted,  \* actor -> how many tasks were handed in
  waiting,    \* actor -> the tasks yet to start, in order
  active,     \* actor -> the task being run, None when there is none
  stopped     \* the pool was shut down
vars == <<submitted, waiting, active, stopped>>

Init ==
  /\ submitted = [a \in Actors |-> 0]
  /\ waiting = [a \in Actors |-> <<>>]
  /\ active = [a \in Actors |-> None]
  /\ stopped = FALSE

Submit(a) ==
  /\ ~stopped
  /\ submitted' = [submitted EXCEPT ![a] = @ + 1]
  /\ waiting' = [waiting EXCEPT ![a] = Append(@, submitted[a] + 1)]
  /\ UNCHANGED <<active, stopped>>

Start(a) ==
  /\ active[a] = None
  /\ waiting[a] # <<>>
  /\ active' = [active EXCEPT ![a] = Head(waiting[a])]
  /\ waiting' = [waiting EXCEPT ![a] = Tail(@)]
  /\ UNCHANGED <<submitted, stopped>>

End(a) ==
  /\ active[a] # None
  /\ active' = [active EXCEPT ![a] = None]
  /\ UNCHANGED <<submitted, waiting, stopped>>

(* Once the pool is shut down, tasks that have not started may be dropped.  *)
Drop ==
  /\ stopped'
  /\ \A a \in Actors : waiting'[a] = waiting[a] \/ waiting'[a] = Tail(waiting[a])
  /\ DOMAIN waiting' = Actors
  /\ UNCHANGED <<submitted, active>>

Next == (\E a \in Actors : Submit(a) \/ Start(a) \/ End(a)) \/ Drop

Spec == Init /\ [][Next]_vars
=============================================================================

---------------------------- MODULE MCActorPool ----------------------------
(* Three connections, two pool threads: more actors than threads, so that a *)
(* task waits in each of the places it can wait in.                         *)
EXTENDS ActorPool, FiniteSets

ASSUME MoreActorsThanThreads == Cardinality(Actors) > Cardinality(Threads)
=============================================================================

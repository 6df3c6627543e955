--------------------------- MODULE MCStompClient ---------------------------
(* One client, two games, and commands enough for the numbers of one answer *)
(* to move on between the two readings of them for another.                 *)
EXTENDS StompClient

ASSUME EnoughForARace == Games # {} /\ MaxCommands > 2
=============================================================================

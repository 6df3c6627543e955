-------------------------- MODULE MCStompBroadcast --------------------------
(* The thread-per-client server from two beginnings: nobody is known to it, *)
(* or two users have joined the game, each on a connection of its own.      *)
EXTENDS StompBroadcast

CONSTANTS c1, c2, c3, u1, u2, p1, game

VARIABLE joined   \* which of the two it was

MCConns == {c1, c2, c3}
MCUsers == {u1, u2}

Make(cmd, user) ==
  [cmd |-> cmd, hdrs |-> Required[cmd], broken |-> FALSE,
   user |-> user, pass |-> p1, chan |-> game, sub |-> 1]

Connecting == Make("CONNECT", u1)
OtherUser == Make("CONNECT", u2)
Sending == Make("SEND", u1)
Joining == Make("SUBSCRIBE", u1)
JoiningNothing == [Joining EXCEPT !.hdrs = @ \ {"destination"}]
Broken == [Joining EXCEPT !.hdrs = {"destination"}, !.broken = TRUE]
Leaving == Make("DISCONNECT", u1)

(* What the C++ client sends, and frames that lack a header or a value.     *)
MCFrames == {Connecting, OtherUser, Sending, Joining, JoiningNothing, Broken, Leaving}

(* Who sends which of them.                                                 *)
Role(c) ==
  IF joined
  THEN CASE c = c1 -> {Sending, Leaving}
         [] c = c2 -> {Sending, Joining, Leaving}
         [] c = c3 -> {Connecting, OtherUser}
  ELSE IF c = c1 THEN MCFrames \ {OtherUser} ELSE MCFrames

AtRest ==
  /\ shouldTerminate = [c \in MCConns |-> FALSE]
  /\ headers = [c \in MCConns |-> {}]
  /\ pc = [c \in MCConns |-> "read"]
  /\ frame = [c \in MCConns |-> Null]
  /\ resume = [c \in MCConns |-> "read"]
  /\ todo = [c \in MCConns |-> {}]
  /\ target = [c \in MCConns |-> Null]
  /\ values = [c \in MCConns |-> NoIterator]
  /\ stale = {}
  /\ reply = [c \in MCConns |-> "none"]
  /\ delivered = [c \in MCConns |-> {}]
  /\ owed = [c \in MCConns |-> {}]

(* One client has been here and is gone.                                    *)
Fresh ==
  /\ connections = {c3}
  /\ userToConnection = [u \in MCUsers |-> Null]
  /\ connectionToUser = [c \in MCConns |-> Null]
  /\ channels = {}
  /\ password = [u \in MCUsers |-> Null]
  /\ subscriptions = [u \in MCUsers |-> NoSubscriptions]
  /\ sock = [c \in MCConns |-> IF c = c3 THEN "closed" ELSE "none"]

(* The state after three accepts, and a CONNECT and a SUBSCRIBE on c1 and   *)
(* on c2, with an id of its own each.                                       *)
Joined ==
  /\ connections = MCConns
  /\ userToConnection = [u \in MCUsers |-> IF u = u1 THEN c1 ELSE c2]
  /\ connectionToUser = [c \in MCConns |-> CASE c = c1 -> u1 [] c = c2 -> u2 [] OTHER -> Null]
  /\ channels = {game}
  /\ password = [u \in MCUsers |-> p1]
  /\ subscriptions =
       [u \in MCUsers |-> [i \in SubIds |-> IF (u = u1) = (i = 1) THEN game ELSE Null]]
  /\ sock = [c \in MCConns |-> "open"]

MCInit == AtRest /\ joined \in BOOLEAN /\ IF joined THEN Joined ELSE Fresh

MCNext ==
  /\ BroadcastNext
  /\ UNCHANGED joined
  /\ \A c \in MCConns : frame'[c] \in Role(c) \cup {Null}

MCSpec == MCInit /\ [][MCNext]_<<vars, owed, joined>> /\ Fairness
=============================================================================

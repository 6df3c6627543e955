--------------------------- MODULE StompBroadcast ---------------------------
(* StompServer with a record of whom each broadcast owes its MESSAGE: the   *)
(* users who were logged in and subscribed when the iteration began, and    *)
(* kept that subscription, on a connection the controller still knows.      *)
EXTENDS StompServer

VARIABLE owed   \* worker -> the <<user, subscription, connection>> still owed

Entitled(c) ==
  {e \in Users \X SubIds \X Conns :
     /\ userToConnection[e[1]] = e[3]
     /\ e[3] \in connections
     /\ subscriptions[e[1]][e[2]] = DestOf(c)}

BroadcastInit == Init /\ owed = [c \in Conns |-> {}]

BroadcastNext ==
  /\ Next
  /\ owed' = [c \in Conns |->
       IF pc'[c] \notin {"broadcast", "look", "post"} THEN {}
       ELSE IF pc[c] = "isChannelExist" THEN Entitled(c)'
       ELSE owed[c] \cap Entitled(c)']

BroadcastSpec == BroadcastInit /\ [][BroadcastNext]_<<vars, owed>>

(* A SEND whose loop over the logged-in users ran to its end, whatever the  *)
(* other workers did meanwhile, has reached every user it was owed to       *)
(* (ConnectionController.send(channel, msg)).                               *)
CompletedBroadcastReachesAll ==
  [][\A c \in Conns :
       pc[c] = "broadcast" /\ pc'[c] = "read" /\ todo[c] = {}
         => \A e \in owed[c] : e[3] \in delivered[c]
    ]_<<vars, owed>>

(* A SEND is given up while somebody is still owed its MESSAGE only after   *)
(* another worker has changed what it iterates over: has put a user into    *)
(* userToConnection or taken one out, or has added to, or cleared, the      *)
(* subscriptions of the user it is looking at.  A connection refused since, *)
(* whose handler is gone, does not keep the MESSAGE from the others.        *)
GivenUpOnlyByChange ==
  [][\A c \in Conns :
       pc[c] \in {"broadcast", "look", "post"} /\ pc'[c] = "read"
       /\ c \notin stale /\ values[c].map # "changed"
         => \A e \in owed[c] : e[3] \in delivered[c]
    ]_<<vars, owed>>
=============================================================================

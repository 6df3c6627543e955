----------------------------- MODULE Membership -----------------------------
(* What the server promises its users: an account is opened once and keeps  *)
(* its password, a user has at most one session, game channels are joined   *)
(* from within a session, and a session ends with no channel left behind.   *)
CONSTANTS Users, Passwords, Sessions, Channels, Null

VARIABLES account, session, membership
vars == <<account, session, membership>>

Init ==
  /\ account = [u \in Users |-> Null]
  /\ session = [u \in Users |-> Null]
  /\ membership = [u \in Users |-> {}]

Register(u, p) ==
  /\ account[u] = Null
  /\ account' = [account EXCEPT ![u] = p]
  /\ UNCHANGED <<session, membership>>

Login(u, s) ==
  /\ account[u] # Null
  /\ session[u] = Null
  /\ session' = [session EXCEPT ![u] = s]
  /\ UNCHANGED <<account, membership>>

(* A subscription id in use is given to the new channel: at most one        *)
(* channel is left for the one joined.                                      *)
Join(u, ch) ==
  /\ session[u] # Null
  /\ \E left \in SUBSET membership[u] :
       /\ \A a, b \in left : a = b
       /\ membership' = [membership EXCEPT ![u] = (@ \ left) \cup {ch}]
  /\ UNCHANGED <<account, session>>

(* One channel is left.                                                     *)
Leave(u, ch) ==
  /\ session[u] # Null
  /\ membership' = [membership EXCEPT ![u] = @ \ {ch}]
  /\ UNCHANGED <<account, session>>

LeaveAll(u) ==
  /\ session[u] # Null
  /\ membership' = [membership EXCEPT ![u] = {}]
  /\ UNCHANGED <<account, session>>

Logout(u) ==
  /\ session[u] # Null
  /\ membership[u] = {}
  /\ session' = [session EXCEPT ![u] = Null]
  /\ UNCHANGED <<account, membership>>

Next ==
  \E u \in Users :
    \/ \E p \in Passwords : Register(u, p)
    \/ \E s \in Sessions : Login(u, s)
    \/ \E ch \in Channels : Join(u, ch) \/ Leave(u, ch)
    \/ LeaveAll(u)
    \/ Logout(u)

Spec == Init /\ [][Next]_vars
=============================================================================

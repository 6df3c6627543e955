---------------------------- MODULE StompServer ----------------------------
(* The STOMP server: the ConnectionController every connection shares, and  *)
(* the protocol object of each connection working on it.                    *)
(*                                                                          *)
(* A connection c is served by a worker (a thread of its own in the         *)
(* thread-per-client server, a pool thread in the reactor).  The worker     *)
(* reads a frame, then runs StompMessagingProtocolImpl.process as a         *)
(* sequence of calls on the controller; pc[c] names the next call.  No lock *)
(* protects the controller, so the steps of different workers interleave    *)
(* freely unless Parallel is FALSE (a reactor whose pool has one thread).   *)
EXTENDS Naturals, FiniteSets

CONSTANTS
  Conns,      \* connection ids the acceptor may hand out (a bound)
  Users,      \* login names
  Passwords,  \* passcodes
  Channels,   \* game channels named by well-formed frames
  SubIds,     \* subscription ids
  Junk,       \* the "channel" found when a destination is read from another line
  Null,       \* what a HashMap returns for an absent key
  Frames,     \* the frames clients may send (a bound: a set of representatives)
  Parallel,   \* may two workers run process() at the same time?
  Mode        \* "tpc" or "reactor"

HeaderNames ==
  {"version", "host", "login", "passcode", "destination", "id", "receipt"}

Commands == {"CONNECT", "SEND", "SUBSCRIBE", "UNSUBSCRIBE", "DISCONNECT", "UNKNOWN"}

(* A frame, as split into lines.  hdrs: the known header names it carries,  *)
(* in the order the clients write them.  broken: they are followed by a     *)
(* line the header loop fails on (one without a value; in a SEND, one of    *)
(* colons only).  sub: the number on the line the code reads the            *)
(* subscription id from.                                                    *)
Frame == [cmd: Commands, hdrs: SUBSET HeaderNames, broken: BOOLEAN,
          user: Users, pass: Passwords, chan: Channels, sub: SubIds]

ASSUME NullAssumption ==
  Null \notin Users \cup Passwords \cup Conns \cup Channels \cup {Junk} \cup Frame
ASSUME JunkAssumption == Junk \notin Channels
ASSUME FramesAssumption == Frames \subseteq Frame
ASSUME ServerAssumption == Parallel \in BOOLEAN /\ Mode \in {"tpc", "reactor"}

(* The headers process() insists on before it acts on a command.            *)
Required ==
  [CONNECT     |-> {"version", "host", "login", "passcode"},
   SEND        |-> {"destination"},
   SUBSCRIBE   |-> {"destination", "id", "receipt"},
   UNSUBSCRIBE |-> {"id", "receipt"},
   DISCONNECT  |-> {"receipt"},
   UNKNOWN     |-> {}]

(* The first call of each command's body.                                   *)
Body ==
  [CONNECT     |-> "isUserExist",
   SEND        |-> "isChannelExist",
   SUBSCRIBE   |-> "subscribe",
   UNSUBSCRIBE |-> "unsubscribe",
   DISCONNECT  |-> "bye",
   UNKNOWN     |-> "error"]

Labels ==
  {"read", "isUserExist", "createUser", "putUser", "isUserIsLogged",
   "checkPassword", "logging", "refuse", "isChannelExist", "broadcast", "look",
   "post", "error", "disconnect", "signOut", "subscribe", "addSubscription",
   "unsubscribe", "reply", "clear", "bye"}

Answers == {"none", "CONNECTED", "RECEIPT", "ERROR"}

VARIABLES
  connections,       \* ids whose handler the controller holds
  userToConnection,  \* user -> connection id, Null when not logged in
  connectionToUser,  \* connection id -> user, Null when not logged in
  channels,          \* channels that exist
  password,          \* user -> password, Null when there is no such account
  subscriptions,     \* user -> subscription id -> channel
  sock,              \* "none" before the accept, "open", "closed"
  shouldTerminate,   \* the protocol object's flag
  headers,           \* the protocol object's header map (its keys)
  pc,                \* the next call of the worker, "read" between frames
  frame,             \* the frame in hand, Null between frames
  resume,            \* where process() goes on after disconnect()
  todo,              \* users the keySet iterator has yet to visit
  target,            \* the user whose subscriptions a broadcast is looking at
  values,            \* the iterator over the values of that user's subscriptions
  stale,             \* workers whose keySet iterator was invalidated
  reply,             \* how the frame in hand was answered on its own connection
  delivered          \* connections the broadcast in progress has reached

controller == <<connections, userToConnection, connectionToUser, channels,
                password, subscriptions>>
local == <<frame, resume, todo, target, stale, delivered, reply>>
vars == <<controller, sock, shouldTerminate, headers, pc, local, values>>

NoSubscriptions == [i \in SubIds |-> Null]

(* An iterator over User.subscriptions: the ids it has yet to come to, and  *)
(* what others have done to the map since it was made.                      *)
Iterator == [left : SUBSET SubIds, map : {"same", "changed", "replaced"}]
NoIterator == [left |-> {}, map |-> "same"]

Init ==
  /\ connections = {}
  /\ userToConnection = [u \in Users |-> Null]
  /\ connectionToUser = [c \in Conns |-> Null]
  /\ channels = {}
  /\ password = [u \in Users |-> Null]
  /\ subscriptions = [u \in Users |-> NoSubscriptions]
  /\ sock = [c \in Conns |-> "none"]
  /\ shouldTerminate = [c \in Conns |-> FALSE]
  /\ headers = [c \in Conns |-> {}]
  /\ pc = [c \in Conns |-> "read"]
  /\ frame = [c \in Conns |-> Null]
  /\ resume = [c \in Conns |-> "read"]
  /\ todo = [c \in Conns |-> {}]
  /\ target = [c \in Conns |-> Null]
  /\ values = [c \in Conns |-> NoIterator]
  /\ stale = {}
  /\ reply = [c \in Conns |-> "none"]
  /\ delivered = [c \in Conns |-> {}]

-----------------------------------------------------------------------------
(* How a step of process() ends.                                            *)

Goto(c, label) == pc' = [pc EXCEPT ![c] = label]

(* The worker goes on with another call of the same frame.                  *)
Continue(c, label) == Goto(c, label) /\ UNCHANGED <<local, values, headers, sock>>

(* It goes on after connections.send(connectionId, ...): that call returns  *)
(* false, and raises nothing, when the handler is gone.                     *)
Answer(c, kind, label) ==
  /\ Goto(c, label)
  /\ reply' = [reply EXCEPT ![c] = IF c \in connections THEN kind ELSE @]
  /\ UNCHANGED <<frame, resume, todo, target, values, stale, delivered, headers, sock>>

Finish(c) ==
  /\ Goto(c, "read")
  /\ frame' = [frame EXCEPT ![c] = Null]
  /\ resume' = [resume EXCEPT ![c] = "read"]
  /\ todo' = [todo EXCEPT ![c] = {}]
  /\ target' = [target EXCEPT ![c] = Null]
  /\ values' = [values EXCEPT ![c] = NoIterator]
  /\ delivered' = [delivered EXCEPT ![c] = {}]
  /\ reply' = [reply EXCEPT ![c] = "none"]

(* process() returns; every branch but that of an unknown command clears    *)
(* the header map.                                                          *)
Return(c) ==
  /\ Finish(c)
  /\ headers' = [headers EXCEPT ![c] = IF frame[c].cmd = "UNKNOWN" THEN @ ELSE {}]
  /\ stale' = stale \ {c}
  /\ UNCHANGED sock

(* An unchecked exception leaves process().  It ends the client's thread,   *)
(* and try-with-resources closes the socket; a pool thread drops the task   *)
(* and keeps the connection.  The controller's maps stay as they are.       *)
Raise(c) ==
  /\ Finish(c)
  /\ sock' = [sock EXCEPT ![c] = IF Mode = "tpc" THEN "closed" ELSE @]
  /\ stale' = stale \ {c}
  /\ UNCHANGED headers

(* A structural change of userToConnection fails the iterators over it.     *)
Iterating == {d \in Conns : pc[d] \in {"broadcast", "look", "post"}}

Login(c) == frame[c].user
Me(c) == connectionToUser[c]
Lines(c) == Cardinality(frame[c].hdrs)
Complete(c) == Lines(c) >= Cardinality(Required[frame[c].cmd])
DestOf(c) == IF "destination" \in frame[c].hdrs THEN frame[c].chan ELSE Junk

(* The workers that iterate over the subscriptions u has now.               *)
Looking(u) == {d \in Conns : pc[d] = "look" /\ target[d] = u /\ values[d].map = "same"}

(* A structural change of u's subscriptions fails them.                     *)
Changed(u) ==
  [d \in Conns |-> IF d \in Looking(u) THEN [values[d] EXCEPT !.map = "changed"] ELSE values[d]]

(* A new User object leaves them the map of the old one, which nobody else  *)
(* reaches any more: what they will find in it is settled.                  *)
Replaced(u) ==
  [d \in Conns |->
     IF d \in Looking(u)
     THEN [left |-> {i \in values[d].left : subscriptions[u][i] = DestOf(d)}, map |-> "replaced"]
     ELSE values[d]]

-----------------------------------------------------------------------------
(* The acceptor: getCountConnectionId, start, addConnection.                *)
Accept(c) ==
  /\ sock[c] = "none"
  /\ sock' = [sock EXCEPT ![c] = "open"]
  /\ connections' = connections \cup {c}
  /\ UNCHANGED <<userToConnection, connectionToUser, channels, password,
                 subscriptions, shouldTerminate, headers, pc, local, values>>

(* The worker is between frames and may start another.  A client's thread   *)
(* stops once shouldTerminate is set; the reactor's task processes every    *)
(* frame it was handed, also after that and after the channel was closed.   *)
CanRead(c) ==
  /\ pc[c] = "read"
  /\ IF Mode = "tpc" THEN sock[c] = "open" /\ ~shouldTerminate[c]
                     ELSE sock[c] # "none"
  /\ Parallel \/ \A d \in Conns : pc[d] = "read"

(* The header loop does not run for an unknown command.                     *)
Breaks(f) == f.broken /\ f.cmd # "UNKNOWN"

(* The header map after the loop.                                           *)
Parsed(c, f) == IF f.cmd = "UNKNOWN" THEN headers[c] ELSE headers[c] \cup f.hdrs

(* SUBSCRIBE and UNSUBSCRIBE do not return after a missing destination or   *)
(* id: the next check runs, and only a missing receipt skips the body.      *)
ResumeAfter(f, missing) ==
  IF f.cmd \notin {"SUBSCRIBE", "UNSUBSCRIBE"} \/ missing \in {{}, {"receipt"}}
  THEN "read"
  ELSE IF \E h \in missing : missing = {h} THEN Body[f.cmd] ELSE "error"

(* A frame is parsed and its headers checked.                               *)
Receive(c, f) ==
  /\ CanRead(c)
  /\ ~Breaks(f)
  /\ LET missing == Required[f.cmd] \ Parsed(c, f)
     IN /\ Goto(c, IF missing = {} THEN Body[f.cmd]
                   ELSE IF f.cmd = "CONNECT" THEN "refuse" ELSE "error")
        /\ resume' = [resume EXCEPT ![c] = ResumeAfter(f, missing)]
  /\ headers' = [headers EXCEPT ![c] = Parsed(c, f)]
  /\ frame' = [frame EXCEPT ![c] = f]
  /\ UNCHANGED <<controller, sock, shouldTerminate, todo, target, values, stale, delivered, reply>>

(* The headers before the line that fails are kept, and the array access    *)
(* raises.                                                                  *)
ReceiveBroken(c, f) ==
  /\ CanRead(c)
  /\ Breaks(f)
  /\ headers' = [headers EXCEPT ![c] = Parsed(c, f)]
  /\ sock' = [sock EXCEPT ![c] = IF Mode = "tpc" THEN "closed" ELSE @]
  /\ UNCHANGED <<controller, shouldTerminate, pc, local, values>>

-----------------------------------------------------------------------------
(* CONNECT                                                                  *)

(* Mutant: every CONNECT creates its user.                                  *)
IsUserExistIgnored(c) ==
  /\ pc[c] = "isUserExist"
  /\ Continue(c, "createUser")
  /\ UNCHANGED <<controller, shouldTerminate>>

(* The name and the passcode are read from lines 3 and 4: a frame that      *)
(* passed the checks on headers left by an earlier one has too few lines.   *)
IsUserExist(c) ==
  /\ pc[c] = "isUserExist"
  /\ \/ ~Complete(c) /\ Raise(c)
     \/ /\ Complete(c)
        /\ Continue(c, IF password[Login(c)] = Null THEN "createUser" ELSE "isUserIsLogged")
  /\ UNCHANGED <<controller, shouldTerminate>>

(* ConnectionController.createUser ignores what UserController answers and  *)
(* logs in either way.                                                      *)
CreateUser(c) ==
  /\ pc[c] = "createUser"
  /\ Continue(c, IF password[Login(c)] = Null THEN "putUser" ELSE "logging")
  /\ UNCHANGED <<controller, shouldTerminate>>

(* Mutant: the User constructor does not make the subscription map.         *)
PutUserNoMap(c) ==
  /\ pc[c] = "putUser"
  /\ password' = [password EXCEPT ![Login(c)] = frame[c].pass]
  /\ subscriptions' = [subscriptions EXCEPT ![Login(c)] = Null]
  /\ Continue(c, "logging")
  /\ UNCHANGED <<connections, userToConnection, connectionToUser, channels, shouldTerminate>>

PutUser(c) ==
  /\ pc[c] = "putUser"
  /\ password' = [password EXCEPT ![Login(c)] = frame[c].pass]
  /\ subscriptions' = [subscriptions EXCEPT ![Login(c)] = NoSubscriptions]
  /\ values' = Replaced(Login(c))
  /\ Goto(c, "logging")
  /\ UNCHANGED <<connections, userToConnection, connectionToUser, channels,
                 shouldTerminate, local, headers, sock>>

(* Mutant: the session check is dropped.                                    *)
IsUserIsLoggedDropped(c) ==
  /\ pc[c] = "isUserIsLogged"
  /\ Continue(c, "checkPassword")
  /\ UNCHANGED <<controller, shouldTerminate>>

IsUserIsLogged(c) ==
  /\ pc[c] = "isUserIsLogged"
  /\ Continue(c, IF userToConnection[Login(c)] # Null THEN "refuse" ELSE "checkPassword")
  /\ UNCHANGED <<controller, shouldTerminate>>

(* Mutant: the passcode check is dropped.                                   *)
CheckPasswordDropped(c) ==
  /\ pc[c] = "checkPassword"
  /\ Continue(c, "logging")
  /\ UNCHANGED <<controller, shouldTerminate>>

CheckPassword(c) ==
  /\ pc[c] = "checkPassword"
  /\ Continue(c, IF password[Login(c)] = frame[c].pass THEN "logging" ELSE "refuse")
  /\ UNCHANGED <<controller, shouldTerminate>>

Logging(c) ==
  /\ pc[c] = "logging"
  /\ connectionToUser' = [connectionToUser EXCEPT ![c] = Login(c)]
  /\ userToConnection' = [userToConnection EXCEPT ![Login(c)] = c]
  /\ stale' = IF userToConnection[Login(c)] = Null THEN stale \cup Iterating ELSE stale
  /\ Goto(c, "reply")
  /\ UNCHANGED <<connections, channels, password, subscriptions, shouldTerminate,
                 headers, sock, frame, resume, todo, target, values, delivered, reply>>

(* Mutant: a refused login does not terminate the connection.               *)
RefuseNoTerminate(c) ==
  /\ pc[c] = "refuse"
  /\ Answer(c, "ERROR", "clear")
  /\ connections' = connections \ {c}
  /\ UNCHANGED <<userToConnection, connectionToUser, channels, password, subscriptions,
                 shouldTerminate>>

(* ERROR, removeConnection, shouldTerminate.                                *)
Refuse(c) ==
  /\ pc[c] = "refuse"
  /\ Answer(c, "ERROR", "clear")
  /\ connections' = connections \ {c}
  /\ shouldTerminate' = [shouldTerminate EXCEPT ![c] = TRUE]
  /\ UNCHANGED <<userToConnection, connectionToUser, channels, password, subscriptions>>

-----------------------------------------------------------------------------
(* ERROR and disconnect(), for every other command.                         *)

Error(c) ==
  /\ pc[c] = "error"
  /\ Answer(c, "ERROR", "disconnect")
  /\ UNCHANGED <<controller, shouldTerminate>>

(* Mutant: disconnect() forgets the subscriptions.                          *)
DisconnectKeepsSubscriptions(c) ==
  /\ pc[c] = "disconnect"
  /\ \/ Me(c) = Null /\ Raise(c)
     \/ Me(c) # Null /\ Continue(c, "signOut")
  /\ UNCHANGED <<controller, shouldTerminate>>

(* unsubscribeFromAllChannels(null) raises: nobody is logged in here.       *)
Disconnect(c) ==
  /\ pc[c] = "disconnect"
  /\ \/ /\ Me(c) = Null
        /\ Raise(c)
        /\ UNCHANGED subscriptions
     \/ /\ Me(c) # Null
        /\ subscriptions' = [subscriptions EXCEPT ![Me(c)] = NoSubscriptions]
        /\ values' = Changed(Me(c))
        /\ Goto(c, "signOut")
        /\ UNCHANGED <<local, headers, sock>>
  /\ UNCHANGED <<connections, userToConnection, connectionToUser, channels, password,
                 shouldTerminate>>

(* Mutant: disconnect() does not remove the connection's user.              *)
SignOutKeepsUser(c) ==
  /\ pc[c] = "signOut"
  /\ userToConnection' = [userToConnection EXCEPT ![Me(c)] = Null]
  /\ connections' = connections \ {c}
  /\ shouldTerminate' = [shouldTerminate EXCEPT ![c] = TRUE]
  /\ stale' = IF userToConnection[Me(c)] # Null THEN stale \cup Iterating ELSE stale
  /\ \/ resume[c] = "read" /\ Finish(c) /\ headers' = [headers EXCEPT ![c] = {}]
     \/ /\ resume[c] # "read" /\ Goto(c, resume[c])
        /\ UNCHANGED <<headers, frame, resume, todo, target, values, delivered, reply>>
  /\ UNCHANGED <<connectionToUser, channels, password, subscriptions, sock>>

(* Mutant: the user stays routed to the connection.                         *)
SignOutKeepsRoute(c) ==
  /\ pc[c] = "signOut"
  /\ connectionToUser' = [connectionToUser EXCEPT ![c] = Null]
  /\ connections' = connections \ {c}
  /\ shouldTerminate' = [shouldTerminate EXCEPT ![c] = TRUE]
  /\ stale' = stale
  /\ \/ resume[c] = "read" /\ Finish(c) /\ headers' = [headers EXCEPT ![c] = {}]
     \/ /\ resume[c] # "read" /\ Goto(c, resume[c])
        /\ UNCHANGED <<headers, frame, resume, todo, target, values, delivered, reply>>
  /\ UNCHANGED <<userToConnection, channels, password, subscriptions, sock>>

SignOut(c) ==
  /\ pc[c] = "signOut"
  /\ userToConnection' = [userToConnection EXCEPT ![Me(c)] = Null]
  /\ connectionToUser' = [connectionToUser EXCEPT ![c] = Null]
  /\ connections' = connections \ {c}
  /\ shouldTerminate' = [shouldTerminate EXCEPT ![c] = TRUE]
  /\ stale' = IF userToConnection[Me(c)] # Null THEN stale \cup Iterating ELSE stale
  /\ \/ /\ resume[c] = "read"
        /\ Finish(c)
        /\ headers' = [headers EXCEPT ![c] = IF frame[c].cmd = "UNKNOWN" THEN @ ELSE {}]
     \/ /\ resume[c] # "read"
        /\ Goto(c, resume[c])
        /\ UNCHANGED <<headers, frame, resume, todo, target, values, delivered, reply>>
  /\ UNCHANGED <<channels, password, subscriptions, sock>>

(* DISCONNECT: the receipt goes out before disconnect() runs.               *)
Bye(c) ==
  /\ pc[c] = "bye"
  /\ \/ frame[c].hdrs = {} /\ Raise(c)
     \/ frame[c].hdrs # {} /\ Answer(c, "RECEIPT", "disconnect")
  /\ UNCHANGED <<controller, shouldTerminate>>

-----------------------------------------------------------------------------
(* SEND                                                                     *)

(* isChannelExist, then getSubscriptionId, which raises when nobody is      *)
(* logged in here; then the iterator over the logged-in users is made.  A   *)
(* frame without a destination may have no line 1 at all.                   *)
IsChannelExist(c) ==
  /\ pc[c] = "isChannelExist"
  /\ \/ /\ "destination" \notin frame[c].hdrs \/ (DestOf(c) \in channels /\ Me(c) = Null)
        /\ Raise(c)
     \/ /\ DestOf(c) \notin channels
        /\ Continue(c, "error")
     \/ /\ DestOf(c) \in channels /\ Me(c) # Null
        /\ Goto(c, "broadcast")
        /\ todo' = [todo EXCEPT ![c] = {u \in Users : userToConnection[u] # Null}]
        /\ UNCHANGED <<frame, resume, target, values, stale, delivered, reply, headers, sock>>
  /\ UNCHANGED <<controller, shouldTerminate>>

(* Mutant: the loop does not advance.                                       *)
VisitAgain(c, u) ==
  /\ u \in todo[c]
  /\ target' = [target EXCEPT ![c] = u]
  /\ values' = [values EXCEPT ![c].left = {i \in SubIds : subscriptions[u][i] # Null}]
  /\ Goto(c, "look")
  /\ UNCHANGED <<todo, frame, resume, stale, delivered, reply, headers, sock>>

(* One turn of the loop in send(channel, msg): hasNext, next, and the start *)
(* of isSubscriptionExist(userName, channel), the iterator over the values  *)
(* of that user's subscriptions.                                            *)
Visit(c, u) ==
  /\ u \in todo[c]
  /\ todo' = [todo EXCEPT ![c] = @ \ {u}]
  /\ target' = [target EXCEPT ![c] = u]
  /\ values' = [values EXCEPT ![c].left = {i \in SubIds : subscriptions[u][i] # Null}]
  /\ Goto(c, "look")
  /\ UNCHANGED <<frame, resume, stale, delivered, reply, headers, sock>>

Broadcast(c) ==
  /\ pc[c] = "broadcast"
  /\ \/ todo[c] = {} /\ Return(c)
     \/ todo[c] # {} /\ c \in stale /\ Raise(c)
     \/ c \notin stale /\ \E u \in Users : Visit(c, u)
  /\ UNCHANGED <<controller, shouldTerminate>>

(* One turn of the loop in User.isSubscriptionExist.  hasNext was settled   *)
(* when the last value was taken, so that an iterator at its end does not   *)
(* see a change; any other fails with the next value it is asked for.       *)
Look(c) ==
  /\ pc[c] = "look"
  /\ \/ /\ values[c].left = {}
        /\ Goto(c, "broadcast")
        /\ target' = [target EXCEPT ![c] = Null]
        /\ values' = [values EXCEPT ![c] = NoIterator]
        /\ UNCHANGED <<frame, resume, todo, stale, delivered, reply, headers, sock>>
     \/ values[c].left # {} /\ values[c].map = "changed" /\ Raise(c)
     \/ /\ values[c].map # "changed"
        /\ \E i \in values[c].left :
             IF values[c].map = "replaced" \/ subscriptions[target[c]][i] = DestOf(c)
             THEN Goto(c, "post") /\ values' = [values EXCEPT ![c] = NoIterator]
             ELSE values' = [values EXCEPT ![c].left = @ \ {i}] /\ UNCHANGED pc
        /\ UNCHANGED <<frame, resume, todo, target, stale, delivered, reply, headers, sock>>
  /\ UNCHANGED <<controller, shouldTerminate>>

(* Mutant: the loop ends with the first subscriber it finds.                *)
PostFirstOnly(c) ==
  /\ pc[c] = "post"
  /\ LET d == userToConnection[target[c]]
     IN \/ d = Null /\ Raise(c)
        \/ /\ d # Null
           /\ delivered' = [delivered EXCEPT ![c] = IF d \in connections THEN @ \cup {d} ELSE @]
           /\ target' = [target EXCEPT ![c] = Null]
           /\ todo' = [todo EXCEPT ![c] = {}]
           /\ Goto(c, "broadcast")
           /\ UNCHANGED <<frame, resume, values, stale, reply, headers, sock>>
  /\ UNCHANGED <<controller, shouldTerminate>>

(* Mutant: a handler that is gone raises.                                   *)
PostNeedsHandler(c) ==
  /\ pc[c] = "post"
  /\ LET d == userToConnection[target[c]]
     IN \/ d \notin connections /\ Raise(c)
        \/ /\ d \in connections
           /\ delivered' = [delivered EXCEPT ![c] = @ \cup {d}]
           /\ target' = [target EXCEPT ![c] = Null]
           /\ Goto(c, "broadcast")
           /\ UNCHANGED <<frame, resume, todo, values, stale, reply, headers, sock>>
  /\ UNCHANGED <<controller, shouldTerminate>>

(* send(userToConnection.get(user), msg): unboxing null raises; a handler   *)
(* that is gone is passed over.                                             *)
Post(c) ==
  /\ pc[c] = "post"
  /\ LET d == userToConnection[target[c]]
     IN \/ d = Null /\ Raise(c)
        \/ /\ d # Null
           /\ delivered' = [delivered EXCEPT ![c] = IF d \in connections THEN @ \cup {d} ELSE @]
           /\ target' = [target EXCEPT ![c] = Null]
           /\ Goto(c, "broadcast")
           /\ UNCHANGED <<frame, resume, todo, values, stale, reply, headers, sock>>
  /\ UNCHANGED <<controller, shouldTerminate>>

-----------------------------------------------------------------------------
(* SUBSCRIBE and UNSUBSCRIBE                                                *)

(* isChannelExist and channels.add: the channel is there before anyone is   *)
(* known to be logged in.                                                   *)
Subscribe(c) ==
  /\ pc[c] = "subscribe"
  /\ \/ Lines(c) < 2 /\ Raise(c) /\ UNCHANGED channels
     \/ /\ Lines(c) >= 2
        /\ channels' = channels \cup {DestOf(c)}
        /\ Continue(c, "addSubscription")
  /\ UNCHANGED <<connections, userToConnection, connectionToUser, password, subscriptions,
                 shouldTerminate>>

(* Mutant: the receipt is not sent.                                         *)
AddSubscriptionSilent(c) ==
  /\ pc[c] = "addSubscription"
  /\ \/ Me(c) = Null /\ Raise(c) /\ UNCHANGED subscriptions
     \/ /\ Me(c) # Null
        /\ subscriptions' = [subscriptions EXCEPT ![Me(c)][frame[c].sub] = DestOf(c)]
        /\ Continue(c, "clear")
  /\ UNCHANGED <<connections, userToConnection, connectionToUser, channels, password,
                 shouldTerminate>>

AddSubscription(c) ==
  /\ pc[c] = "addSubscription"
  /\ \/ Me(c) = Null /\ Raise(c) /\ UNCHANGED subscriptions
     \/ /\ Me(c) # Null
        /\ subscriptions' = [subscriptions EXCEPT ![Me(c)][frame[c].sub] = DestOf(c)]
        /\ values' = IF subscriptions[Me(c)][frame[c].sub] = Null THEN Changed(Me(c)) ELSE values
        /\ Goto(c, "reply")
        /\ UNCHANGED <<local, headers, sock>>
  /\ UNCHANGED <<connections, userToConnection, connectionToUser, channels, password,
                 shouldTerminate>>

(* isSubscriptionExist, then unsubscribeFromChannel, which asks the same    *)
(* question again and removes nothing.                                      *)
Unsubscribe(c) ==
  /\ pc[c] = "unsubscribe"
  /\ \/ (frame[c].hdrs = {} \/ Me(c) = Null) /\ Raise(c)
     \/ /\ frame[c].hdrs # {} /\ Me(c) # Null
        /\ Continue(c, IF subscriptions[Me(c)][frame[c].sub] # Null THEN "reply" ELSE "error")
  /\ UNCHANGED <<controller, shouldTerminate>>

(* CONNECTED, or a RECEIPT whose number is read from the last line.         *)
Reply(c) ==
  /\ pc[c] = "reply"
  /\ \/ ~Complete(c) /\ Raise(c)
     \/ /\ Complete(c)
        /\ Answer(c, IF frame[c].cmd = "CONNECT" THEN "CONNECTED" ELSE "RECEIPT", "clear")
  /\ UNCHANGED <<controller, shouldTerminate>>

(* headers.clear(), the last thing a branch of process() does.              *)
Clear(c) ==
  /\ pc[c] = "clear"
  /\ Return(c)
  /\ UNCHANGED <<controller, shouldTerminate>>

-----------------------------------------------------------------------------
(* The end of a connection.                                                 *)

(* The loop of the client's thread ends, or the selector thread has flushed *)
(* the handler's write queue.                                               *)
Close(c) ==
  /\ sock[c] = "open"
  /\ shouldTerminate[c]
  /\ Mode = "tpc" => pc[c] = "read"
  /\ sock' = [sock EXCEPT ![c] = "closed"]
  /\ UNCHANGED <<controller, shouldTerminate, headers, pc, local, values>>

(* The client is gone: end of stream, or a reset.  The socket is closed and *)
(* nobody calls disconnect().                                               *)
Eof(c) ==
  /\ sock[c] = "open"
  /\ Mode = "tpc" => pc[c] = "read"
  /\ sock' = [sock EXCEPT ![c] = "closed"]
  /\ UNCHANGED <<controller, shouldTerminate, headers, pc, local, values>>

Worker(c) ==
  \/ IsUserExist(c) \/ CreateUser(c) \/ PutUser(c) \/ IsUserIsLogged(c)
  \/ CheckPassword(c) \/ Logging(c) \/ Refuse(c)
  \/ Error(c) \/ Disconnect(c) \/ SignOut(c) \/ Bye(c)
  \/ IsChannelExist(c) \/ Broadcast(c) \/ Look(c) \/ Post(c)
  \/ Subscribe(c) \/ AddSubscription(c) \/ Unsubscribe(c) \/ Reply(c) \/ Clear(c)

Network(c) ==
  \/ Accept(c) \/ Eof(c)
  \/ \E f \in Frames : Receive(c, f) \/ ReceiveBroken(c, f)

Next == \E c \in Conns : Network(c) \/ Worker(c) \/ Close(c)

Spec == Init /\ [][Next]_vars

(* The worker's next call writes to a socket.  In the thread-per-client     *)
(* server the write blocks while the client at the other end does not read, *)
(* and it has no timeout; in the reactor it is an entry in a queue.  The    *)
(* worker's own handler is removed by itself alone.                         *)
Writing(c) ==
  /\ Mode = "tpc"
  /\ \/ pc[c] = "post"
     \/ pc[c] \in {"refuse", "error", "bye", "reply"} /\ c \in connections

(* A thread the machine runs goes on with the frame it has as long as it    *)
(* does not write to a client, and a client's thread that left its loop     *)
(* closes its socket.  Of the clients nothing is assumed: they may stay     *)
(* silent for ever, and never read what they are sent.                      *)
Fairness == \A c \in Conns : WF_vars(~Writing(c) /\ Worker(c)) /\ WF_vars(Close(c))
FairSpec == Spec /\ Fairness

-----------------------------------------------------------------------------
(* Properties.                                                              *)

(* Every variable has its type; a worker in the middle of a frame has one,  *)
(* and the user a broadcast is looking at is a real one.                    *)
TypeOK ==
  /\ connections \subseteq Conns
  /\ userToConnection \in [Users -> Conns \cup {Null}]
  /\ connectionToUser \in [Conns -> Users \cup {Null}]
  /\ channels \subseteq Channels \cup {Junk}
  /\ password \in [Users -> Passwords \cup {Null}]
  /\ subscriptions \in [Users -> [SubIds -> Channels \cup {Junk, Null}]]
  /\ sock \in [Conns -> {"none", "open", "closed"}]
  /\ shouldTerminate \in [Conns -> BOOLEAN]
  /\ headers \in [Conns -> SUBSET HeaderNames]
  /\ pc \in [Conns -> Labels]
  /\ frame \in [Conns -> Frames \cup {Null}]
  /\ resume \in [Conns -> {"read", "error", "subscribe", "unsubscribe"}]
  /\ todo \in [Conns -> SUBSET Users]
  /\ target \in [Conns -> Users \cup {Null}]
  /\ values \in [Conns -> Iterator]
  /\ stale \subseteq Conns
  /\ reply \in [Conns -> Answers]
  /\ delivered \in [Conns -> SUBSET Conns]
  /\ \A c \in Conns : pc[c] # "read" => frame[c] \in Frames
  /\ \A c \in Conns : pc[c] \in {"look", "post"} => target[c] \in Users

(* A connection that acts for a user is the connection the user's messages  *)
(* go to: nobody is logged in twice (StompMessagingProtocolImpl, the check  *)
(* isUserIsLogged before logging).                                          *)
OneSessionPerUser ==
  \A c \in Conns, u \in Users : connectionToUser[c] = u => userToConnection[u] = c

(* Only a user who is logged in holds subscriptions: whatever way a session *)
(* ends, disconnect() has cleared them, so a later login starts with none.  *)
SubscriptionsNeedSession ==
  \A u \in Users : subscriptions[u] # NoSubscriptions => userToConnection[u] # Null

(* A user's messages are routed to a connection only by a CONNECT frame     *)
(* that gave the account's passcode.                                        *)
LoginNeedsPassword ==
  [][\A c \in Conns, u \in Users :
       userToConnection'[u] = c /\ userToConnection[u] # c
         => frame[c].user = u /\ frame[c].pass = password[u]]_vars

(* The controller keeps the promise of Membership.                          *)
Promise == INSTANCE Membership WITH
  Sessions <- Conns, Channels <- Channels \cup {Junk},
  account <- password, session <- userToConnection,
  membership <- [u \in Users |-> {subscriptions[u][i] : i \in SubIds} \ {Null}]
KeepsPromise == Promise!Spec

(* A subscription is only ever made by a SUBSCRIBE frame that carries every *)
(* required header.  process() goes on to the body after the ERROR of a     *)
(* missing destination or id; only the forgotten login stops it.            *)
OnlyCompleteFramesSubscribe ==
  [][\A u \in Users, i \in SubIds :
       subscriptions'[u][i] \notin {Null, subscriptions[u][i]}
         => \E c \in Conns : /\ pc[c] = "addSubscription"
                             /\ Required[frame[c].cmd] \subseteq frame[c].hdrs]_vars

(* A worker that is done with a frame other than SEND has answered it, or   *)
(* its socket is closed: no client waits for a CONNECTED or a RECEIPT that  *)
(* cannot come.                                                             *)
AnsweredOrClosed ==
  [][\A c \in Conns :
       pc[c] # "read" /\ pc'[c] = "read" /\ frame[c].cmd # "SEND"
         => reply[c] # "none" \/ sock'[c] = "closed"]_vars

(* A worker gets through every frame, whatever the others do to the maps it *)
(* is iterating over, unless it stands for ever in a write to one client    *)
(* that does not read.                                                      *)
EveryFrameEnds == \A c \in Conns : []<>(pc[c] = "read") \/ <>[]Writing(c)

(* The connection of a client that was sent an ERROR is closed in the end.  *)
ErrorEndsConnection == \A c \in Conns : reply[c] = "ERROR" ~> sock[c] = "closed"

(* A client that has the RECEIPT of its DISCONNECT, which is sent before    *)
(* disconnect() runs, need only try again for its user to log in: whatever  *)
(* the others do, the user does not stay routed to the old connection.      *)
LogoutEnds ==
  \A c \in Conns, u \in Users :
    pc[c] = "disconnect" /\ reply[c] = "RECEIPT" /\ connectionToUser[c] = u
      ~> userToConnection[u] # c

(* What the README promises and the code does not do.                       *)

(* A client that has the RECEIPT of an UNSUBSCRIBE is unsubscribed          *)
(* (ConnectionController.unsubscribeFromChannel).                           *)
UnsubscribeLeaves ==
  [][\A c \in Conns :
       pc[c] = "reply" /\ frame[c].cmd = "UNSUBSCRIBE" /\ reply'[c] = "RECEIPT"
         => subscriptions'[Me(c)][frame[c].sub] = Null]_vars

(* A client that went away without a DISCONNECT frame does not stay logged  *)
(* in: its user can log in again.                                           *)
GhostLoginEnds ==
  \A c \in Conns, u \in Users :
    sock[c] = "closed" /\ userToConnection[u] = c ~> userToConnection[u] # c
=============================================================================

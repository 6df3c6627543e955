------------------------- MODULE StompSerialProofs -------------------------
(* What holds when one worker runs at a time: the reactor with one pool     *)
(* thread.  The login check of StompMessagingProtocolImpl reads the user    *)
(* and session maps in three calls and writes them in a fourth; without     *)
(* the assumption ~Parallel another worker comes in between, and the run    *)
(* violation_double_login shows the invariants below fail.                  *)
EXTENDS StompServerProofs

-----------------------------------------------------------------------------
(* The inductive invariant.                                                 *)

(* At most one worker is inside process().                                  *)
OneWorker ==
  \A c, d \in Conns : pc[c] # "read" /\ pc[d] # "read" => c = d

(* Nobody is logged in without an account.                                  *)
SessionsHaveAccounts ==
  \A u \in Users : password[u] = Null => userToConnection[u] = Null

(* What the login sequence has established when it reaches each call.       *)
LoginSequence ==
  \A c \in Conns :
    /\ pc[c] \in {"createUser", "putUser"} => password[Login(c)] = Null
    /\ pc[c] \in {"isUserIsLogged", "checkPassword", "logging"} => password[Login(c)] # Null
    /\ pc[c] \in {"checkPassword", "logging"} => userToConnection[Login(c)] = Null
    /\ pc[c] = "logging" => password[Login(c)] = frame[c].pass

(* disconnect() has emptied the subscriptions before it ends the session.   *)
LogoutSequence ==
  \A c \in Conns : pc[c] = "signOut" => Me(c) # Null /\ subscriptions[Me(c)] = NoSubscriptions

Sessions == OneSessionPerUser /\ SessionsHaveAccounts /\ SubscriptionsNeedSession

SerialInv == TypeOK /\ OneWorker /\ Sessions /\ LoginSequence /\ LogoutSequence

(* The calls LoginSequence and LogoutSequence say something about.          *)
Critical ==
  {"createUser", "putUser", "isUserIsLogged", "checkPassword", "logging", "signOut"}

-----------------------------------------------------------------------------
LEMMA InitSerialInv == Init => SerialInv
<1> SUFFICES ASSUME Init PROVE SerialInv
  OBVIOUS
<1>1. TypeOK
  BY InitTypeOK
<1>2. OneWorker /\ LoginSequence /\ LogoutSequence
  BY DEF Init, OneWorker, LoginSequence, LogoutSequence
<1>3. Sessions
  BY NullAssumption
  DEF Init, Sessions, OneSessionPerUser, SessionsHaveAccounts, SubscriptionsNeedSession
<1>4. QED
  BY <1>1, <1>2, <1>3 DEF SerialInv

(* A step of the only busy worker to a call that needs no fact.             *)
LEMMA QuietStep ==
  ASSUME SerialInv, TypeOK', NEW c \in Conns, \A d \in Conns \ {c} : pc[d] = "read",
         NEW l \in Labels \ Critical, pc' = [pc EXCEPT ![c] = l], Sessions'
  PROVE  SerialInv'
<1>1. \A d \in Conns : pc'[d] = IF d = c THEN l ELSE "read"
  BY DEF SerialInv, TypeOK
<1>2. OneWorker'
  BY <1>1 DEF OneWorker
<1>3. LoginSequence' /\ LogoutSequence'
  BY <1>1 DEF LoginSequence, LogoutSequence, Critical
<1>4. QED
  BY <1>2, <1>3 DEF SerialInv

LEMMA SameSessions ==
  ASSUME Sessions,
         UNCHANGED <<userToConnection, connectionToUser, password, subscriptions>>
  PROVE  Sessions'
BY DEF Sessions, OneSessionPerUser, SessionsHaveAccounts, SubscriptionsNeedSession

(* The step of a worker that leaves those maps alone and does not enter     *)
(* the login or the logout sequence.                                        *)
LEMMA QuietWorker ==
  ASSUME SerialInv, TypeOK', NEW c \in Conns, pc[c] # "read",
         NEW l \in Labels \ Critical, pc' = [pc EXCEPT ![c] = l],
         UNCHANGED <<userToConnection, connectionToUser, password, subscriptions>>
  PROVE  SerialInv'
<1>1. \A d \in Conns \ {c} : pc[d] = "read"
  BY DEF SerialInv, OneWorker
<1>2. QED
  BY <1>1, QuietStep, SameSessions DEF SerialInv

LEMMA RaiseQuiet ==
  ASSUME SerialInv, TypeOK', NEW c \in Conns, pc[c] # "read", Raise(c) \/ Return(c),
         UNCHANGED <<userToConnection, connectionToUser, password, subscriptions>>
  PROVE  SerialInv'
<1>1. pc' = [pc EXCEPT ![c] = "read"]
  BY DEF Raise, Return, Finish, Goto
<1>2. "read" \in Labels \ Critical
  BY DEF Labels, Critical
<1>3. QED
  BY <1>1, <1>2, QuietWorker

(* The step of a worker into the login or the logout sequence: the facts    *)
(* about the call it goes to are all there is to show.                      *)
LEMMA SequenceStep ==
  ASSUME SerialInv, TypeOK', NEW c \in Conns, pc[c] # "read",
         NEW l \in Critical, pc' = [pc EXCEPT ![c] = l], Sessions',
         l \in {"createUser", "putUser"} => password'[Login(c)'] = Null,
         l \in {"isUserIsLogged", "checkPassword", "logging"} => password'[Login(c)'] # Null,
         l \in {"checkPassword", "logging"} => userToConnection'[Login(c)'] = Null,
         l = "logging" => password'[Login(c)'] = frame'[c].pass,
         l = "signOut" => Me(c)' # Null /\ subscriptions'[Me(c)'] = NoSubscriptions
  PROVE  SerialInv'
<1>1. \A d \in Conns : pc'[d] = IF d = c THEN l ELSE "read"
  BY DEF SerialInv, OneWorker, TypeOK
<1>2. OneWorker'
  BY <1>1 DEF OneWorker
<1>3. LoginSequence'
  BY <1>1 DEF LoginSequence
<1>4. LogoutSequence'
  BY <1>1 DEF LogoutSequence
<1>5. QED
  BY <1>2, <1>3, <1>4 DEF SerialInv

-----------------------------------------------------------------------------
(* The steps of the worker, given that types are kept.                      *)

LEMMA PutUserSerial ==
  ASSUME SerialInv, TypeOK', NEW c \in Conns, PutUser(c)
  PROVE  SerialInv'
<1>1. /\ Login(c) \in Users /\ frame[c].pass \in Passwords /\ frame[c].pass # Null
      /\ password[Login(c)] = Null /\ userToConnection[Login(c)] = Null
      /\ subscriptions[Login(c)] = NoSubscriptions
  BY FrameFields, NullAssumption
  DEF PutUser, SerialInv, LoginSequence, Sessions, SessionsHaveAccounts,
      SubscriptionsNeedSession
<1>2. /\ password' = [password EXCEPT ![Login(c)] = frame[c].pass]
      /\ subscriptions' = [subscriptions EXCEPT ![Login(c)] = NoSubscriptions]
      /\ pc' = [pc EXCEPT ![c] = "logging"]
      /\ UNCHANGED <<userToConnection, connectionToUser, frame>>
  BY DEF PutUser, Goto, local
<1>3. Sessions'
  BY <1>1, <1>2
  DEF SerialInv, TypeOK, Sessions, OneSessionPerUser, SessionsHaveAccounts,
      SubscriptionsNeedSession, NoSubscriptions
<1>4. password'[Login(c)'] = frame'[c].pass /\ userToConnection'[Login(c)'] = Null
  BY <1>1, <1>2 DEF SerialInv, TypeOK, Login
<1>5. QED
  BY <1>1, <1>2, <1>3, <1>4, SequenceStep DEF PutUser, Critical

LEMMA LoggingSerial ==
  ASSUME SerialInv, TypeOK', NEW c \in Conns, Logging(c)
  PROVE  SerialInv'
<1>1. /\ Login(c) \in Users /\ password[Login(c)] # Null
      /\ userToConnection[Login(c)] = Null
  BY FrameFields DEF Logging, SerialInv, LoginSequence
<1>2. /\ connectionToUser' = [connectionToUser EXCEPT ![c] = Login(c)]
      /\ userToConnection' = [userToConnection EXCEPT ![Login(c)] = c]
      /\ pc' = [pc EXCEPT ![c] = "reply"]
      /\ UNCHANGED <<password, subscriptions>>
  BY DEF Logging, Goto
<1>3. c # Null
  BY NullAssumption
<1>4. OneSessionPerUser'
  <2> SUFFICES ASSUME NEW d \in Conns, NEW u \in Users, connectionToUser'[d] = u
               PROVE  userToConnection'[u] = d
    BY DEF OneSessionPerUser
  <2>1. CASE d = c
    BY <1>1, <1>2, <2>1 DEF SerialInv, TypeOK
  <2>2. CASE d # c
    <3>1. connectionToUser[d] = u /\ userToConnection[u] = d
      BY <1>2, <2>2 DEF SerialInv, TypeOK, Sessions, OneSessionPerUser
    <3>2. u # Login(c)
      BY <1>1, <3>1, NullAssumption
    <3>3. QED
      BY <1>2, <3>1, <3>2 DEF SerialInv, TypeOK
  <2>3. QED
    BY <2>1, <2>2
<1>5. SessionsHaveAccounts' /\ SubscriptionsNeedSession'
  BY <1>1, <1>2, <1>3
  DEF SerialInv, TypeOK, Sessions, SessionsHaveAccounts, SubscriptionsNeedSession,
      NoSubscriptions
<1>6. \A d \in Conns \ {c} : pc[d] = "read"
  BY DEF Logging, SerialInv, OneWorker
<1>7. "reply" \in Labels \ Critical
  BY DEF Labels, Critical
<1>8. QED
  BY <1>2, <1>4, <1>5, <1>6, <1>7, QuietStep DEF Sessions

LEMMA DisconnectSerial ==
  ASSUME SerialInv, TypeOK', NEW c \in Conns, Disconnect(c)
  PROVE  SerialInv'
<1>1. CASE Me(c) = Null /\ Raise(c) /\ UNCHANGED subscriptions
  BY <1>1, RaiseQuiet DEF Disconnect
<1>2. CASE /\ Me(c) # Null
           /\ subscriptions' = [subscriptions EXCEPT ![Me(c)] = NoSubscriptions]
           /\ Goto(c, "signOut")
  <2>1. Me(c) \in Users
    BY <1>2 DEF Me, SerialInv, TypeOK
  <2>2. /\ pc' = [pc EXCEPT ![c] = "signOut"]
        /\ UNCHANGED <<userToConnection, connectionToUser, password>>
    BY <1>2 DEF Disconnect, Goto
  <2>3. Sessions'
    BY <1>2, <2>1, <2>2
    DEF SerialInv, TypeOK, Sessions, OneSessionPerUser, SessionsHaveAccounts,
        SubscriptionsNeedSession, NoSubscriptions
  <2>4. Me(c)' # Null /\ subscriptions'[Me(c)'] = NoSubscriptions
    BY <1>2, <2>1, <2>2 DEF Me, SerialInv, TypeOK
  <2>5. "signOut" \in Critical \ {"createUser", "putUser", "isUserIsLogged",
                                  "checkPassword", "logging"}
    BY DEF Critical
  <2>6. QED
    BY <2>2, <2>3, <2>4, <2>5, SequenceStep DEF Disconnect
<1>3. QED
  BY <1>1, <1>2 DEF Disconnect

LEMMA SignOutSerial ==
  ASSUME SerialInv, TypeOK', NEW c \in Conns, SignOut(c)
  PROVE  SerialInv'
<1>1. /\ Me(c) \in Users /\ subscriptions[Me(c)] = NoSubscriptions
      /\ userToConnection[Me(c)] = c
  BY DEF SignOut, SerialInv, LogoutSequence, TypeOK, Me, Sessions, OneSessionPerUser
<1>2. /\ userToConnection' = [userToConnection EXCEPT ![Me(c)] = Null]
      /\ connectionToUser' = [connectionToUser EXCEPT ![c] = Null]
      /\ UNCHANGED <<password, subscriptions>>
  BY DEF SignOut
<1>3. OneSessionPerUser'
  <2> SUFFICES ASSUME NEW d \in Conns, NEW u \in Users, connectionToUser'[d] = u
               PROVE  userToConnection'[u] = d
    BY DEF OneSessionPerUser
  <2>1. d # c
    BY <1>2, NullAssumption DEF SerialInv, TypeOK
  <2>2. connectionToUser[d] = u /\ userToConnection[u] = d
    BY <1>2, <2>1 DEF SerialInv, TypeOK, Sessions, OneSessionPerUser
  <2>3. QED
    BY <1>1, <1>2, <2>1, <2>2 DEF SerialInv, TypeOK
<1>4. SessionsHaveAccounts'
  BY <1>1, <1>2 DEF SerialInv, TypeOK, Sessions, SessionsHaveAccounts
<1>5. SubscriptionsNeedSession'
  BY <1>1, <1>2 DEF SerialInv, TypeOK, Sessions, SubscriptionsNeedSession, NoSubscriptions
<1>6. \E l \in Labels \ Critical : pc' = [pc EXCEPT ![c] = l]
  BY DEF SignOut, Finish, Goto, SerialInv, TypeOK, Labels, Critical
<1>7. \A d \in Conns \ {c} : pc[d] = "read"
  BY DEF SignOut, SerialInv, OneWorker
<1>8. QED
  BY <1>3, <1>4, <1>5, <1>6, <1>7, QuietStep DEF Sessions

LEMMA AddSubscriptionSerial ==
  ASSUME SerialInv, TypeOK', NEW c \in Conns, AddSubscription(c)
  PROVE  SerialInv'
<1>1. CASE Me(c) = Null /\ Raise(c) /\ UNCHANGED subscriptions
  BY <1>1, RaiseQuiet DEF AddSubscription
<1>2. CASE /\ Me(c) # Null
           /\ subscriptions' = [subscriptions EXCEPT ![Me(c)][frame[c].sub] = DestOf(c)]
           /\ Goto(c, "reply")
  <2>1. Me(c) \in Users /\ userToConnection[Me(c)] # Null
    BY <1>2, NullAssumption DEF Me, SerialInv, TypeOK, Sessions, OneSessionPerUser
  <2>2. /\ pc' = [pc EXCEPT ![c] = "reply"]
        /\ UNCHANGED <<userToConnection, connectionToUser, password>>
    BY <1>2 DEF AddSubscription, Goto
  <2>3. \A u \in Users \ {Me(c)} : subscriptions'[u] = subscriptions[u]
    BY <1>2 DEF SerialInv, TypeOK
  <2>4. Sessions'
    BY <2>1, <2>2, <2>3
    DEF SerialInv, Sessions, OneSessionPerUser, SessionsHaveAccounts,
        SubscriptionsNeedSession, NoSubscriptions
  <2>5. \A d \in Conns \ {c} : pc[d] = "read"
    BY DEF AddSubscription, SerialInv, OneWorker
  <2>6. "reply" \in Labels \ Critical
    BY DEF Labels, Critical
  <2>7. QED
    BY <2>2, <2>4, <2>5, <2>6, QuietStep
<1>3. QED
  BY <1>1, <1>2 DEF AddSubscription

LEMMA LoginChecksSerial ==
  ASSUME SerialInv, TypeOK', NEW c \in Conns,
         IsUserExist(c) \/ CreateUser(c) \/ IsUserIsLogged(c) \/ CheckPassword(c)
  PROVE  SerialInv'
<1>1. UNCHANGED <<userToConnection, connectionToUser, password, subscriptions>>
  BY DEF IsUserExist, CreateUser, IsUserIsLogged, CheckPassword, controller
<1>2. Sessions'
  BY <1>1, SameSessions DEF SerialInv
<1>3. pc[c] # "read"
  BY DEF IsUserExist, CreateUser, IsUserIsLogged, CheckPassword
<1>4. CASE IsUserExist(c) /\ Raise(c)
  BY <1>1, <1>3, <1>4, RaiseQuiet
<1>5. ASSUME NEW l \in Labels, Continue(c, l), l \notin Critical
      PROVE  SerialInv'
  BY <1>1, <1>3, <1>5, QuietWorker DEF Continue, Goto
<1>6. ASSUME NEW l \in Critical \ {"signOut"}, Continue(c, l),
             l \in {"createUser", "putUser"} => password[Login(c)] = Null,
             l \in {"isUserIsLogged", "checkPassword", "logging"} => password[Login(c)] # Null,
             l \in {"checkPassword", "logging"} => userToConnection[Login(c)] = Null,
             l = "logging" => password[Login(c)] = frame[c].pass
      PROVE  SerialInv'
  <2>1. Login(c)' = Login(c) /\ UNCHANGED frame /\ pc' = [pc EXCEPT ![c] = l]
    BY <1>6 DEF Continue, local, Login, Goto
  <2>2. QED
    BY <1>1, <1>2, <1>3, <1>6, <2>1, SequenceStep
<1>7. CASE IsUserExist(c) /\ ~Raise(c)
  <2>1. CASE password[Login(c)] = Null
    BY <1>6, <1>7, <2>1 DEF IsUserExist, Critical
  <2>2. CASE password[Login(c)] # Null
    BY <1>6, <1>7, <2>2 DEF IsUserExist, Critical
  <2>3. QED
    BY <2>1, <2>2
<1>8. CASE CreateUser(c)
  <2>1. password[Login(c)] = Null
    BY <1>8 DEF CreateUser, SerialInv, LoginSequence
  <2>2. QED
    BY <1>6, <1>8, <2>1 DEF CreateUser, Critical
<1>9. CASE IsUserIsLogged(c)
  <2>1. password[Login(c)] # Null
    BY <1>9 DEF IsUserIsLogged, SerialInv, LoginSequence
  <2>2. CASE userToConnection[Login(c)] # Null
    BY <1>5, <1>9, <2>2 DEF IsUserIsLogged, Critical, Labels
  <2>3. CASE userToConnection[Login(c)] = Null
    BY <1>6, <1>9, <2>1, <2>3 DEF IsUserIsLogged, Critical
  <2>4. QED
    BY <2>2, <2>3
<1>10. CASE CheckPassword(c)
  <2>1. password[Login(c)] # Null /\ userToConnection[Login(c)] = Null
    BY <1>10 DEF CheckPassword, SerialInv, LoginSequence
  <2>2. CASE password[Login(c)] = frame[c].pass
    BY <1>6, <1>10, <2>1, <2>2 DEF CheckPassword, Critical
  <2>3. CASE password[Login(c)] # frame[c].pass
    BY <1>5, <1>10, <2>3 DEF CheckPassword, Critical, Labels
  <2>4. QED
    BY <2>2, <2>3
<1>11. QED
  BY <1>4, <1>7, <1>8, <1>9, <1>10

(* Every other call leaves accounts and sessions alone.                     *)
OtherCall(c) ==
  \/ Refuse(c) \/ Error(c) \/ Bye(c) \/ IsChannelExist(c) \/ Broadcast(c) \/ Look(c)
  \/ Post(c) \/ Subscribe(c) \/ Unsubscribe(c) \/ Reply(c) \/ Clear(c)

LEMMA OtherCallSame ==
  ASSUME NEW c \in Conns, OtherCall(c)
  PROVE  UNCHANGED <<userToConnection, connectionToUser, password, subscriptions>>
BY DEF OtherCall, Refuse, Error, Bye, IsChannelExist, Broadcast, Look, Post, Subscribe,
       Unsubscribe, Reply, Clear, controller

LEMMA OtherCallSerial ==
  ASSUME SerialInv, TypeOK', NEW c \in Conns, OtherCall(c)
  PROVE  SerialInv'
<1>1. UNCHANGED <<userToConnection, connectionToUser, password, subscriptions>>
  BY OtherCallSame
<1>2. pc[c] # "read"
  BY DEF OtherCall, Refuse, Error, Bye, IsChannelExist, Broadcast, Look, Post, Subscribe,
         Unsubscribe, Reply, Clear
<1>3. ASSUME NEW l \in {"read", "clear", "disconnect", "broadcast", "look", "post", "error",
                       "reply", "addSubscription"}, pc' = [pc EXCEPT ![c] = l]
      PROVE  SerialInv'
  BY <1>1, <1>2, <1>3, QuietWorker DEF Labels, Critical
<1>4. CASE Raise(c) \/ Return(c)
  BY <1>1, <1>2, <1>4, RaiseQuiet
<1>5. CASE Refuse(c) \/ Error(c) \/ Bye(c) \/ Reply(c) \/ Clear(c)
  BY <1>3, <1>4, <1>5 DEF Refuse, Error, Bye, Reply, Clear, Answer, Goto
<1>6. CASE IsChannelExist(c) \/ Subscribe(c) \/ Unsubscribe(c) \/ Post(c)
  BY <1>3, <1>4, <1>6 DEF IsChannelExist, Subscribe, Unsubscribe, Post, Continue, Goto
<1>7. CASE Broadcast(c)
  <2>1. ASSUME NEW u \in Users, Visit(c, u)
        PROVE  SerialInv'
    BY <1>3, <2>1 DEF Visit, Goto
  <2>2. QED
    BY <1>4, <1>7, <2>1 DEF Broadcast
<1>8. CASE Look(c)
  <2>1. CASE UNCHANGED pc
    <3>1. pc' = [pc EXCEPT ![c] = "look"]
      BY <1>8, <2>1 DEF Look, SerialInv, TypeOK
    <3>2. QED
      BY <1>3, <3>1
  <2>2. CASE ~UNCHANGED pc
    BY <1>3, <1>4, <1>8, <2>2 DEF Look, Goto
  <2>3. QED
    BY <2>1, <2>2
<1>9. QED
  BY <1>5, <1>6, <1>7, <1>8 DEF OtherCall

-----------------------------------------------------------------------------
(* The steps of the network.                                                *)

LEMMA ReceiveSerial ==
  ASSUME ~Parallel, SerialInv, TypeOK', NEW c \in Conns, NEW f \in Frames, Receive(c, f)
  PROVE  SerialInv'
<1>1. f.cmd \in Commands
  BY FramesAssumption DEF Frame
<1>2. \E l \in Labels \ Critical : pc' = [pc EXCEPT ![c] = l]
  BY <1>1, BodyEntry DEF Receive, Goto, Entries, Labels, Critical
<1>3. \A d \in Conns \ {c} : pc[d] = "read"
  BY DEF Receive, CanRead
<1>4. Sessions'
  BY SameSessions DEF SerialInv, Receive, controller
<1>5. QED
  BY <1>2, <1>3, <1>4, QuietStep

LEMMA NextSerial == ~Parallel /\ SerialInv /\ [Next]_vars => SerialInv'
<1> SUFFICES ASSUME ~Parallel, SerialInv, [Next]_vars PROVE SerialInv'
  OBVIOUS
<1>1. TypeOK'
  BY NextTypeOK DEF SerialInv
<1>2. ASSUME UNCHANGED <<userToConnection, connectionToUser, password, subscriptions, pc,
                         frame>>
      PROVE  SerialInv'
  <2>1. Sessions'
    BY <1>2, SameSessions DEF SerialInv
  <2>2. OneWorker' /\ LoginSequence' /\ LogoutSequence'
    BY <1>2 DEF SerialInv, OneWorker, LoginSequence, LogoutSequence, Login, Me
  <2>3. QED
    BY <1>1, <2>1, <2>2 DEF SerialInv
<1>3. ASSUME NEW c \in Conns, Network(c)
      PROVE  SerialInv'
  <2>1. CASE Accept(c) \/ Eof(c)
    BY <1>2, <2>1 DEF Accept, Eof, controller, local
  <2>2. ASSUME NEW f \in Frames, ReceiveBroken(c, f)
        PROVE  SerialInv'
    BY <1>2, <2>2 DEF ReceiveBroken, controller, local
  <2>3. QED
    BY <1>1, <1>3, <2>1, <2>2, ReceiveSerial DEF Network
<1>4. ASSUME NEW c \in Conns, Worker(c)
      PROVE  SerialInv'
  BY <1>1, <1>4, LoginChecksSerial, PutUserSerial, LoggingSerial, DisconnectSerial,
     SignOutSerial, AddSubscriptionSerial, OtherCallSerial
  DEF Worker, OtherCall
<1>5. ASSUME NEW c \in Conns, Close(c)
      PROVE  SerialInv'
  BY <1>2, <1>5 DEF Close, controller, local
<1>6. CASE UNCHANGED vars
  BY <1>2, <1>6 DEF vars, controller, local
<1>7. QED
  BY <1>3, <1>4, <1>5, <1>6 DEF Next

LEMMA SerialInvariant == ASSUME ~Parallel PROVE Spec => []SerialInv
BY InitSerialInv, NextSerial, PTL DEF Spec

-----------------------------------------------------------------------------
(* With one worker at a time, a user is logged in on one connection, and    *)
(* that is the one the user's messages are sent to.                         *)
THEOREM SerialOneSession == ASSUME ~Parallel PROVE Spec => []OneSessionPerUser
<1>1. SerialInv => OneSessionPerUser
  BY DEF SerialInv, Sessions
<1>2. QED
  BY <1>1, SerialInvariant, PTL

(* With one worker at a time, nobody keeps a subscription past the session  *)
(* it was made in.                                                          *)
THEOREM SerialSubscriptions == ASSUME ~Parallel PROVE Spec => []SubscriptionsNeedSession
<1>1. SerialInv => SubscriptionsNeedSession
  BY DEF SerialInv, Sessions
<1>2. QED
  BY <1>1, SerialInvariant, PTL

(* Only logging and signOut write the session map.                          *)
LEMMA SessionWriters ==
  ASSUME [Next]_vars
  PROVE  \/ UNCHANGED userToConnection
         \/ \E c \in Conns : Logging(c) \/ SignOut(c)
<1>1. ASSUME NEW c \in Conns, OtherCall(c) \/ Network(c) \/ Close(c)
      PROVE  UNCHANGED userToConnection
  BY <1>1, OtherCallSame DEF Network, Accept, Eof, Receive, ReceiveBroken, Close, controller
<1>2. ASSUME NEW c \in Conns,
             \/ IsUserExist(c) \/ CreateUser(c) \/ PutUser(c) \/ IsUserIsLogged(c)
             \/ CheckPassword(c) \/ Disconnect(c) \/ AddSubscription(c)
      PROVE  UNCHANGED userToConnection
  BY <1>2
  DEF IsUserExist, CreateUser, PutUser, IsUserIsLogged, CheckPassword, Disconnect,
      AddSubscription, controller
<1>3. CASE UNCHANGED vars
  BY <1>3 DEF vars, controller
<1>4. QED
  BY <1>1, <1>2, <1>3 DEF Next, Worker, OtherCall

(* With one worker at a time, only the account's passcode opens a session.  *)
THEOREM SerialPassword == ASSUME ~Parallel PROVE Spec => LoginNeedsPassword
<1> DEFINE Checked ==
      \A c \in Conns, u \in Users :
        userToConnection'[u] = c /\ userToConnection[u] # c
          => frame[c].user = u /\ frame[c].pass = password[u]
<1>1. SerialInv /\ [Next]_vars => Checked
  <2> SUFFICES ASSUME SerialInv, [Next]_vars, NEW c \in Conns, NEW u \in Users,
                      userToConnection'[u] = c, userToConnection[u] # c
               PROVE  frame[c].user = u /\ frame[c].pass = password[u]
    OBVIOUS
  <2>1. ASSUME NEW d \in Conns, Logging(d)
        PROVE  d = c /\ Login(d) = u
    BY <2>1 DEF Logging, SerialInv, TypeOK
  <2>2. ASSUME NEW d \in Conns, SignOut(d)
        PROVE  FALSE
    BY <2>2, NullAssumption DEF SignOut, SerialInv, TypeOK
  <2>3. Logging(c) /\ Login(c) = u
    BY <2>1, <2>2, SessionWriters
  <2>4. QED
    BY <2>3 DEF Logging, Login, SerialInv, LoginSequence
<1>2. QED
  BY <1>1, SerialInvariant, PTL DEF Spec, LoginNeedsPassword

-----------------------------------------------------------------------------
(* With one worker at a time, the server implements Membership: every step  *)
(* of the calls on the user, session and subscription maps is a step of the *)
(* promise, or changes nothing it speaks of.                                *)

(* The channels a user is a member of.                                      *)
Member == [u \in Users |-> {subscriptions[u][i] : i \in SubIds} \ {Null}]

LEMMA PromiseStutters ==
  ASSUME UNCHANGED <<userToConnection, password, subscriptions>>
  PROVE  UNCHANGED Promise!vars
BY DEF Promise!vars

LEMMA PromiseInit == Init => Promise!Init
<1> SUFFICES ASSUME Init PROVE Promise!Init
  OBVIOUS
<1>1. Member = [u \in Users |-> {}]
  BY DEF Init, Member, NoSubscriptions
<1>2. QED
  BY <1>1 DEF Init, Promise!Init, Member

LEMMA PutUserRegisters ==
  ASSUME SerialInv, NEW c \in Conns, PutUser(c)
  PROVE  \E u \in Users, p \in Passwords : Promise!Register(u, p)
<1>1. /\ Login(c) \in Users /\ frame[c].pass \in Passwords /\ password[Login(c)] = Null
      /\ subscriptions[Login(c)] = NoSubscriptions
  BY FrameFields
  DEF PutUser, SerialInv, LoginSequence, Sessions, SessionsHaveAccounts,
      SubscriptionsNeedSession
<1>2. UNCHANGED subscriptions
  BY <1>1 DEF PutUser, SerialInv, TypeOK
<1>3. Promise!Register(Login(c), frame[c].pass)
  BY <1>1, <1>2 DEF PutUser, Promise!Register
<1>4. QED
  BY <1>1, <1>3

LEMMA LoggingLogsIn ==
  ASSUME SerialInv, NEW c \in Conns, Logging(c)
  PROVE  \E u \in Users, s \in Conns : Promise!Login(u, s)
<1>1. /\ Login(c) \in Users /\ password[Login(c)] # Null
      /\ userToConnection[Login(c)] = Null
  BY FrameFields DEF Logging, SerialInv, LoginSequence
<1>2. Promise!Login(Login(c), c)
  BY <1>1 DEF Logging, Promise!Login
<1>3. QED
  BY <1>1, <1>2

LEMMA DisconnectLeaves ==
  ASSUME SerialInv, NEW c \in Conns, Disconnect(c), ~UNCHANGED subscriptions
  PROVE  \E u \in Users : Promise!LeaveAll(u)
<1>1. PICK u \in Users : u = Me(c)
  BY DEF Disconnect, Me, SerialInv, TypeOK
<1>2. /\ userToConnection[u] # Null
      /\ subscriptions' = [subscriptions EXCEPT ![u] = NoSubscriptions]
      /\ UNCHANGED <<password, userToConnection>>
  BY <1>1, NullAssumption DEF Disconnect, Me, SerialInv, Sessions, OneSessionPerUser
<1>3. Member' = [Member EXCEPT ![u] = {}]
  <2>1. subscriptions'[u] = NoSubscriptions
    BY <1>2 DEF SerialInv, TypeOK
  <2>2. Member'[u] = {}
    BY <2>1 DEF Member, NoSubscriptions
  <2>3. \A v \in Users \ {u} : Member'[v] = Member[v]
    BY <1>2 DEF Member, SerialInv, TypeOK
  <2>4. QED
    BY <2>2, <2>3 DEF Member
<1>4. Promise!LeaveAll(u)
  BY <1>2, <1>3 DEF Promise!LeaveAll, Member
<1>5. QED
  BY <1>4

LEMMA SignOutLogsOut ==
  ASSUME SerialInv, NEW c \in Conns, SignOut(c)
  PROVE  \E u \in Users : Promise!Logout(u)
<1>1. PICK u \in Users : u = Me(c)
  BY DEF SignOut, Me, SerialInv, TypeOK, LogoutSequence
<1>2. /\ userToConnection[u] # Null /\ subscriptions[u] = NoSubscriptions
      /\ userToConnection' = [userToConnection EXCEPT ![u] = Null]
      /\ UNCHANGED <<password, subscriptions>>
  BY <1>1, NullAssumption
  DEF SignOut, Me, SerialInv, LogoutSequence, Sessions, OneSessionPerUser
<1>3. Promise!Logout(u)
  BY <1>2 DEF Promise!Logout, NoSubscriptions
<1>4. QED
  BY <1>1, <1>3

LEMMA AddSubscriptionJoins ==
  ASSUME SerialInv, NEW c \in Conns, AddSubscription(c), ~UNCHANGED subscriptions
  PROVE  \E u \in Users, ch \in Channels \cup {Junk} : Promise!Join(u, ch)
<1>a. PICK u \in Users : u = Me(c)
  BY DEF AddSubscription, Me, SerialInv, TypeOK
<1>b. PICK n \in SubIds, ch \in Channels \cup {Junk} : n = frame[c].sub /\ ch = DestOf(c)
  BY FrameFields DEF AddSubscription, SerialInv
<1> DEFINE others == {subscriptions[u][i] : i \in SubIds \ {n}}
           left == Member[u] \ others
<1>1. /\ userToConnection[u] # Null
      /\ subscriptions' = [subscriptions EXCEPT ![u][n] = ch]
      /\ UNCHANGED <<password, userToConnection>>
  BY <1>a, <1>b, NullAssumption
  DEF AddSubscription, Me, SerialInv, Sessions, OneSessionPerUser
<1>2. ch # Null
  BY NullAssumption
<1>3. left \in SUBSET Member[u] /\ \A a, b \in left : a = b
  BY <1>1, <1>2 DEF Member
<1>4. Member'[u] = (Member[u] \ left) \cup {ch}
  <2>1. \A i \in SubIds : subscriptions'[u][i] = IF i = n THEN ch ELSE subscriptions[u][i]
    BY <1>1, <1>2 DEF SerialInv, TypeOK
  <2>2. Member'[u] = {subscriptions'[u][i] : i \in SubIds} \ {Null}
    BY <1>1 DEF Member
  <2>3. Member'[u] = (others \ {Null}) \cup {ch}
    BY <1>2, <2>1, <2>2
  <2>4. Member[u] \ left = others \ {Null}
    BY <1>1 DEF Member
  <2>5. QED
    BY <2>3, <2>4
<1>5. Member' = [Member EXCEPT ![u] = (@ \ left) \cup {ch}]
  <2>1. \A v \in Users \ {u} : Member'[v] = Member[v]
    BY <1>1 DEF Member, SerialInv, TypeOK
  <2>2. QED
    BY <1>1, <1>4, <2>1 DEF Member
<1>6. Promise!Join(u, ch)
  <2>1. PICK gone : gone = left
    OBVIOUS
  <2>2. /\ gone \in SUBSET Member[u] /\ \A a, b \in gone : a = b
        /\ Member' = [Member EXCEPT ![u] = (@ \ gone) \cup {ch}]
    BY <1>3, <1>5, <2>1
  <2>3. QED
    BY <1>1, <2>2 DEF Promise!Join, Member
<1>7. QED
  BY <1>6

LEMMA PromiseNext == SerialInv /\ [Next]_vars => [Promise!Next]_(Promise!vars)
<1> SUFFICES ASSUME SerialInv, [Next]_vars PROVE [Promise!Next]_(Promise!vars)
  OBVIOUS
<1>1. CASE UNCHANGED <<userToConnection, password, subscriptions>>
  BY <1>1, PromiseStutters
<1>2. ASSUME NEW c \in Conns, PutUser(c)
      PROVE  [Promise!Next]_(Promise!vars)
  BY <1>2, PutUserRegisters DEF Promise!Next
<1>3. ASSUME NEW c \in Conns, Logging(c)
      PROVE  [Promise!Next]_(Promise!vars)
  BY <1>3, LoggingLogsIn DEF Promise!Next
<1>4. ASSUME NEW c \in Conns, Disconnect(c)
      PROVE  [Promise!Next]_(Promise!vars)
  BY <1>1, <1>4, DisconnectLeaves DEF Promise!Next, Disconnect
<1>5. ASSUME NEW c \in Conns, SignOut(c)
      PROVE  [Promise!Next]_(Promise!vars)
  BY <1>5, SignOutLogsOut DEF Promise!Next
<1>6. ASSUME NEW c \in Conns, AddSubscription(c)
      PROVE  [Promise!Next]_(Promise!vars)
  BY <1>1, <1>6, AddSubscriptionJoins DEF Promise!Next, AddSubscription
<1>7. ASSUME NEW c \in Conns,
             \/ IsUserExist(c) \/ CreateUser(c) \/ IsUserIsLogged(c) \/ CheckPassword(c)
             \/ OtherCall(c) \/ Network(c) \/ Close(c)
      PROVE  UNCHANGED <<userToConnection, password, subscriptions>>
  BY <1>7, OtherCallSame
  DEF IsUserExist, CreateUser, IsUserIsLogged, CheckPassword, Network, Accept, Eof, Receive,
      ReceiveBroken, Close, controller
<1>8. CASE UNCHANGED vars
  BY <1>1, <1>8 DEF vars, controller
<1>9. QED
  BY <1>1, <1>2, <1>3, <1>4, <1>5, <1>6, <1>7, <1>8 DEF Next, Worker, OtherCall

(* With one worker at a time, the server implements Membership.             *)
THEOREM SerialRefinement == ASSUME ~Parallel PROVE Spec => KeepsPromise
BY PromiseInit, PromiseNext, SerialInvariant, PTL DEF Spec, KeepsPromise, Promise!Spec
=============================================================================

------------------------ MODULE StompBroadcastProofs ------------------------
(* What ConnectionController.send(channel, msg) delivers, for any number of *)
(* workers that log users in and out, subscribe them and close connections  *)
(* while it goes through the logged-in users.                               *)
EXTENDS StompBroadcast, StompServerProofs

Sending(c) == pc[c] \in {"broadcast", "look", "post"}

(* Whoever is owed the MESSAGE is ahead of the iterator over the users, is  *)
(* the one looked at or about to be sent to, or has been reached; of the    *)
(* one looked at, the subscription is still ahead of the second iterator.   *)
OwedIsAhead(c) ==
  \A e \in owed[c] :
    \/ e[1] \in todo[c]
    \/ pc[c] = "post" /\ target[c] = e[1]
    \/ /\ pc[c] = "look" /\ target[c] = e[1]
       /\ e[2] \in values[c].left /\ values[c].map # "replaced"
    \/ e[3] \in delivered[c]

(* A user ahead of a valid iterator is logged in: a logout since would have *)
(* invalidated it.                                                          *)
AheadIsLoggedIn(c) ==
  c \notin stale =>
    /\ \A u \in todo[c] : userToConnection[u] # Null
    /\ pc[c] \in {"look", "post"} => userToConnection[target[c]] # Null

SendOf(c) ==
  Sending(c) => owed[c] \subseteq Entitled(c) /\ OwedIsAhead(c) /\ AheadIsLoggedIn(c)

SendInv ==
  /\ TypeOK
  /\ \A c \in Conns : pc[c] # "look" => values[c] = NoIterator
  /\ \A c \in Conns : SendOf(c)

(* What the two properties say of a step of one worker.                     *)
AllReached(c) == \A e \in owed[c] : e[3] \in delivered[c]

Reaches(c) ==
  Sending(c) /\ pc'[c] = "read"
  /\ (\/ c \notin stale /\ values[c].map # "changed"
      \/ pc[c] = "broadcast" /\ todo[c] = {})
    => AllReached(c)

LEMMA InitSendInv == BroadcastInit => SendInv
<1> SUFFICES ASSUME BroadcastInit PROVE SendInv
  OBVIOUS
<1>1. \A c \in Conns : SendOf(c) /\ values[c] = NoIterator
  BY DEF BroadcastInit, Init, SendOf, Sending
<1>2. QED
  BY <1>1, InitTypeOK DEF SendInv, BroadcastInit

(* A session that ends under an iterator invalidates it; no other step ends *)
(* one, or makes an invalid iterator valid.                                 *)
LEMMA SessionsUnderIterator ==
  ASSUME TypeOK, NEW c \in Conns, Network(c) \/ Worker(c) \/ Close(c),
         NEW d \in Conns \ {c}, Sending(d), d \notin stale'
  PROVE  /\ d \notin stale
         /\ \A u \in Users : userToConnection[u] # Null => userToConnection'[u] # Null
<1>1. d \in Iterating
  BY DEF Sending, Iterating
<1>2. CASE Logging(c)
  BY <1>1, <1>2, NullAssumption DEF Logging, TypeOK
<1>3. CASE SignOut(c)
  BY <1>1, <1>3 DEF SignOut, TypeOK
<1>4. CASE ~Logging(c) /\ ~SignOut(c)
  <2>1. UNCHANGED userToConnection
    BY <1>4
    DEF Network, Accept, Eof, Receive, ReceiveBroken, Close, controller, Worker, IsUserExist,
        CreateUser, PutUser, IsUserIsLogged, CheckPassword, Refuse, Error, Disconnect, Bye,
        IsChannelExist, Broadcast, Look, Post, Subscribe, AddSubscription, Unsubscribe, Reply, Clear
  <2>2. stale \ {c} \subseteq stale'
    BY <1>4
    DEF Network, Accept, Eof, Receive, ReceiveBroken, Close, local, Worker, IsUserExist,
        CreateUser, PutUser, IsUserIsLogged, CheckPassword, Refuse, Error, Disconnect, Bye,
        IsChannelExist, Broadcast, Visit, Look, Post, Subscribe, AddSubscription, Unsubscribe,
        Reply, Clear, Raise, Return, Continue, Answer
  <2>3. QED
    BY <2>1, <2>2
<1>5. QED
  BY <1>2, <1>3, <1>4

(* What the others do to the map under the second iterator leaves it the    *)
(* ids it has yet to come to, or takes the user's subscriptions away.       *)
LEMMA ValuesUnderIterator ==
  ASSUME TypeOK, NEW c \in Conns, Network(c) \/ Worker(c) \/ Close(c),
         NEW d \in Conns \ {c}
  PROVE  \/ values'[d] = values[d]
         \/ /\ pc[d] = "look"
            /\ values'[d].left = values[d].left /\ values'[d].map = "changed"
         \/ pc[d] = "look" /\ subscriptions'[target[d]] = NoSubscriptions
<1> DEFINE Goal == \/ values'[d] = values[d]
                   \/ /\ pc[d] = "look"
                      /\ values'[d].left = values[d].left /\ values'[d].map = "changed"
                   \/ pc[d] = "look" /\ subscriptions'[target[d]] = NoSubscriptions
<1>1. ASSUME NEW u, values' = Changed(u)
      PROVE  Goal
  BY <1>1 DEF Changed, Looking, TypeOK, Iterator
<1>2. CASE PutUser(c)
  <2>1. Login(c) \in Users
    BY <1>2, FrameFields DEF PutUser
  <2>2. CASE d \in Looking(Login(c))
    <3>1. target[d] = Login(c) /\ pc[d] = "look"
      BY <2>2 DEF Looking
    <3>2. subscriptions'[Login(c)] = NoSubscriptions
      BY <1>2, <2>1 DEF PutUser, TypeOK
    <3>3. QED
      BY <3>1, <3>2
  <2>3. CASE d \notin Looking(Login(c))
    BY <1>2, <2>3 DEF PutUser, Replaced
  <2>4. QED
    BY <2>2, <2>3
<1>3. CASE Disconnect(c) \/ AddSubscription(c)
  <2>1. \/ values' = values
        \/ values' = Changed(Me(c))
        \/ Raise(c)
    BY <1>3 DEF Disconnect, AddSubscription
  <2>2. QED
    BY <1>1, <2>1 DEF Raise, Finish, TypeOK
<1>4. CASE ~PutUser(c) /\ ~Disconnect(c) /\ ~AddSubscription(c) /\ Worker(c)
  BY <1>4
  DEF Worker, IsUserExist, CreateUser, IsUserIsLogged, CheckPassword, Logging, Refuse, Error,
      SignOut, Bye, IsChannelExist, Broadcast, Visit, Look, Post, Subscribe, Unsubscribe, Reply,
      Clear, Raise, Return, Finish, Continue, Answer, TypeOK
<1>5. CASE Network(c) \/ Close(c)
  BY <1>5 DEF Network, Accept, Eof, Receive, ReceiveBroken, Close
<1>6. QED
  BY <1>2, <1>3, <1>4, <1>5

(* A worker that is not looking has no second iterator.                     *)
LEMMA IteratorNeedsLook ==
  ASSUME TypeOK, NEW c \in Conns, Network(c) \/ Worker(c) \/ Close(c),
         \A d \in Conns : pc[d] # "look" => values[d] = NoIterator
  PROVE  (\A d \in Conns : pc[d] # "look" => values[d] = NoIterator)'
<1>1. ASSUME NEW d \in Conns \ {c}
      PROVE  (pc[d] # "look" => values[d] = NoIterator)'
  BY <1>1, OthersUntouched, ValuesUnderIterator DEF Untouched
<1>2. (pc[c] # "look" => values[c] = NoIterator)'
  <2>1. CASE Raise(c) \/ Finish(c)
    BY <2>1 DEF Raise, Finish, TypeOK
  <2>2. CASE /\ UNCHANGED values
             /\ pc[c] # "look" \/ UNCHANGED pc
    BY <2>2
  <2>3. CASE PutUser(c)
    BY <2>3 DEF PutUser, Replaced, Looking
  <2>4. CASE Disconnect(c) \/ AddSubscription(c)
    <3>1. c \notin Looking(Me(c)) /\ pc[c] # "look"
      BY <2>4 DEF Looking, Disconnect, AddSubscription
    <3>2. Raise(c) \/ values'[c] = values[c]
      BY <2>4, <3>1 DEF Disconnect, AddSubscription, Changed
    <3>3. QED
      BY <2>1, <3>1, <3>2
  <2>5. CASE Look(c) \/ \E u \in Users : Visit(c, u)
    BY <2>1, <2>5 DEF Look, Visit, Goto, TypeOK
  <2>6. CASE ~PutUser(c) /\ ~Disconnect(c) /\ ~AddSubscription(c) /\ ~Look(c)
             /\ ~(\E u \in Users : Visit(c, u)) /\ Worker(c)
    <3>1. pc[c] # "look"
      BY <2>6
      DEF Worker, IsUserExist, CreateUser, IsUserIsLogged, CheckPassword, Logging, Refuse, Error,
          SignOut, Bye, IsChannelExist, Broadcast, Post, Subscribe, Unsubscribe, Reply, Clear
    <3>2. UNCHANGED values \/ Raise(c) \/ Finish(c)
      BY <2>6
      DEF Worker, IsUserExist, CreateUser, IsUserIsLogged, CheckPassword, Logging, Refuse, Error,
          SignOut, Bye, IsChannelExist, Broadcast, Post, Subscribe, Unsubscribe, Reply, Clear,
          Return, Continue, Answer
    <3>3. QED
      BY <2>1, <2>2, <3>1, <3>2
  <2>7. CASE Network(c) \/ Close(c)
    BY <2>2, <2>7 DEF Network, Accept, Eof, Receive, ReceiveBroken, CanRead, Close
  <2>8. QED
    BY <2>3, <2>4, <2>5, <2>6, <2>7
<1>3. QED
  BY <1>1, <1>2

LEMMA OthersSend ==
  ASSUME SendInv, BroadcastNext, NEW c \in Conns, Network(c) \/ Worker(c) \/ Close(c),
         NEW d \in Conns \ {c}
  PROVE  SendOf(d)' /\ Reaches(d)
<1>1. Untouched(d)
  BY OthersUntouched DEF SendInv
<1>2. Reaches(d)
  BY <1>1 DEF Untouched, Reaches, Sending
<1>3. ASSUME Sending(d)
      PROVE  owed'[d] \subseteq Entitled(d)' /\ OwedIsAhead(d)' /\ AheadIsLoggedIn(d)'
  <2>1. owed'[d] \subseteq owed[d] /\ owed'[d] \subseteq Entitled(d)'
    BY <1>1, <1>3 DEF BroadcastNext, Untouched, Sending
  <2>2. ASSUME NEW e \in owed'[d], pc[d] = "look", target[d] = e[1],
               e[2] \in values[d].left, values[d].map # "replaced"
        PROVE  e[2] \in values'[d].left /\ values'[d].map # "replaced"
    <3>1. e \in Users \X SubIds \X Conns /\ subscriptions'[e[1]][e[2]] = DestOf(d)'
      BY <2>1 DEF Entitled
    <3>2. frame'[d] = frame[d] /\ pc[d] # "read"
      BY <1>1, <2>2 DEF Untouched
    <3>3. DestOf(d)' # Null
      BY <3>2, FrameFields, NullAssumption DEF SendInv, DestOf
    <3>4. subscriptions'[target[d]] # NoSubscriptions
      BY <2>2, <3>1, <3>3 DEF NoSubscriptions
    <3>5. QED
      BY <2>2, <3>4, ValuesUnderIterator DEF SendInv
  <2>3. OwedIsAhead(d)'
    BY <1>1, <1>3, <2>1, <2>2 DEF SendInv, SendOf, OwedIsAhead, Untouched
  <2>4. pc[d] \in {"look", "post"} => target[d] \in Users
    BY DEF SendInv, TypeOK
  <2>5. todo[d] \subseteq Users
    BY DEF SendInv, TypeOK
  <2>6. AheadIsLoggedIn(d)'
    BY <1>1, <1>3, <2>4, <2>5, SessionsUnderIterator
    DEF SendInv, SendOf, AheadIsLoggedIn, Untouched
  <2>7. QED
    BY <2>1, <2>3, <2>6
<1>4. QED
  BY <1>1, <1>2, <1>3 DEF SendOf, Untouched, Sending

(* The iterator is made: everybody it is owed to is ahead of it.            *)
LEMMA SendStarts ==
  ASSUME SendInv, TypeOK', BroadcastNext, NEW c \in Conns, IsChannelExist(c)
  PROVE  SendOf(c)'
<1>1. CASE pc'[c] # "broadcast"
  <2>1. pc'[c] \in {"read", "error"}
    BY <1>1 DEF IsChannelExist, Raise, Finish, Continue, Goto, SendInv, TypeOK
  <2>2. QED
    BY <2>1 DEF SendOf, Sending
<1>2. CASE pc'[c] = "broadcast"
  <2>1. pc[c] = "isChannelExist" /\ UNCHANGED controller
    BY DEF IsChannelExist
  <2>2. todo' = [todo EXCEPT ![c] = {u \in Users : userToConnection[u] # Null}]
    BY <1>2 DEF IsChannelExist, Raise, Finish, Continue, Goto, SendInv, TypeOK
  <2>3. todo'[c] = {u \in Users : userToConnection'[u] # Null}
    BY <2>1, <2>2 DEF SendInv, TypeOK, controller
  <2>4. owed'[c] = Entitled(c)'
    BY <1>2, <2>1 DEF BroadcastNext
  <2>5. OwedIsAhead(c)'
    BY <2>3, <2>4, NullAssumption DEF OwedIsAhead, Entitled
  <2>6. AheadIsLoggedIn(c)'
    BY <1>2, <2>3 DEF AheadIsLoggedIn
  <2>7. QED
    BY <2>4, <2>5, <2>6 DEF SendOf
<1>3. QED
  BY <1>1, <1>2

LEMMA BroadcastSends ==
  ASSUME SendInv, TypeOK', BroadcastNext, NEW c \in Conns, Broadcast(c)
  PROVE  SendOf(c)' /\ Reaches(c)
<1>1. pc[c] = "broadcast" /\ UNCHANGED controller /\ SendOf(c) /\ Sending(c)
  BY DEF Broadcast, SendInv, Sending
<1>2. CASE (todo[c] = {} /\ Return(c)) \/ (c \in stale /\ todo[c] # {} /\ Raise(c))
  <2>1. pc'[c] = "read"
    BY <1>2 DEF Return, Raise, Finish, Goto, SendInv, TypeOK
  <2>2. todo[c] = {} \/ (c \in stale /\ todo[c] # {})
    BY <1>2
  <2>3. todo[c] = {} => AllReached(c)
    BY <1>1 DEF SendOf, OwedIsAhead, AllReached
  <2>4. QED
    BY <1>1, <2>1, <2>2, <2>3 DEF SendOf, Sending, Reaches
<1>3. ASSUME NEW u \in Users, Visit(c, u), c \notin stale
      PROVE  SendOf(c)' /\ Reaches(c)
  <2>1. /\ todo'[c] = todo[c] \ {u} /\ UNCHANGED <<delivered, stale, frame>>
        /\ target'[c] = u /\ pc'[c] = "look"
        /\ values'[c].left = {i \in SubIds : subscriptions[u][i] # Null}
        /\ values'[c].map = values[c].map
    BY <1>3 DEF Visit, Goto, SendInv, TypeOK, Iterator
  <2>2. owed'[c] = owed[c] \cap Entitled(c)'
    BY <1>1, <2>1 DEF BroadcastNext
  <2>3. userToConnection' = userToConnection /\ subscriptions' = subscriptions
    BY <1>1 DEF controller
  <2>4. \A e \in owed'[c] : e[1] = u => e[2] \in values'[c].left
    <3>1. DestOf(c)' # Null
      BY <1>1, <2>1, FrameFields, NullAssumption DEF SendInv, DestOf
    <3>2. QED
      BY <2>1, <2>2, <2>3, <3>1 DEF Entitled
  <2>5. values[c].map # "replaced"
    BY <1>1 DEF SendInv, NoIterator
  <2>6. OwedIsAhead(c)'
    BY <1>1, <2>1, <2>2, <2>4, <2>5 DEF SendOf, OwedIsAhead
  <2>7. AheadIsLoggedIn(c)'
    BY <1>1, <1>3, <2>1, <2>3 DEF SendOf, AheadIsLoggedIn, Visit
  <2>8. QED
    BY <2>1, <2>2, <2>6, <2>7 DEF SendOf, Reaches
<1>4. QED
  BY <1>2, <1>3 DEF Broadcast

LEMMA LookSends ==
  ASSUME SendInv, TypeOK', BroadcastNext, NEW c \in Conns, Look(c)
  PROVE  SendOf(c)' /\ Reaches(c)
<1>1. /\ pc[c] = "look" /\ UNCHANGED controller /\ SendOf(c) /\ Sending(c)
      /\ target[c] \in Users
  BY DEF Look, SendInv, Sending, TypeOK
<1>2. CASE values[c].left # {} /\ values[c].map = "changed" /\ Raise(c)
  <2>1. pc'[c] = "read" /\ values'[c] = NoIterator
    BY <1>2 DEF Raise, Finish, Goto, SendInv, TypeOK
  <2>2. QED
    BY <1>1, <1>2, <2>1 DEF SendOf, Sending, Reaches
<1>3. CASE UNCHANGED <<frame, todo, stale, delivered>> /\ pc'[c] \in {"broadcast", "look", "post"}
  <2>1. owed'[c] = owed[c] \cap Entitled(c)'
    BY <1>1, <1>3 DEF BroadcastNext
  <2>2. \A e \in owed'[c] : subscriptions[e[1]][e[2]] = DestOf(c)
    BY <1>1, <1>3, <2>1 DEF Entitled, DestOf, controller
  <2>3. /\ \A e \in owed'[c] :
             \/ e[1] \in todo[c]
             \/ target[c] = e[1] /\ e[2] \in values[c].left /\ values[c].map # "replaced"
             \/ e[3] \in delivered[c]
        /\ c \notin stale => \A u \in todo[c] \cup {target[c]} : userToConnection'[u] # Null
    BY <1>1, <2>1 DEF SendOf, OwedIsAhead, AheadIsLoggedIn, controller
  <2>4. CASE values[c].left = {} /\ pc'[c] = "broadcast" /\ values'[c] = NoIterator
    BY <1>3, <2>1, <2>3, <2>4 DEF SendOf, OwedIsAhead, AheadIsLoggedIn, Reaches
  <2>5. CASE pc'[c] = "post" /\ values'[c] = NoIterator /\ target' = target
    BY <1>3, <2>1, <2>3, <2>5 DEF SendOf, OwedIsAhead, AheadIsLoggedIn, Reaches
  <2>6. ASSUME NEW i \in values[c].left,
               ~(values[c].map = "replaced" \/ subscriptions[target[c]][i] = DestOf(c)),
               values'[c].left = values[c].left \ {i}, values'[c].map = values[c].map,
               pc'[c] = "look", target' = target
        PROVE  SendOf(c)' /\ Reaches(c)
    <3>1. OwedIsAhead(c)'
      BY <1>3, <2>2, <2>3, <2>6 DEF OwedIsAhead
    <3>2. AheadIsLoggedIn(c)'
      BY <1>3, <2>3, <2>6 DEF AheadIsLoggedIn
    <3>3. QED
      BY <2>1, <2>6, <3>1, <3>2 DEF SendOf, Reaches
  <2>7. CASE /\ values[c].left = {} /\ Goto(c, "broadcast")
             /\ values' = [values EXCEPT ![c] = NoIterator]
    BY <2>4, <2>7 DEF Goto, SendInv, TypeOK
  <2>8. ASSUME NEW i \in values[c].left, target' = target,
               IF values[c].map = "replaced" \/ subscriptions[target[c]][i] = DestOf(c)
               THEN Goto(c, "post") /\ values' = [values EXCEPT ![c] = NoIterator]
               ELSE values' = [values EXCEPT ![c].left = @ \ {i}] /\ UNCHANGED pc
        PROVE  SendOf(c)' /\ Reaches(c)
    <3>1. CASE values[c].map = "replaced" \/ subscriptions[target[c]][i] = DestOf(c)
      BY <2>5, <2>8, <3>1 DEF Goto, SendInv, TypeOK
    <3>2. CASE ~(values[c].map = "replaced" \/ subscriptions[target[c]][i] = DestOf(c))
      <4>1. values' = [values EXCEPT ![c].left = @ \ {i}] /\ UNCHANGED pc
        BY <2>8, <3>2
      <4>2. values[c] \in Iterator /\ values \in [Conns -> Iterator]
        BY DEF SendInv, TypeOK
      <4>3. values'[c].left = values[c].left \ {i} /\ values'[c].map = values[c].map
        BY <4>1, <4>2 DEF Iterator
      <4>4. QED
        BY <1>1, <2>6, <2>8, <3>2, <4>1, <4>3
    <3>3. QED
      BY <3>1, <3>2
  <2>9. CASE values[c].left # {} /\ values[c].map = "changed" /\ Raise(c)
    BY <1>2, <2>9
  <2>10. QED
    BY <2>7, <2>8, <2>9 DEF Look
<1>4. CASE ~(values[c].left # {} /\ values[c].map = "changed" /\ Raise(c))
  BY <1>1, <1>3, <1>4 DEF Look, Goto, SendInv, TypeOK
<1>5. QED
  BY <1>2, <1>4

LEMMA PostSends ==
  ASSUME SendInv, TypeOK', BroadcastNext, NEW c \in Conns, Post(c)
  PROVE  SendOf(c)' /\ Reaches(c)
<1> DEFINE e == userToConnection[target[c]]
<1>1. /\ pc[c] = "post" /\ UNCHANGED controller /\ SendOf(c) /\ Sending(c)
      /\ target[c] \in Users
  BY DEF Post, SendInv, Sending, TypeOK
<1>2. CASE e = Null
  <2>1. pc'[c] = "read" /\ c \in stale
    BY <1>1, <1>2 DEF Post, Raise, Finish, Goto, SendInv, TypeOK, SendOf, AheadIsLoggedIn
  <2>2. QED
    BY <1>1, <2>1 DEF SendOf, Sending, Reaches
<1>3. CASE e # Null
  <2>1. /\ delivered' = [delivered EXCEPT ![c] = IF e \in connections THEN @ \cup {e} ELSE @]
        /\ pc'[c] = "broadcast" /\ UNCHANGED <<todo, stale, values>>
    BY <1>1, <1>3 DEF Post, Goto, SendInv, TypeOK
  <2>2. delivered'[c] = IF e \in connections THEN delivered[c] \cup {e} ELSE delivered[c]
    BY <2>1 DEF SendInv, TypeOK
  <2>3. owed'[c] \subseteq owed[c] /\ owed'[c] \subseteq Entitled(c)'
    BY <1>1, <2>1 DEF BroadcastNext
  <2>4. userToConnection' = userToConnection /\ connections' = connections
    BY <1>1 DEF controller
  <2>5. \A o \in owed'[c] : o[1] = target[c] => o[3] \in delivered'[c]
    BY <2>2, <2>3, <2>4 DEF Entitled
  <2>6. OwedIsAhead(c)'
    BY <1>1, <2>1, <2>2, <2>3, <2>5 DEF SendOf, OwedIsAhead
  <2>7. AheadIsLoggedIn(c)'
    BY <1>1, <2>1, <2>4 DEF SendOf, AheadIsLoggedIn
  <2>8. QED
    BY <1>1, <2>1, <2>3, <2>6, <2>7 DEF SendOf, Reaches
<1>4. QED
  BY <1>2, <1>3

(* No other step begins or goes on with a broadcast.                        *)
LEMMA OtherSteps ==
  ASSUME SendInv, TypeOK', BroadcastNext, NEW c \in Conns,
         Network(c) \/ Worker(c) \/ Close(c),
         ~IsChannelExist(c), ~Broadcast(c), ~Look(c), ~Post(c)
  PROVE  SendOf(c)' /\ Reaches(c)
<1>1. CASE Accept(c) \/ Eof(c) \/ Close(c) \/ (\E f \in Frames : ReceiveBroken(c, f))
  <2>1. /\ UNCHANGED <<pc, todo, target, values, stale, delivered, userToConnection>>
        /\ Sending(c) => owed'[c] = owed[c] \cap Entitled(c)'
    BY <1>1
    DEF Accept, Eof, Close, ReceiveBroken, controller, local, BroadcastNext, Sending
  <2>2. QED
    BY <2>1
    DEF SendInv, SendOf, Sending, OwedIsAhead, AheadIsLoggedIn, Reaches
<1>2. CASE (Worker(c) \/ \E f \in Frames : Receive(c, f)) /\ ~Sending(c)
  <2>1. ASSUME NEW f \in Frames, Receive(c, f)
        PROVE  ~Sending(c)'
    <3>1. f.cmd \in Commands
      BY FramesAssumption DEF Frame
    <3>2. pc'[c] \in Entries \cup {"refuse", "error"}
      BY <2>1, <3>1, BodyEntry DEF Receive, Goto, SendInv, TypeOK
    <3>3. QED
      BY <3>2 DEF Sending, Entries
  <2>2. ASSUME Worker(c)
        PROVE  ~Sending(c)'
    <3>1. resume[c] \in {"read", "error", "subscribe", "unsubscribe"}
      BY DEF SendInv, TypeOK
    <3>2. QED
      BY <2>2, <3>1
      DEF Worker, IsUserExist, CreateUser, PutUser, IsUserIsLogged, CheckPassword, Logging,
          Refuse, Error, Disconnect, SignOut, Bye, Subscribe, AddSubscription, Unsubscribe,
          Reply, Clear, Raise, Return, Finish, Continue, Answer, Goto, SendInv, TypeOK, Sending
  <2>3. QED
    BY <1>2, <2>1, <2>2 DEF SendOf, Reaches
<1>3. CASE (Worker(c) \/ \E f \in Frames : Receive(c, f)) /\ Sending(c)
  BY <1>3
  DEF Sending, Worker, IsUserExist, CreateUser, PutUser, IsUserIsLogged, CheckPassword, Logging,
      Refuse, Error, Disconnect, SignOut, Bye, Subscribe, AddSubscription, Unsubscribe, Reply,
      Clear, Receive, CanRead
<1>4. QED
  BY <1>1, <1>2, <1>3 DEF Network

LEMMA NextSend ==
  SendInv /\ [BroadcastNext]_<<vars, owed>> => SendInv' /\ \A c \in Conns : Reaches(c)
<1> SUFFICES ASSUME SendInv, [BroadcastNext]_<<vars, owed>>
             PROVE  SendInv' /\ \A c \in Conns : Reaches(c)
  OBVIOUS
<1>1. TypeOK'
  BY NextTypeOK DEF SendInv, BroadcastNext
<1>2. CASE BroadcastNext
  <2>1. PICK c \in Conns : Network(c) \/ Worker(c) \/ Close(c)
    BY <1>2 DEF BroadcastNext, Next
  <2>2. SendOf(c)' /\ Reaches(c)
    <3>1. IsChannelExist(c) => Reaches(c)
      BY DEF IsChannelExist, Reaches, Sending
    <3>2. QED
      BY <1>1, <1>2, <2>1, <3>1, SendStarts, BroadcastSends, LookSends, PostSends,
         OtherSteps
  <2>3. \A d \in Conns \ {c} : SendOf(d)' /\ Reaches(d)
    BY <1>2, <2>1, OthersSend
  <2>4. QED
    BY <1>1, <2>1, <2>2, <2>3, IteratorNeedsLook DEF SendInv
<1>3. CASE UNCHANGED <<vars, owed>>
  BY <1>1, <1>3
  DEF vars, controller, local, SendInv, SendOf, Sending, Entitled, DestOf, OwedIsAhead,
      AheadIsLoggedIn, Reaches
<1>4. QED
  BY <1>2, <1>3

(* A SEND whose loop ran to its end has reached all it was owed to, for any *)
(* number of workers, users and channels.                                   *)
THEOREM CompletedReachesAll == BroadcastSpec => CompletedBroadcastReachesAll
<1> DEFINE Completed ==
      \A c \in Conns :
        pc[c] = "broadcast" /\ pc'[c] = "read" /\ todo[c] = {}
          => \A e \in owed[c] : e[3] \in delivered[c]
<1>1. SendInv /\ [BroadcastNext]_<<vars, owed>> => SendInv' /\ Completed
  BY NextSend DEF Reaches, Sending, AllReached
<1>2. QED
  BY <1>1, InitSendInv, PTL DEF BroadcastSpec, CompletedBroadcastReachesAll

(* A SEND is given up with somebody still owed its MESSAGE only when the    *)
(* map of sessions, or the subscriptions of the user it was looking at,     *)
(* were changed under its iterator.                                         *)
THEOREM GivenUpByChange == BroadcastSpec => GivenUpOnlyByChange
<1> DEFINE GivenUp ==
      \A c \in Conns :
        pc[c] \in {"broadcast", "look", "post"} /\ pc'[c] = "read"
        /\ c \notin stale /\ values[c].map # "changed"
          => \A e \in owed[c] : e[3] \in delivered[c]
<1>1. SendInv /\ [BroadcastNext]_<<vars, owed>> => SendInv' /\ GivenUp
  BY NextSend DEF Reaches, Sending, AllReached
<1>2. QED
  BY <1>1, InitSendInv, PTL DEF BroadcastSpec, GivenUpOnlyByChange
=============================================================================

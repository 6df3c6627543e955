------------------------- MODULE StompServerProofs -------------------------
(* Theorems about StompServer, for every set of connections, users, frames  *)
(* and channels.                                                            *)
EXTENDS StompServer, TLAPS

-----------------------------------------------------------------------------
(* The tables of process().                                                 *)

(* The calls a command's body starts with; none of them is inside the       *)
(* login sequence.                                                          *)
Entries ==
  {"isUserExist", "isChannelExist", "subscribe", "unsubscribe", "bye", "error"}

(* Every command has an entry point, and one only CONNECT has.              *)
LEMMA BodyEntry ==
  ASSUME NEW cmd \in Commands
  PROVE  /\ Body[cmd] \in Entries
         /\ cmd = "SUBSCRIBE" => Body[cmd] = "subscribe"
         /\ cmd = "UNSUBSCRIBE" => Body[cmd] = "unsubscribe"
BY DEF Commands, Body, Entries

(* After disconnect(), process() goes on only in the branches that do not   *)
(* return after a fault.                                                    *)
LEMMA ResumeLabel ==
  ASSUME NEW f \in Frame, NEW missing
  PROVE  ResumeAfter(f, missing) \in {"read", "error", "subscribe", "unsubscribe"}
<1>1. f.cmd \in Commands
  BY DEF Frame
<1>2. QED
  BY <1>1, BodyEntry DEF ResumeAfter

-----------------------------------------------------------------------------
(* Type correctness.                                                        *)

LEMMA InitTypeOK == Init => TypeOK
BY NullAssumption DEF Init, TypeOK, NoSubscriptions, Labels, Answers, Iterator, NoIterator

LEMMA AcceptTypeOK ==
  ASSUME TypeOK, NEW c \in Conns, Accept(c)
  PROVE  TypeOK'
BY DEF TypeOK, Accept, local

LEMMA ReceiveTypeOK ==
  ASSUME TypeOK, NEW c \in Conns, NEW f \in Frames, Receive(c, f)
  PROVE  TypeOK'
<1> DEFINE missing == Required[f.cmd] \ Parsed(c, f)
<1>1. f \in Frame /\ f.cmd \in Commands /\ f.hdrs \in SUBSET HeaderNames
  BY FramesAssumption DEF Frame
<1>2. Parsed(c, f) \in SUBSET HeaderNames
  BY <1>1 DEF Parsed, TypeOK
<1>3. ResumeAfter(f, missing) \in {"read", "error", "subscribe", "unsubscribe"}
  BY <1>1, ResumeLabel
<1>4. Body[f.cmd] \in Labels \ {"look", "post", "read"}
  BY <1>1, BodyEntry DEF Entries, Labels
<1>5. \E l \in Labels \ {"look", "post", "read"} : pc' = [pc EXCEPT ![c] = l]
  BY <1>4 DEF Receive, Goto, Labels
<1>6. QED
  BY <1>2, <1>3, <1>5 DEF TypeOK, Receive, controller

(* What a worker reads from the frame it has in hand.                        *)
LEMMA FrameFields ==
  ASSUME TypeOK, NEW c \in Conns, pc[c] # "read"
  PROVE  /\ frame[c] \in Frame
         /\ Login(c) \in Users
         /\ frame[c].pass \in Passwords
         /\ frame[c].sub \in SubIds
         /\ DestOf(c) \in Channels \cup {Junk}
BY FramesAssumption DEF TypeOK, Frame, Login, DestOf

(* The ways a step ends keep the worker's own variables typed.              *)
LEMMA RaiseTypeOK ==
  ASSUME TypeOK, NEW c \in Conns, Raise(c), UNCHANGED <<controller, shouldTerminate>>
  PROVE  TypeOK'
BY DEF TypeOK, Raise, Finish, Goto, controller, Labels, Answers, Iterator, NoIterator

LEMMA FinishTyped ==
  ASSUME TypeOK, NEW c \in Conns, Finish(c)
  PROVE  /\ pc' \in [Conns -> Labels] /\ frame' \in [Conns -> Frames \cup {Null}]
         /\ resume' \in [Conns -> {"read", "error", "subscribe", "unsubscribe"}]
         /\ todo' \in [Conns -> SUBSET Users] /\ target' \in [Conns -> Users \cup {Null}]
         /\ reply' \in [Conns -> Answers] /\ delivered' \in [Conns -> SUBSET Conns]
         /\ values' \in [Conns -> Iterator]
         /\ \A d \in Conns : pc'[d] # "read" => frame'[d] \in Frames
         /\ \A d \in Conns : pc'[d] \in {"look", "post"} => target'[d] \in Users
BY DEF TypeOK, Finish, Goto, Labels, Answers, Iterator, NoIterator

LEMMA ContinueTypeOK ==
  ASSUME TypeOK, NEW c \in Conns, NEW l \in Labels \ {"look", "post"},
         Continue(c, l), pc[c] # "read",
         UNCHANGED <<controller, shouldTerminate>>
  PROVE  TypeOK'
BY DEF TypeOK, Continue, Goto, controller, local

(* So do the changes of a map others iterate over.                          *)
LEMMA ValuesTyped ==
  ASSUME TypeOK, NEW u \in Users
  PROVE  /\ Changed(u) \in [Conns -> Iterator]
         /\ Replaced(u) \in [Conns -> Iterator]
BY DEF TypeOK, Changed, Replaced, Iterator

LEMMA WorkerTypeOK ==
  ASSUME TypeOK, NEW c \in Conns, Worker(c)
  PROVE  TypeOK'
<1>1. CASE IsUserExist(c)
  BY <1>1, RaiseTypeOK, ContinueTypeOK DEF IsUserExist, Labels
<1>2. CASE CreateUser(c)
  BY <1>2, ContinueTypeOK DEF CreateUser, Labels
<1>3. CASE PutUser(c)
  <2>1. Login(c) \in Users /\ frame[c].pass \in Passwords
    BY <1>3, FrameFields DEF PutUser
  <2>2. values' \in [Conns -> Iterator]
    BY <1>3, <2>1, ValuesTyped DEF PutUser
  <2>3. QED
    BY <1>3, <2>1, <2>2 DEF PutUser, TypeOK, Goto, local, Labels, NoSubscriptions
<1>4. CASE IsUserIsLogged(c)
  BY <1>4, ContinueTypeOK DEF IsUserIsLogged, Labels
<1>5. CASE CheckPassword(c)
  BY <1>5, ContinueTypeOK DEF CheckPassword, Labels
<1>6. CASE Logging(c)
  BY <1>6, FramesAssumption DEF Logging, TypeOK, Goto, Labels, Login, Frame, Iterating
<1>7. CASE Refuse(c)
  BY <1>7 DEF Refuse, TypeOK, Answer, Goto, Labels, Answers
<1>8. CASE Error(c)
  BY <1>8 DEF Error, TypeOK, Answer, Goto, Labels, Answers, controller
<1>9. CASE Disconnect(c)
  <2>1. CASE Me(c) = Null /\ Raise(c) /\ UNCHANGED subscriptions
    BY <1>9, <2>1, RaiseTypeOK DEF Disconnect, controller
  <2>2. CASE /\ Me(c) # Null
             /\ subscriptions' = [subscriptions EXCEPT ![Me(c)] = NoSubscriptions]
             /\ values' = Changed(Me(c)) /\ Goto(c, "signOut")
             /\ UNCHANGED <<local, headers, sock>>
    <3>1. subscriptions' \in [Users -> [SubIds -> Channels \cup {Junk, Null}]]
      BY <2>2 DEF TypeOK, NoSubscriptions
    <3>2. Me(c) \in Users
      BY <2>2 DEF Me, TypeOK
    <3>3. values' \in [Conns -> Iterator]
      BY <2>2, <3>2, ValuesTyped
    <3>4. QED
      BY <1>9, <2>2, <3>1, <3>3 DEF Disconnect, TypeOK, Goto, local, Labels
  <2>3. QED
    BY <1>9, <2>1, <2>2 DEF Disconnect
<1>10. CASE SignOut(c)
  <2>1. /\ connections' \subseteq Conns
        /\ userToConnection' \in [Users -> Conns \cup {Null}]
        /\ connectionToUser' \in [Conns -> Users \cup {Null}]
        /\ shouldTerminate' \in [Conns -> BOOLEAN]
        /\ stale' \subseteq Conns
    BY <1>10 DEF SignOut, TypeOK, Iterating
  <2>2. CASE resume[c] = "read"
    <3>1. Finish(c) /\ headers' \in [Conns -> SUBSET HeaderNames]
      BY <1>10, <2>2 DEF SignOut, TypeOK
    <3>2. QED
      BY <1>10, <2>1, <3>1, FinishTyped DEF SignOut, TypeOK
  <2>3. CASE resume[c] # "read"
    <3>1. resume[c] \in Labels \ {"look", "post"}
      BY DEF TypeOK, Labels
    <3>2. /\ pc' = [pc EXCEPT ![c] = resume[c]]
          /\ UNCHANGED <<headers, frame, resume, todo, target, values, delivered, reply,
                         channels, password, subscriptions, sock>>
      BY <1>10, <2>3 DEF SignOut, Goto
    <3>3. QED
      BY <1>10, <2>1, <3>1, <3>2 DEF SignOut, TypeOK
  <2>4. QED
    BY <2>2, <2>3
<1>11. CASE Bye(c)
  BY <1>11, RaiseTypeOK DEF Bye, TypeOK, Answer, Goto, Labels, Answers, controller
<1>12. CASE IsChannelExist(c)
  <2>1. pc[c] = "isChannelExist" /\ UNCHANGED <<controller, shouldTerminate>>
    BY <1>12 DEF IsChannelExist
  <2>2. CASE Raise(c) \/ Continue(c, "error")
    BY <2>1, <2>2, RaiseTypeOK, ContinueTypeOK DEF Labels
  <2>3. CASE /\ Goto(c, "broadcast")
             /\ todo' = [todo EXCEPT ![c] = {u \in Users : userToConnection[u] # Null}]
             /\ UNCHANGED <<frame, resume, target, values, stale, delivered, reply, headers, sock>>
    BY <2>1, <2>3 DEF TypeOK, Goto, Labels, controller
  <2>4. QED
    BY <1>12, <2>2, <2>3 DEF IsChannelExist
<1>13. CASE Broadcast(c)
  <2>1. CASE Return(c)
    BY <1>13, <2>1, FinishTyped DEF Broadcast, Return, TypeOK, controller
  <2>2. CASE Raise(c)
    BY <1>13, <2>2, RaiseTypeOK DEF Broadcast
  <2>3. ASSUME NEW u \in Users, Visit(c, u)
        PROVE  TypeOK'
    <3>1. pc[c] = "broadcast" /\ UNCHANGED <<controller, shouldTerminate>>
      BY <1>13 DEF Broadcast
    <3>2. todo' \in [Conns -> SUBSET Users]
      BY <2>3 DEF Visit, TypeOK
    <3>3. values' \in [Conns -> Iterator]
      BY <2>3 DEF Visit, TypeOK, Iterator
    <3>4. QED
      BY <2>3, <3>1, <3>2, <3>3 DEF Visit, Goto, TypeOK, Labels, controller
  <2>4. QED
    BY <1>13, <2>1, <2>2, <2>3 DEF Broadcast
<1>14. CASE Post(c)
  <2>1. CASE Raise(c)
    BY <1>14, <2>1, RaiseTypeOK DEF Post
  <2>2. CASE ~Raise(c)
    <3>1. pc[c] = "post" /\ target[c] \in Users
      BY <1>14 DEF Post, TypeOK
    <3>2. PICK d \in Conns : delivered' = [delivered EXCEPT ![c] =
                                            IF d \in connections THEN @ \cup {d} ELSE @]
      BY <1>14, <2>2, <3>1 DEF Post, TypeOK
    <3>3. delivered' \in [Conns -> SUBSET Conns]
      BY <3>2 DEF TypeOK
    <3>4. /\ target' = [target EXCEPT ![c] = Null]
          /\ pc' = [pc EXCEPT ![c] = "broadcast"]
          /\ UNCHANGED <<controller, shouldTerminate, frame, resume, todo, values, stale, reply,
                         headers, sock>>
      BY <1>14, <2>2 DEF Post, Goto
    <3>5. QED
      BY <3>1, <3>3, <3>4 DEF TypeOK, Labels, controller
  <2>3. QED
    BY <2>1, <2>2
<1>15. CASE Subscribe(c)
  <2>1. DestOf(c) \in Channels \cup {Junk}
    BY <1>15, FrameFields DEF Subscribe
  <2>2. CASE Raise(c) /\ UNCHANGED channels
    BY <1>15, <2>2, RaiseTypeOK DEF Subscribe, controller
  <2>3. CASE channels' = channels \cup {DestOf(c)} /\ Continue(c, "addSubscription")
    BY <1>15, <2>1, <2>3 DEF Subscribe, TypeOK, Continue, Goto, local, Labels
  <2>4. QED
    BY <1>15, <2>2, <2>3 DEF Subscribe
<1>16. CASE AddSubscription(c)
  <2>1. CASE Me(c) = Null /\ Raise(c) /\ UNCHANGED subscriptions
    BY <1>16, <2>1, RaiseTypeOK DEF AddSubscription, controller
  <2>2. CASE /\ Me(c) # Null
             /\ subscriptions' = [subscriptions EXCEPT ![Me(c)][frame[c].sub] = DestOf(c)]
             /\ values' = IF subscriptions[Me(c)][frame[c].sub] = Null
                          THEN Changed(Me(c)) ELSE values
             /\ Goto(c, "reply") /\ UNCHANGED <<local, headers, sock>>
    <3>1. Me(c) \in Users /\ frame[c].sub \in SubIds /\ DestOf(c) \in Channels \cup {Junk}
      BY <1>16, <2>2, FrameFields DEF AddSubscription, Me, TypeOK
    <3>2. subscriptions' \in [Users -> [SubIds -> Channels \cup {Junk, Null}]]
      BY <2>2, <3>1 DEF TypeOK
    <3>3. values' \in [Conns -> Iterator]
      BY <2>2, <3>1, ValuesTyped DEF TypeOK
    <3>4. QED
      BY <1>16, <2>2, <3>2, <3>3 DEF AddSubscription, TypeOK, Goto, local, Labels
  <2>3. QED
    BY <1>16, <2>1, <2>2 DEF AddSubscription
<1>17. CASE Unsubscribe(c)
  BY <1>17, RaiseTypeOK, ContinueTypeOK DEF Unsubscribe, Labels
<1>18. CASE Reply(c)
  BY <1>18, RaiseTypeOK DEF Reply, TypeOK, Answer, Goto, Labels, Answers, controller
<1>19. CASE Clear(c)
  BY <1>19, FinishTyped DEF Clear, Return, TypeOK, controller
<1>20. CASE Look(c)
  <2>1. pc[c] = "look" /\ UNCHANGED <<controller, shouldTerminate>>
    BY <1>20 DEF Look
  <2>2. CASE Raise(c)
    BY <2>1, <2>2, RaiseTypeOK
  <2>3. CASE /\ Goto(c, "broadcast")
             /\ target' = [target EXCEPT ![c] = Null]
             /\ values' = [values EXCEPT ![c] = NoIterator]
             /\ UNCHANGED <<frame, resume, todo, stale, delivered, reply, headers, sock>>
    BY <2>1, <2>3 DEF TypeOK, Goto, Labels, controller, Iterator, NoIterator
  <2>4. CASE /\ Goto(c, "post") \/ UNCHANGED pc
             /\ values' \in [Conns -> Iterator]
             /\ UNCHANGED <<frame, resume, todo, target, stale, delivered, reply, headers, sock>>
    BY <2>1, <2>4 DEF TypeOK, Goto, Labels, controller
  <2>5. values[c] \in Iterator /\ NoIterator \in Iterator
    BY DEF TypeOK, Iterator, NoIterator
  <2>6. \A i : [values EXCEPT ![c].left = @ \ {i}] \in [Conns -> Iterator]
    BY <2>5 DEF TypeOK, Iterator
  <2>7. [values EXCEPT ![c] = NoIterator] \in [Conns -> Iterator]
    BY <2>5 DEF TypeOK
  <2>8. QED
    BY <1>20, <2>2, <2>3, <2>4, <2>6, <2>7 DEF Look
<1>21. QED
  BY <1>1, <1>2, <1>3, <1>4, <1>5, <1>6, <1>7, <1>8, <1>9, <1>10, <1>11, <1>12, <1>13,
     <1>14, <1>15, <1>16, <1>17, <1>18, <1>19, <1>20 DEF Worker

LEMMA NextTypeOK == TypeOK /\ [Next]_vars => TypeOK'
<1> SUFFICES ASSUME TypeOK, [Next]_vars PROVE TypeOK'
  OBVIOUS
<1>1. ASSUME NEW c \in Conns, NEW f \in Frames, ReceiveBroken(c, f)
      PROVE  TypeOK'
  BY <1>1, FramesAssumption DEF ReceiveBroken, TypeOK, Parsed, controller, local, Frame
<1>2. ASSUME NEW c \in Conns, Eof(c) \/ Close(c)
      PROVE  TypeOK'
  BY <1>2 DEF Eof, Close, TypeOK, controller, local
<1>3. CASE UNCHANGED vars
  BY <1>3 DEF vars, TypeOK, controller, local
<1>4. QED
  BY <1>1, <1>2, <1>3, AcceptTypeOK, ReceiveTypeOK, WorkerTypeOK DEF Next, Network

(* Every variable keeps its type, whatever the workers interleave.          *)
THEOREM TypeCorrect == Spec => []TypeOK
BY InitTypeOK, NextTypeOK, PTL DEF Spec

-----------------------------------------------------------------------------
(* The thread-per-client server, with any number of workers at a time:      *)
(* process() goes on to the body of SUBSCRIBE after the ERROR of a missing  *)
(* header, and still no such frame makes a subscription.                    *)

(* A frame's checks see the headers of that frame only: the exception that  *)
(* would leave some behind has closed the socket.                           *)
FreshHeaders ==
  \A c \in Conns :
    /\ pc[c] = "read" /\ sock[c] # "closed" => headers[c] = {}
    /\ pc[c] # "read" /\ frame[c].cmd = "UNKNOWN" => headers[c] = {}

(* The body of SUBSCRIBE is reached with all its headers, or by a worker    *)
(* whose login the ERROR has just taken away.                               *)
BodyGuard ==
  \A c \in Conns :
    /\ resume[c] = "subscribe" /\ pc[c] # "read" => frame[c].cmd = "SUBSCRIBE"
    /\ pc[c] \in {"subscribe", "addSubscription"} =>
         /\ frame[c].cmd = "SUBSCRIBE"
         /\ Required["SUBSCRIBE"] \subseteq frame[c].hdrs \/ Me(c) = Null

FrameInv == TypeOK /\ FreshHeaders /\ BodyGuard

LEMMA InitFrameInv == Init => FrameInv
<1> SUFFICES ASSUME Init PROVE FrameInv
  OBVIOUS
<1>1. FreshHeaders /\ BodyGuard
  BY DEF Init, FreshHeaders, BodyGuard
<1>2. QED
  BY <1>1, InitTypeOK DEF FrameInv

(* What the invariant says of one worker.                                   *)
GuardOf(c) ==
  /\ pc[c] = "read" /\ sock[c] # "closed" => headers[c] = {}
  /\ pc[c] # "read" /\ frame[c].cmd = "UNKNOWN" => headers[c] = {}
  /\ resume[c] = "subscribe" /\ pc[c] # "read" => frame[c].cmd = "SUBSCRIBE"
  /\ pc[c] \in {"subscribe", "addSubscription"} =>
       /\ frame[c].cmd = "SUBSCRIBE"
       /\ Required["SUBSCRIBE"] \subseteq frame[c].hdrs \/ Me(c) = Null

(* A step that touches the variables of one worker only.                    *)
LEMMA OneWorkerStep ==
  ASSUME FrameInv, TypeOK', NEW c \in Conns,
         \A d \in Conns \ {c} :
           /\ pc'[d] = pc[d] /\ sock'[d] = sock[d] /\ headers'[d] = headers[d]
           /\ frame'[d] = frame[d] /\ resume'[d] = resume[d]
           /\ connectionToUser'[d] = connectionToUser[d],
         GuardOf(c)'
  PROVE  FrameInv'
BY DEF FrameInv, FreshHeaders, BodyGuard, GuardOf, Me

LEMMA RaiseFrame ==
  ASSUME Mode = "tpc", FrameInv, TypeOK', NEW c \in Conns, Raise(c), UNCHANGED connectionToUser
  PROVE  FrameInv'
<1>1. GuardOf(c)'
  BY DEF Raise, Finish, Goto, GuardOf, FrameInv, TypeOK
<1>2. QED
  BY <1>1, OneWorkerStep DEF Raise, Finish, Goto, FrameInv, TypeOK

LEMMA ReturnFrame ==
  ASSUME FrameInv, TypeOK', NEW c \in Conns, pc[c] # "read", Finish(c),
         headers' = [headers EXCEPT ![c] = IF frame[c].cmd = "UNKNOWN" THEN @ ELSE {}],
         UNCHANGED sock, \A d \in Conns \ {c} : connectionToUser'[d] = connectionToUser[d]
  PROVE  FrameInv'
<1>1. GuardOf(c)'
  BY DEF Finish, Goto, GuardOf, FrameInv, TypeOK, FreshHeaders
<1>2. QED
  BY <1>1, OneWorkerStep DEF Finish, Goto, FrameInv, TypeOK

(* A step to a call outside the body of SUBSCRIBE.                          *)
LEMMA MoveFrame ==
  ASSUME FrameInv, TypeOK', NEW c \in Conns, pc[c] # "read",
         NEW l \in Labels \ {"read", "subscribe", "addSubscription"},
         pc' = [pc EXCEPT ![c] = l], UNCHANGED <<sock, headers, frame, resume>>,
         \A d \in Conns \ {c} : connectionToUser'[d] = connectionToUser[d]
  PROVE  FrameInv'
<1>1. GuardOf(c)'
  BY DEF GuardOf, FrameInv, TypeOK, FreshHeaders, BodyGuard
<1>2. QED
  BY <1>1, OneWorkerStep DEF FrameInv, TypeOK

LEMMA ReceiveFrame ==
  ASSUME Mode = "tpc", FrameInv, TypeOK', NEW c \in Conns, NEW f \in Frames, Receive(c, f)
  PROVE  FrameInv'
<1> DEFINE missing == Required[f.cmd] \ Parsed(c, f)
<1>1. f.cmd \in Commands
  BY FramesAssumption DEF Frame
<1>2. headers[c] = {} /\ pc[c] = "read"
  BY DEF Receive, CanRead, FrameInv, FreshHeaders
<1>3. /\ pc' = [pc EXCEPT ![c] = IF missing = {} THEN Body[f.cmd]
                               ELSE IF f.cmd = "CONNECT" THEN "refuse" ELSE "error"]
      /\ resume' = [resume EXCEPT ![c] = ResumeAfter(f, missing)]
      /\ headers' = [headers EXCEPT ![c] = Parsed(c, f)]
      /\ frame' = [frame EXCEPT ![c] = f]
      /\ UNCHANGED <<sock, connectionToUser>>
  BY DEF Receive, Goto, controller
<1>4. frame'[c] = f /\ headers'[c] = Parsed(c, f) /\ resume'[c] = ResumeAfter(f, missing)
  BY <1>3 DEF FrameInv, TypeOK
<1>5. pc'[c] = IF missing = {} THEN Body[f.cmd]
               ELSE IF f.cmd = "CONNECT" THEN "refuse" ELSE "error"
  BY <1>3 DEF FrameInv, TypeOK
<1>6. f.cmd = "UNKNOWN" => headers'[c] = {}
  BY <1>2, <1>4 DEF Parsed
<1>7. Body[f.cmd] \in Entries /\ (Body[f.cmd] = "subscribe" => f.cmd = "SUBSCRIBE")
  BY <1>1 DEF Body, Commands, Entries
<1>8. resume'[c] = "subscribe" => f.cmd = "SUBSCRIBE"
  BY <1>4, <1>7 DEF ResumeAfter
<1>9. pc'[c] # "read" /\ pc'[c] # "addSubscription"
  BY <1>5, <1>7 DEF Entries
<1>10. pc'[c] = "subscribe" =>
         f.cmd = "SUBSCRIBE" /\ Required["SUBSCRIBE"] \subseteq f.hdrs
  BY <1>2, <1>5, <1>7 DEF Parsed
<1>11. GuardOf(c)'
  BY <1>4, <1>6, <1>8, <1>9, <1>10 DEF GuardOf
<1>12. QED
  BY <1>3, <1>11, OneWorkerStep DEF FrameInv, TypeOK

LEMMA WorkerFrame ==
  ASSUME Mode = "tpc", FrameInv, TypeOK', NEW c \in Conns, Worker(c)
  PROVE  FrameInv'
<1>1. ASSUME NEW l \in Labels \ {"read", "subscribe", "addSubscription"}, pc[c] # "read",
             Continue(c, l), UNCHANGED connectionToUser
      PROVE  FrameInv'
  BY <1>1, MoveFrame DEF Continue, Goto, local
<1>2. ASSUME NEW l \in {"clear", "disconnect"}, NEW k \in Answers, pc[c] # "read",
             Answer(c, k, l), UNCHANGED connectionToUser
      PROVE  FrameInv'
  BY <1>2, MoveFrame DEF Answer, Goto, Labels
<1>3. CASE IsUserExist(c) \/ CreateUser(c) \/ IsUserIsLogged(c) \/ CheckPassword(c)
  BY <1>1, <1>3, RaiseFrame
  DEF IsUserExist, CreateUser, IsUserIsLogged, CheckPassword, controller, Labels
<1>4. CASE PutUser(c)
  BY <1>4, MoveFrame DEF PutUser, Goto, local, Labels
<1>5. CASE Logging(c)
  <2>1. /\ pc' = [pc EXCEPT ![c] = "reply"] /\ pc[c] # "read"
        /\ connectionToUser' = [connectionToUser EXCEPT ![c] = Login(c)]
        /\ UNCHANGED <<sock, headers, frame, resume>>
    BY <1>5 DEF Logging, Goto
  <2>2. QED
    BY <2>1, MoveFrame DEF FrameInv, TypeOK, Labels
<1>6. CASE Refuse(c) \/ Error(c)
  BY <1>2, <1>6 DEF Refuse, Error, Answers, controller
<1>7. CASE Disconnect(c)
  BY <1>7, MoveFrame, RaiseFrame DEF Disconnect, Goto, local, Labels
<1>8. CASE SignOut(c)
  <2>1. /\ pc[c] = "signOut" /\ UNCHANGED sock
        /\ connectionToUser' = [connectionToUser EXCEPT ![c] = Null]
    BY <1>8 DEF SignOut
  <2>2. \A d \in Conns \ {c} : connectionToUser'[d] = connectionToUser[d]
    BY <2>1 DEF FrameInv, TypeOK
  <2>3. CASE resume[c] = "read"
    BY <1>8, <2>1, <2>2, <2>3, ReturnFrame DEF SignOut
  <2>4. CASE resume[c] # "read"
    <3>1. pc' = [pc EXCEPT ![c] = resume[c]] /\ UNCHANGED <<headers, frame, resume>>
      BY <1>8, <2>4 DEF SignOut, Goto
    <3>2. pc'[c] = resume[c] /\ Me(c)' = Null
      BY <2>1, <3>1 DEF FrameInv, TypeOK, Me
    <3>3. resume[c] \in {"error", "subscribe", "unsubscribe"}
      BY <2>4 DEF FrameInv, TypeOK
    <3>4. resume[c] = "subscribe" => frame[c].cmd = "SUBSCRIBE"
      BY <2>1 DEF FrameInv, BodyGuard
    <3>5. frame[c].cmd = "UNKNOWN" => headers[c] = {}
      BY <2>1 DEF FrameInv, FreshHeaders
    <3>6. GuardOf(c)'
      BY <3>1, <3>2, <3>3, <3>4, <3>5 DEF GuardOf
    <3>7. QED
      BY <2>1, <2>2, <3>1, <3>6, OneWorkerStep DEF FrameInv, TypeOK
  <2>5. QED
    BY <2>3, <2>4
<1>9. CASE Bye(c)
  BY <1>2, <1>9, RaiseFrame DEF Bye, Answers, controller
<1>10. CASE IsChannelExist(c)
  <2>1. CASE pc' = [pc EXCEPT ![c] = "broadcast"]
    BY <1>10, <2>1, MoveFrame, RaiseFrame DEF IsChannelExist, Labels, controller, Continue, local
  <2>2. CASE pc' # [pc EXCEPT ![c] = "broadcast"]
    BY <1>1, <1>10, <2>2, RaiseFrame DEF IsChannelExist, Labels, controller, Goto
  <2>3. QED
    BY <2>1, <2>2
<1>11. CASE Broadcast(c)
  <2>1. CASE Return(c)
    BY <1>11, <2>1, ReturnFrame DEF Broadcast, Return, controller
  <2>2. CASE Raise(c)
    BY <1>11, <2>2, RaiseFrame DEF Broadcast, controller
  <2>3. ASSUME NEW u \in Users, Visit(c, u)
        PROVE  FrameInv'
    <3>1. /\ pc[c] = "broadcast" /\ UNCHANGED <<sock, headers, frame, resume, connectionToUser>>
          /\ pc' = [pc EXCEPT ![c] = "look"]
      BY <1>11, <2>3 DEF Broadcast, Visit, Goto, controller
    <3>2. QED
      BY <3>1, MoveFrame DEF Labels
  <2>4. QED
    BY <1>11, <2>1, <2>2, <2>3 DEF Broadcast
<1>12. CASE Post(c)
  <2>1. CASE Raise(c)
    BY <1>12, <2>1, RaiseFrame DEF Post, controller
  <2>2. CASE ~Raise(c)
    BY <1>12, <2>2, MoveFrame DEF Post, Goto, Labels, controller
  <2>3. QED
    BY <2>1, <2>2
<1>13. CASE Subscribe(c)
  <2>1. CASE Raise(c)
    BY <1>13, <2>1, RaiseFrame DEF Subscribe
  <2>2. CASE Continue(c, "addSubscription")
    <3>1. /\ pc[c] = "subscribe" /\ pc' = [pc EXCEPT ![c] = "addSubscription"]
          /\ UNCHANGED <<sock, headers, frame, resume, connectionToUser>>
      BY <1>13, <2>2 DEF Subscribe, Continue, Goto, local
    <3>2. GuardOf(c)'
      BY <3>1 DEF GuardOf, FrameInv, TypeOK, FreshHeaders, BodyGuard, Me
    <3>3. QED
      BY <3>1, <3>2, OneWorkerStep DEF FrameInv, TypeOK
  <2>3. QED
    BY <1>13, <2>1, <2>2 DEF Subscribe
<1>14. CASE AddSubscription(c) \/ Unsubscribe(c)
  <2>1. CASE AddSubscription(c)
    BY <2>1, MoveFrame, RaiseFrame DEF AddSubscription, Goto, local, Labels
  <2>2. CASE Unsubscribe(c)
    BY <1>1, <2>2, RaiseFrame DEF Unsubscribe, controller, Labels
  <2>3. QED
    BY <1>14, <2>1, <2>2
<1>15. CASE Reply(c)
  BY <1>2, <1>15, RaiseFrame DEF Reply, Answers, controller
<1>16. CASE Clear(c)
  BY <1>16, ReturnFrame DEF Clear, Return, controller
<1>17. CASE Look(c)
  <2>1. CASE Raise(c)
    BY <1>17, <2>1, RaiseFrame DEF Look, controller
  <2>2. CASE ~Raise(c)
    <3>1. /\ pc[c] = "look" /\ UNCHANGED <<sock, headers, frame, resume, connectionToUser>>
          /\ UNCHANGED pc \/ \E l \in {"broadcast", "post"} : pc' = [pc EXCEPT ![c] = l]
      BY <1>17, <2>2 DEF Look, Goto, controller
    <3>2. \E l \in {"look", "broadcast", "post"} : pc' = [pc EXCEPT ![c] = l]
      BY <3>1 DEF FrameInv, TypeOK
    <3>3. QED
      BY <3>1, <3>2, MoveFrame DEF Labels
  <2>3. QED
    BY <2>1, <2>2
<1>18. QED
  BY <1>3, <1>4, <1>5, <1>6, <1>7, <1>8, <1>9, <1>10, <1>11, <1>12, <1>13, <1>14, <1>15,
     <1>16, <1>17 DEF Worker

LEMMA NextFrame == Mode = "tpc" /\ FrameInv /\ [Next]_vars => FrameInv'
<1> SUFFICES ASSUME Mode = "tpc", FrameInv, [Next]_vars PROVE FrameInv'
  OBVIOUS
<1>1. TypeOK'
  BY NextTypeOK DEF FrameInv
<1>2. ASSUME NEW c \in Conns,
             \/ Accept(c) \/ Eof(c) \/ Close(c)
             \/ \E f \in Frames : ReceiveBroken(c, f)
      PROVE  FrameInv'
  <2>1. /\ UNCHANGED <<pc, frame, resume, connectionToUser>>
        /\ \A d \in Conns \ {c} : sock'[d] = sock[d] /\ headers'[d] = headers[d]
        /\ pc[c] = "read" \/ UNCHANGED headers
    BY <1>2 DEF Accept, Eof, Close, ReceiveBroken, CanRead, local, controller, FrameInv, TypeOK
  <2>2. \/ UNCHANGED headers /\ sock[c] # "closed"
        \/ pc[c] = "read" /\ sock'[c] = "closed"
    BY <1>2 DEF Accept, Eof, Close, ReceiveBroken, CanRead, FrameInv, TypeOK
  <2>3. GuardOf(c)'
    BY <2>1, <2>2 DEF GuardOf, FrameInv, FreshHeaders, BodyGuard, Me
  <2>4. QED
    BY <1>1, <2>1, <2>3, OneWorkerStep
<1>3. CASE UNCHANGED vars
  BY <1>1, <1>3 DEF vars, controller, local, FrameInv, FreshHeaders, BodyGuard, Me
<1>4. QED
  BY <1>1, <1>2, <1>3, ReceiveFrame, WorkerFrame DEF Next, Network

LEMMA FrameInvariant == ASSUME Mode = "tpc" PROVE Spec => []FrameInv
BY InitFrameInv, NextFrame, PTL DEF Spec

(* In the thread-per-client server, only a SUBSCRIBE frame that carries     *)
(* every required header makes a subscription, however workers interleave.  *)
THEOREM CompleteFramesSubscribe == ASSUME Mode = "tpc" PROVE Spec => OnlyCompleteFramesSubscribe
<1> DEFINE Allowed ==
      \A u \in Users, i \in SubIds :
        subscriptions'[u][i] \notin {Null, subscriptions[u][i]}
          => \E c \in Conns : /\ pc[c] = "addSubscription"
                              /\ Required[frame[c].cmd] \subseteq frame[c].hdrs
<1>1. FrameInv /\ [Next]_vars => Allowed
  <2> SUFFICES ASSUME FrameInv, [Next]_vars, NEW u \in Users, NEW i \in SubIds,
                      subscriptions'[u][i] \notin {Null, subscriptions[u][i]}
               PROVE  \E c \in Conns : /\ pc[c] = "addSubscription"
                                       /\ Required[frame[c].cmd] \subseteq frame[c].hdrs
    OBVIOUS
  <2>1. ASSUME NEW c \in Conns, PutUser(c) \/ Disconnect(c)
        PROVE  FALSE
    BY <2>1 DEF PutUser, Disconnect, FrameInv, TypeOK, NoSubscriptions
  <2>2. ASSUME NEW c \in Conns, Network(c) \/ Close(c)
        PROVE  UNCHANGED subscriptions
    BY <2>2 DEF Network, Accept, Eof, Receive, ReceiveBroken, Close, controller
  <2>3. ASSUME NEW c \in Conns, Worker(c)
        PROVE  PutUser(c) \/ Disconnect(c) \/ AddSubscription(c) \/ UNCHANGED subscriptions
    BY <2>3
    DEF Worker, IsUserExist, CreateUser, IsUserIsLogged, CheckPassword, Logging, Refuse, Error,
        SignOut, Bye, IsChannelExist, Broadcast, Look, Post, Subscribe, Unsubscribe, Reply,
        Clear, controller
  <2>4. ~UNCHANGED subscriptions
    BY DEF FrameInv, TypeOK
  <2>5. \E c \in Conns : PutUser(c) \/ Disconnect(c) \/ AddSubscription(c)
    BY <2>2, <2>3, <2>4 DEF Next, vars, controller
  <2>6. PICK c \in Conns : AddSubscription(c)
    BY <2>1, <2>5
  <2>7. Me(c) # Null
    BY <2>6 DEF AddSubscription
  <2>8. QED
    BY <2>6, <2>7 DEF AddSubscription, FrameInv, BodyGuard
<1>2. QED
  BY <1>1, FrameInvariant, PTL DEF Spec, OnlyCompleteFramesSubscribe

-----------------------------------------------------------------------------
(* Every frame but SEND is answered in the thread-per-client server, with   *)
(* any number of workers at a time.                                         *)

(* What is a connection's own: no worker writes to it for another.          *)
Untouched(d) ==
  /\ sock'[d] = sock[d] /\ shouldTerminate'[d] = shouldTerminate[d]
  /\ pc'[d] = pc[d] /\ frame'[d] = frame[d] /\ reply'[d] = reply[d]
  /\ todo'[d] = todo[d] /\ target'[d] = target[d] /\ delivered'[d] = delivered[d]
  /\ d \in connections' <=> d \in connections

LEMMA FinishUntouched ==
  ASSUME TypeOK, NEW c \in Conns, Finish(c), NEW d \in Conns \ {c}
  PROVE  /\ pc'[d] = pc[d] /\ frame'[d] = frame[d] /\ reply'[d] = reply[d]
         /\ todo'[d] = todo[d] /\ target'[d] = target[d] /\ delivered'[d] = delivered[d]
BY DEF TypeOK, Finish, Goto

LEMMA RaiseUntouched ==
  ASSUME TypeOK, NEW c \in Conns, Raise(c), NEW d \in Conns \ {c},
         UNCHANGED <<connections, shouldTerminate>>
  PROVE  Untouched(d)
BY FinishUntouched DEF TypeOK, Raise, Untouched

LEMMA ReturnUntouched ==
  ASSUME TypeOK, NEW c \in Conns, Return(c), NEW d \in Conns \ {c},
         UNCHANGED <<connections, shouldTerminate>>
  PROVE  Untouched(d)
BY FinishUntouched DEF TypeOK, Return, Untouched

LEMMA ContinueUntouched ==
  ASSUME TypeOK, NEW c \in Conns, NEW l, Continue(c, l), NEW d \in Conns \ {c},
         UNCHANGED <<connections, shouldTerminate>>
  PROVE  Untouched(d)
BY DEF TypeOK, Continue, Goto, local, Untouched

LEMMA AnswerUntouched ==
  ASSUME TypeOK, NEW c \in Conns, NEW k, NEW l, Answer(c, k, l), NEW d \in Conns \ {c},
         d \in connections' <=> d \in connections, shouldTerminate'[d] = shouldTerminate[d]
  PROVE  Untouched(d)
BY DEF TypeOK, Answer, Goto, Untouched

LEMMA OthersUntouched ==
  ASSUME TypeOK, NEW c \in Conns, Network(c) \/ Worker(c) \/ Close(c), NEW d \in Conns \ {c}
  PROVE  Untouched(d)
<1>1. CASE Accept(c) \/ Eof(c) \/ Close(c)
  BY <1>1 DEF Accept, Eof, Close, controller, local, TypeOK, Untouched
<1>2. ASSUME NEW f \in Frames, Receive(c, f) \/ ReceiveBroken(c, f)
      PROVE  Untouched(d)
  BY <1>2 DEF Receive, ReceiveBroken, Goto, controller, local, TypeOK, Untouched
<1>3. CASE IsUserExist(c) \/ CreateUser(c) \/ IsUserIsLogged(c) \/ CheckPassword(c)
  BY <1>3, RaiseUntouched, ContinueUntouched
  DEF IsUserExist, CreateUser, IsUserIsLogged, CheckPassword, controller
<1>4. CASE Logging(c)
  BY <1>4 DEF Logging, Goto, TypeOK, Untouched
<1>5. CASE Refuse(c)
  BY <1>5, AnswerUntouched DEF Refuse, TypeOK
<1>6. CASE Error(c) \/ Bye(c) \/ Reply(c)
  BY <1>6, AnswerUntouched, RaiseUntouched DEF Error, Bye, Reply, controller
<1>7. CASE SignOut(c)
  <2>1. /\ sock'[d] = sock[d] /\ shouldTerminate'[d] = shouldTerminate[d]
        /\ d \in connections' <=> d \in connections
    BY <1>7 DEF SignOut, TypeOK
  <2>2. CASE Finish(c)
    BY <2>1, <2>2, FinishUntouched DEF Untouched
  <2>3. CASE Goto(c, resume[c]) /\ UNCHANGED <<frame, todo, target, delivered, reply>>
    BY <2>1, <2>3 DEF Goto, TypeOK, Untouched
  <2>4. QED
    BY <1>7, <2>2, <2>3 DEF SignOut
<1>8. CASE PutUser(c) \/ Disconnect(c) \/ AddSubscription(c)
  BY <1>8, RaiseUntouched
  DEF PutUser, Disconnect, AddSubscription, Goto, local, TypeOK, Untouched
<1>13. CASE Subscribe(c) \/ Unsubscribe(c)
  BY <1>13, RaiseUntouched, ContinueUntouched DEF Subscribe, Unsubscribe, controller
<1>14. CASE Look(c)
  <2>1. CASE Raise(c)
    BY <1>14, <2>1, RaiseUntouched DEF Look, controller
  <2>2. CASE ~Raise(c)
    BY <1>14, <2>2 DEF Look, Goto, TypeOK, Untouched, controller
  <2>3. QED
    BY <2>1, <2>2
<1>9. CASE IsChannelExist(c)
  <2>1. CASE Raise(c) \/ Continue(c, "error")
    BY <1>9, <2>1, RaiseUntouched, ContinueUntouched DEF IsChannelExist, controller
  <2>2. CASE ~(Raise(c) \/ Continue(c, "error"))
    BY <1>9, <2>2 DEF IsChannelExist, Goto, TypeOK, Untouched, controller
  <2>3. QED
    BY <2>1, <2>2
<1>10. CASE Broadcast(c)
  <2>1. CASE Return(c) \/ Raise(c)
    BY <1>10, <2>1, RaiseUntouched, ReturnUntouched DEF Broadcast, controller
  <2>2. ASSUME NEW u \in Users, Visit(c, u)
        PROVE  Untouched(d)
    BY <1>10, <2>2 DEF Broadcast, Visit, Goto, TypeOK, Untouched, controller
  <2>3. QED
    BY <1>10, <2>1, <2>2 DEF Broadcast
<1>11. CASE Post(c)
  <2>1. CASE Raise(c)
    BY <1>11, <2>1, RaiseUntouched DEF Post, controller
  <2>2. CASE ~Raise(c)
    BY <1>11, <2>2 DEF Post, Goto, TypeOK, Untouched, controller
  <2>3. QED
    BY <2>1, <2>2
<1>12. CASE Clear(c)
  BY <1>12, ReturnUntouched DEF Clear, controller
<1>15. QED
  BY <1>1, <1>2, <1>3, <1>4, <1>5, <1>6, <1>7, <1>8, <1>9, <1>10, <1>11, <1>12, <1>13, <1>14
  DEF Network, Worker

(* A worker that can no longer send has been told to stop, which in the     *)
(* thread-per-client server keeps it from the next frame; and before that   *)
(* the frame in hand had its answer.                                        *)
AnswerOf(c) ==
  /\ sock[c] # "none" /\ c \notin connections => shouldTerminate[c]
  /\ pc[c] # "read" => sock[c] # "none" /\ (c \in connections \/ reply[c] # "none")
  /\ pc[c] \in {"disconnect", "signOut", "clear"} => reply[c] # "none"
  /\ pc[c] \in {"isChannelExist", "broadcast", "look", "post"} => frame[c].cmd = "SEND"

AnswerInv == TypeOK /\ \A c \in Conns : AnswerOf(c)

Answered(c) ==
  pc[c] # "read" /\ pc'[c] = "read" /\ frame[c].cmd # "SEND"
    => reply[c] # "none" \/ sock'[c] = "closed"

LEMMA InitAnswerInv == Init => AnswerInv
<1> SUFFICES ASSUME Init PROVE AnswerInv
  OBVIOUS
<1>1. \A c \in Conns : AnswerOf(c)
  BY DEF Init, AnswerOf
<1>2. QED
  BY <1>1, InitTypeOK DEF AnswerInv

LEMMA RaiseAnswered ==
  ASSUME Mode = "tpc", AnswerInv, NEW c \in Conns, Raise(c), pc[c] # "read",
         UNCHANGED <<connections, shouldTerminate>>
  PROVE  AnswerOf(c)' /\ Answered(c)
<1>1. pc'[c] = "read" /\ sock'[c] = "closed" /\ sock[c] # "none"
  BY DEF AnswerInv, AnswerOf, TypeOK, Raise, Finish, Goto
<1>2. QED
  BY <1>1 DEF AnswerInv, AnswerOf, Answered

LEMMA ReturnAnswered ==
  ASSUME AnswerInv, NEW c \in Conns, Return(c), pc[c] # "read",
         reply[c] # "none" \/ frame[c].cmd = "SEND",
         UNCHANGED <<connections, shouldTerminate>>
  PROVE  AnswerOf(c)' /\ Answered(c)
<1>1. pc'[c] = "read" /\ sock' = sock
  BY DEF AnswerInv, TypeOK, Return, Finish, Goto
<1>2. QED
  BY <1>1 DEF AnswerInv, AnswerOf, Answered

(* A step within a frame.                                                   *)
LEMMA MoveAnswered ==
  ASSUME AnswerInv, NEW c \in Conns, pc[c] # "read", NEW l \in Labels \ {"read"},
         pc' = [pc EXCEPT ![c] = l],
         l = "signOut" => pc[c] = "disconnect",
         l \in {"disconnect", "clear"} => c \notin connections \/ reply'[c] # "none",
         l \in {"isChannelExist", "broadcast", "look", "post"}
           => pc[c] \in {"isChannelExist", "broadcast", "look", "post"},
         reply'[c] # reply[c] => reply'[c] # "none",
         UNCHANGED <<connections, shouldTerminate, sock, frame>>
  PROVE  AnswerOf(c)' /\ Answered(c)
<1>1. pc'[c] = l
  BY DEF AnswerInv, TypeOK
<1>2. QED
  BY <1>1 DEF AnswerInv, AnswerOf, Answered

LEMMA ContinueAnswered ==
  ASSUME AnswerInv, NEW c \in Conns, pc[c] # "read",
         NEW l \in Labels \ {"read", "disconnect", "clear", "isChannelExist", "broadcast", "look",
                        "post"},
         Continue(c, l), l = "signOut" => pc[c] = "disconnect",
         UNCHANGED <<connections, shouldTerminate>>
  PROVE  AnswerOf(c)' /\ Answered(c)
BY MoveAnswered DEF Continue, Goto, local

LEMMA AnswerAnswered ==
  ASSUME AnswerInv, NEW c \in Conns, pc[c] # "read", NEW k \in Answers \ {"none"},
         NEW l \in {"disconnect", "clear"}, Answer(c, k, l),
         UNCHANGED <<connections, shouldTerminate>>
  PROVE  AnswerOf(c)' /\ Answered(c)
<1>1. reply'[c] = IF c \in connections THEN k ELSE reply[c]
  BY DEF Answer, AnswerInv, TypeOK
<1>2. l \in Labels \ {"read"}
  BY DEF Labels
<1>3. QED
  BY <1>1, <1>2, MoveAnswered DEF Answer, Goto

LEMMA ReceiveAnswered ==
  ASSUME Mode = "tpc", AnswerInv, NEW c \in Conns, NEW f \in Frames, Receive(c, f)
  PROVE  AnswerOf(c)'
<1>1. sock[c] = "open" /\ ~shouldTerminate[c] /\ pc[c] = "read" /\ c \in connections
  BY DEF Receive, CanRead, AnswerInv, AnswerOf
<1>2. f.cmd \in Commands
  BY FramesAssumption DEF Frame
<1>3. frame'[c] = f /\ UNCHANGED <<connections, sock, shouldTerminate>>
  BY DEF Receive, AnswerInv, TypeOK, controller
<1>4. pc'[c] \in {Body[f.cmd], "refuse", "error"}
  BY DEF Receive, Goto, AnswerInv, TypeOK
<1>5. /\ Body[f.cmd] \in Entries
      /\ Body[f.cmd] = "isChannelExist" => f.cmd = "SEND"
  BY <1>2 DEF Body, Commands, Entries
<1>6. QED
  BY <1>1, <1>3, <1>4, <1>5 DEF AnswerOf, Entries

LEMMA WorkerAnswered ==
  ASSUME Mode = "tpc", AnswerInv, NEW c \in Conns, Worker(c)
  PROVE  AnswerOf(c)' /\ Answered(c)
<1>1. CASE IsUserExist(c) \/ CreateUser(c) \/ IsUserIsLogged(c) \/ CheckPassword(c)
  BY <1>1, ContinueAnswered, RaiseAnswered
  DEF IsUserExist, CreateUser, IsUserIsLogged, CheckPassword, controller, Labels
<1>2. CASE Subscribe(c) \/ Unsubscribe(c)
  BY <1>2, ContinueAnswered, RaiseAnswered DEF Subscribe, Unsubscribe, controller, Labels
<1>11. CASE PutUser(c) \/ Disconnect(c) \/ AddSubscription(c)
  BY <1>11, MoveAnswered, RaiseAnswered
  DEF PutUser, Disconnect, AddSubscription, Goto, local, Labels
<1>3. CASE Logging(c)
  BY <1>3, MoveAnswered DEF Logging, Goto, Labels
<1>4. CASE Refuse(c)
  <2>1. /\ pc'[c] = "clear" /\ sock' = sock /\ shouldTerminate'[c] = TRUE
        /\ reply'[c] = IF c \in connections THEN "ERROR" ELSE reply[c]
    BY <1>4 DEF Refuse, Answer, Goto, AnswerInv, TypeOK
  <2>2. QED
    BY <1>4, <2>1 DEF Refuse, AnswerInv, AnswerOf, Answered
<1>5. CASE Error(c) \/ Bye(c) \/ Reply(c)
  BY <1>5, AnswerAnswered, RaiseAnswered DEF Error, Bye, Reply, Answers, controller
<1>6. CASE SignOut(c)
  <2>1. /\ pc[c] = "signOut" /\ sock' = sock /\ shouldTerminate'[c] = TRUE
        /\ sock[c] # "none" /\ reply[c] # "none"
    BY <1>6 DEF SignOut, AnswerInv, AnswerOf, TypeOK
  <2>2. CASE Finish(c)
    <3>1. pc'[c] = "read"
      BY <2>2 DEF Finish, Goto, AnswerInv, TypeOK
    <3>2. QED
      BY <2>1, <3>1 DEF AnswerOf, Answered
  <2>3. CASE resume[c] # "read" /\ Goto(c, resume[c]) /\ UNCHANGED reply
    <3>1. pc'[c] \in {"error", "subscribe", "unsubscribe"}
      BY <2>3 DEF Goto, AnswerInv, TypeOK
    <3>2. QED
      BY <2>1, <2>3, <3>1 DEF AnswerOf, Answered
  <2>4. QED
    BY <1>6, <2>2, <2>3 DEF SignOut
<1>7. CASE IsChannelExist(c)
  <2>1. CASE Raise(c) \/ Continue(c, "error")
    BY <1>7, <2>1, RaiseAnswered, ContinueAnswered DEF IsChannelExist, controller, Labels
  <2>2. CASE ~(Raise(c) \/ Continue(c, "error"))
    BY <1>7, <2>2, MoveAnswered DEF IsChannelExist, Goto, controller, Labels
  <2>3. QED
    BY <2>1, <2>2
<1>8. CASE Broadcast(c)
  <2>1. CASE Return(c) \/ Raise(c)
    BY <1>8, <2>1, RaiseAnswered, ReturnAnswered DEF Broadcast, controller, AnswerInv, AnswerOf
  <2>2. ASSUME NEW u \in Users, Visit(c, u)
        PROVE  AnswerOf(c)' /\ Answered(c)
    <3>1. /\ pc[c] = "broadcast" /\ UNCHANGED <<connections, shouldTerminate, sock, frame, reply>>
          /\ pc' = [pc EXCEPT ![c] = "look"]
      BY <1>8, <2>2 DEF Broadcast, Visit, Goto, controller
    <3>2. QED
      BY <3>1, MoveAnswered DEF Labels
  <2>3. QED
    BY <1>8, <2>1, <2>2 DEF Broadcast
<1>9. CASE Post(c)
  <2>1. CASE Raise(c)
    BY <1>9, <2>1, RaiseAnswered DEF Post, controller
  <2>2. CASE ~Raise(c)
    BY <1>9, <2>2, MoveAnswered DEF Post, Goto, controller, Labels
  <2>3. QED
    BY <2>1, <2>2
<1>10. CASE Clear(c)
  BY <1>10, ReturnAnswered DEF Clear, controller, AnswerInv, AnswerOf
<1>12. CASE Look(c)
  <2>1. CASE Raise(c)
    BY <1>12, <2>1, RaiseAnswered DEF Look, controller
  <2>2. CASE ~Raise(c)
    <3>1. /\ pc[c] = "look" /\ UNCHANGED <<connections, shouldTerminate, sock, frame, reply>>
          /\ UNCHANGED pc \/ \E l \in {"broadcast", "post"} : pc' = [pc EXCEPT ![c] = l]
      BY <1>12, <2>2 DEF Look, Goto, controller
    <3>2. \E l \in {"look", "broadcast", "post"} : pc' = [pc EXCEPT ![c] = l]
      BY <3>1 DEF AnswerInv, TypeOK
    <3>3. QED
      BY <3>1, <3>2, MoveAnswered DEF Labels
  <2>3. QED
    BY <2>1, <2>2
<1>13. QED
  BY <1>1, <1>2, <1>3, <1>4, <1>5, <1>6, <1>7, <1>8, <1>9, <1>10, <1>11, <1>12 DEF Worker

LEMMA NextAnswered ==
  Mode = "tpc" /\ AnswerInv /\ [Next]_vars => AnswerInv' /\ \A c \in Conns : Answered(c)
<1> SUFFICES ASSUME Mode = "tpc", AnswerInv, [Next]_vars
             PROVE  AnswerInv' /\ \A c \in Conns : Answered(c)
  OBVIOUS
<1>1. TypeOK'
  BY NextTypeOK DEF AnswerInv
<1>2. ASSUME NEW c \in Conns, Network(c) \/ Close(c)
      PROVE  AnswerOf(c)' /\ Answered(c)
  <2>1. CASE Accept(c) \/ Eof(c) \/ Close(c)
    BY <2>1 DEF Accept, Eof, Close, controller, local, AnswerInv, AnswerOf, Answered, TypeOK
  <2>2. ASSUME NEW f \in Frames, Receive(c, f)
        PROVE  AnswerOf(c)' /\ Answered(c)
    BY <2>2, ReceiveAnswered DEF Receive, CanRead, Answered
  <2>3. ASSUME NEW f \in Frames, ReceiveBroken(c, f)
        PROVE  AnswerOf(c)' /\ Answered(c)
    <3>1. /\ sock[c] = "open" /\ UNCHANGED <<controller, shouldTerminate, pc, local>>
          /\ sock'[c] = "closed"
      BY <2>3 DEF ReceiveBroken, CanRead, AnswerInv, TypeOK
    <3>2. QED
      BY <3>1 DEF controller, local, AnswerInv, AnswerOf, Answered
  <2>4. QED
    BY <1>2, <2>1, <2>2, <2>3 DEF Network
<1>3. ASSUME NEW c \in Conns, Network(c) \/ Worker(c) \/ Close(c), NEW d \in Conns
      PROVE  AnswerOf(d)' /\ Answered(d)
  <2>1. CASE d = c
    BY <1>2, <1>3, <2>1, WorkerAnswered
  <2>2. CASE d # c
    <3>1. Untouched(d)
      BY <1>3, <2>2, OthersUntouched DEF AnswerInv
    <3>2. QED
      BY <3>1 DEF Untouched, AnswerInv, AnswerOf, Answered
  <2>3. QED
    BY <2>1, <2>2
<1>4. CASE UNCHANGED vars
  BY <1>1, <1>4 DEF vars, controller, local, AnswerInv, AnswerOf, Answered
<1>5. QED
  BY <1>1, <1>3, <1>4 DEF Next, AnswerInv

(* In the thread-per-client server a frame other than SEND is answered, or  *)
(* its client sees the socket closed, however many workers there are.       *)
THEOREM EveryFrameAnswered == ASSUME Mode = "tpc" PROVE Spec => AnsweredOrClosed
<1> DEFINE AllAnswered ==
      \A c \in Conns :
        pc[c] # "read" /\ pc'[c] = "read" /\ frame[c].cmd # "SEND"
          => reply[c] # "none" \/ sock'[c] = "closed"
<1>1. AnswerInv /\ [Next]_vars => AnswerInv' /\ AllAnswered
  BY NextAnswered DEF Answered
<1>2. QED
  BY <1>1, InitAnswerInv, PTL DEF Spec, AnsweredOrClosed
=============================================================================

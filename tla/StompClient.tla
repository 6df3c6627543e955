---------------------------- MODULE StompClient ----------------------------
(* The C++ client: the keyboard thread turns lines into frames, the socket  *)
(* thread takes in the answers.  They share the flags of UserTask and the   *)
(* numbers and maps of StompProtocol, and neither waits for the other.      *)
(*                                                                          *)
(* The server is StompMessagingProtocolImpl as this connection meets it: it *)
(* takes the frames in order, and closes after an ERROR or a DISCONNECT.    *)
(* What other users do is here only as far as this one is told of it.       *)
EXTENDS Naturals, Sequences

CONSTANTS
  Games,        \* the games users join
  MaxCommands,  \* how many commands the user types (a bound)
  MaxEvents,    \* how many events a report has (a bound)
  MaxUnread,    \* how far the client is behind what others send (a bound)
  None          \* an absent value; where the code has -1, too

ASSUME CommandsAssumption ==
  MaxCommands \in Nat /\ MaxEvents \in Nat /\ MaxUnread \in Nat

(* The numbers of receipts and subscriptions.                               *)
Ids == 0 .. MaxCommands
Confirmed == {"SUBSCRIBE", "UNSUBSCRIBE", "DISCONNECT"}

ASSUME NoneAssumption == None \notin Games \cup Nat \cup Confirmed
ASSUME EntryAssumption == None \notin [sub : Ids \cup {None}, game : Games \cup {None}]

VARIABLES
  (* UserTask *)
  connected,
  shouldTerminate,
  kpc,                 \* what the keyboard thread does next
  spc,                 \* what the socket thread does next
  msg,                 \* the frame the keyboard thread composes
  events,              \* the events of a report that are still to be sent
  socket,              \* "new", "open", "closed"
  crashed,             \* why an exception ended the process, or "no"
  (* StompProtocol *)
  receiptId,
  subId,
  receipts,            \* the command each receipt is for
  gamesBeforeReceipts, \* the subscription and the game it is about
  games,               \* the game of each subscription
  (* the network and the server *)
  toServer,
  toClient,
  server,              \* "open", "closed"
  subs,                \* the server's subscriptions of this user
  channels,            \* the games the server has a channel for
  (* history *)
  typed,               \* how many commands were typed
  hurried,             \* one of them before the last one was answered
  lost                 \* the connection failed, or there never was one

task == <<connected, shouldTerminate, kpc, spc, msg, events, socket, crashed>>
protocol == <<receiptId, subId, receipts, gamesBeforeReceipts, games>>
serverSide == <<server, subs, channels>>
network == <<toServer, toClient, serverSide>>
history == <<typed, hurried, lost>>
vars == <<task, protocol, network, history>>

Frame(cmd, sub, receipt, game) ==
  [cmd |-> cmd, sub |-> sub, receipt |-> receipt, game |-> game]
NoFrame == Frame(None, None, None, None)

Init ==
  /\ connected = FALSE /\ shouldTerminate = FALSE
  /\ kpc = "start" /\ spc = "spin"
  /\ msg = NoFrame /\ events = 0
  /\ socket = "new" /\ crashed = "no"
  /\ receiptId = 0 /\ subId = 0
  /\ receipts = [r \in Ids |-> None]
  /\ gamesBeforeReceipts = [r \in Ids |-> None]
  /\ games = [s \in Ids |-> None]
  /\ toServer = <<>> /\ toClient = <<>>
  /\ server = "open"
  /\ subs = [s \in Ids |-> None] /\ channels = {}
  /\ typed = 0 /\ hurried = FALSE /\ lost = FALSE

(* An exception nobody catches ends the process, and its socket with it.    *)
Crash(why) == crashed' = why /\ socket' = "closed"

(* map::insert: an entry that is there stays.                               *)
Insert(map, key, value) == [map EXCEPT ![key] = IF @ = None THEN value ELSE @]

(* Something of what the user typed is still under way.  The reports of     *)
(* others come at any time, and nobody waits for them.                      *)
Unanswered ==
  \/ toServer # <<>> \/ spc = "count"
  \/ \E i \in 1 .. Len(toClient) : toClient[i].cmd # "MESSAGE"

(* sendLine: a socket that the server has closed may still take the bytes,  *)
(* and nobody reads them.                                                   *)
Sent(frame) == socket = "open" /\ toServer' = Append(toServer, frame)
SendFails ==
  /\ socket # "open" \/ server = "closed"
  /\ UNCHANGED toServer

(* sendLine, and what its failure sets.                                     *)
SendLine(frame) ==
  \/ Sent(frame) /\ UNCHANGED shouldTerminate
  \/ SendFails /\ shouldTerminate' = TRUE

-----------------------------------------------------------------------------
(* The keyboard thread: keyboardRun.                                        *)

(* The first line is no login: the DISCONNECT frame that is sent without a  *)
(* connection fails, and the loop is entered.  An empty line raises.         *)
NotLogin ==
  /\ kpc = "start"
  /\ lost' = TRUE
  /\ UNCHANGED <<connected, shouldTerminate, spc, msg, events, protocol, network, typed, hurried>>
  /\ \/ kpc' = "loop" /\ UNCHANGED <<socket, crashed>>
     \/ Crash("line") /\ UNCHANGED kpc

(* connect may fail; the client goes on as if it had not.                   *)
Connect ==
  /\ kpc = "start"
  /\ kpc' = "login"
  /\ connected' = TRUE
  /\ \/ socket' = "open" /\ UNCHANGED lost
     \/ lost' = TRUE /\ UNCHANGED socket
  /\ UNCHANGED <<shouldTerminate, spc, msg, events, crashed, protocol, network, typed, hurried>>

(* A login line without a name or a password raises once it is connected.   *)
NoName ==
  /\ kpc = "login"
  /\ Crash("line")
  /\ UNCHANGED <<connected, shouldTerminate, kpc, spc, msg, events, protocol, network, history>>

Login ==
  /\ kpc = "login"
  /\ kpc' = "loop"
  /\ SendLine(Frame("CONNECT", None, None, None))
  /\ UNCHANGED <<connected, spc, msg, events, socket, crashed, protocol, toClient, serverSide,
                 history>>

Loop ==
  /\ kpc = "loop"
  /\ kpc' = IF shouldTerminate THEN "done" ELSE "line"
  /\ UNCHANGED <<connected, shouldTerminate, spc, msg, events, socket, crashed, protocol, network,
                 history>>

(* getline returns, and the flag is looked at again.                        *)
Stop ==
  /\ kpc = "line"
  /\ shouldTerminate
  /\ kpc' = "done"
  /\ UNCHANGED <<connected, shouldTerminate, spc, msg, events, socket, crashed, protocol, network,
                 history>>

Typed ==
  /\ kpc = "line"
  /\ ~shouldTerminate
  /\ typed < MaxCommands
  /\ typed' = typed + 1
  /\ hurried' = (hurried \/ Unanswered)
  /\ UNCHANGED <<connected, shouldTerminate, spc, protocol, network, lost>>

Compose(frame, n, next) ==
  /\ Typed
  /\ msg' = frame
  /\ events' = n
  /\ kpc' = next
  /\ UNCHANGED <<socket, crashed>>

Join(g) == Compose(Frame("SUBSCRIBE", subId, receiptId, g), 0, "record")

(* getSubIDFGame returns s: the first subscription to the game, or -1.      *)
IsSubIdOf(s, g) ==
  \/ s \in Ids /\ games[s] = g /\ \A t \in Ids : games[t] = g => s <= t
  \/ s = None /\ \A t \in Ids : games[t] # g

Exit(g) ==
  \E s \in Ids \cup {None} :
    /\ IsSubIdOf(s, g)
    /\ Compose(Frame("UNSUBSCRIBE", s, receiptId, None), 0, "record")

Logout == Compose(Frame("DISCONNECT", None, receiptId, None), 0, "record")

(* A report: one SEND frame for every event of the file, whose text is left *)
(* out.                                                                     *)
Report(g) ==
  \E n \in 0 .. MaxEvents : Compose(Frame("SEND", None, None, g), n, "send")

(* No command at all: a string is made from nullptr, or at(0) of nothing.   *)
BadLine ==
  /\ Typed
  /\ Crash("line")
  /\ UNCHANGED <<kpc, msg, events>>

(* Mutant: an exit is not entered among the receipts.                       *)
RecordJoinsOnly ==
  /\ kpc = "record"
  /\ kpc' = "send"
  /\ receipts' = IF msg.cmd = "UNSUBSCRIBE" THEN receipts
                 ELSE Insert(receipts, msg.receipt, msg.cmd)
  /\ gamesBeforeReceipts' =
       IF msg.cmd = "SUBSCRIBE"
       THEN Insert(gamesBeforeReceipts, receiptId, [sub |-> subId, game |-> msg.game])
       ELSE gamesBeforeReceipts
  /\ UNCHANGED <<connected, shouldTerminate, spc, msg, events, socket, crashed, receiptId, subId,
                 games, network, history>>

(* Mutant: what an exit enters is never a subscription.                     *)
RecordNoSub ==
  /\ kpc = "record"
  /\ kpc' = "send"
  /\ receipts' = Insert(receipts, msg.receipt, msg.cmd)
  /\ gamesBeforeReceipts' =
       CASE msg.cmd = "SUBSCRIBE" ->
              Insert(gamesBeforeReceipts, receiptId, [sub |-> subId, game |-> msg.game])
         [] msg.cmd = "UNSUBSCRIBE" ->
              Insert(gamesBeforeReceipts, receiptId, [sub |-> None, game |-> None])
         [] OTHER -> gamesBeforeReceipts
  /\ UNCHANGED <<connected, shouldTerminate, spc, msg, events, socket, crashed, receiptId, subId,
                 games, network, history>>

(* The rest of processToServer: the numbers are read a second time.         *)
Record ==
  /\ kpc = "record"
  /\ kpc' = "send"
  /\ receipts' = Insert(receipts, msg.receipt, msg.cmd)
  /\ gamesBeforeReceipts' =
       CASE msg.cmd = "SUBSCRIBE" ->
              Insert(gamesBeforeReceipts, receiptId, [sub |-> subId, game |-> msg.game])
         [] msg.cmd = "UNSUBSCRIBE" ->
              Insert(gamesBeforeReceipts, receiptId, [sub |-> msg.sub, game |-> None])
         [] OTHER -> gamesBeforeReceipts
  /\ UNCHANGED <<connected, shouldTerminate, spc, msg, events, socket, crashed, receiptId, subId,
                 games, network, history>>

(* Mutant: logout sends no frame.                                           *)
SendNoLogout ==
  /\ kpc = "send"
  /\ msg.cmd \in Confirmed
  /\ kpc' = IF msg.cmd = "DISCONNECT" THEN "leave" ELSE "loop"
  /\ \/ msg.cmd # "DISCONNECT" /\ SendLine(msg)
     \/ msg.cmd = "DISCONNECT" /\ UNCHANGED <<toServer, shouldTerminate>>
  /\ UNCHANGED <<connected, spc, msg, events, socket, crashed, protocol, toClient, serverSide,
                 history>>

Send ==
  /\ kpc = "send"
  /\ msg.cmd \in Confirmed
  /\ kpc' = IF msg.cmd = "DISCONNECT" THEN "leave" ELSE "loop"
  /\ SendLine(msg)
  /\ UNCHANGED <<connected, spc, msg, events, socket, crashed, protocol, toClient, serverSide,
                 history>>

(* The loop over the events of a report.  A frame that could not be sent    *)
(* does not end it: the flag is looked at after the last one.               *)
SendEvent ==
  /\ kpc = "send"
  /\ msg.cmd = "SEND"
  /\ events > 0
  /\ events' = events - 1
  /\ SendLine(msg)
  /\ UNCHANGED <<connected, kpc, spc, msg, socket, crashed, protocol, toClient, serverSide,
                 history>>

AllSent ==
  /\ kpc = "send"
  /\ msg.cmd = "SEND"
  /\ events = 0
  /\ kpc' = "loop"
  /\ UNCHANGED <<connected, shouldTerminate, spc, msg, events, socket, crashed, protocol, network,
                 history>>

(* logout, after the frame.                                                 *)
Leave ==
  /\ kpc = "leave"
  /\ kpc' = "done"
  /\ shouldTerminate' = TRUE
  /\ connected' = FALSE
  /\ UNCHANGED <<spc, msg, events, socket, crashed, protocol, network, history>>

-----------------------------------------------------------------------------
(* The socket thread: socketRun.                                            *)

Spin ==
  /\ spc = "spin"
  /\ connected
  /\ spc' = "check"
  /\ UNCHANGED <<connected, shouldTerminate, kpc, msg, events, socket, crashed, protocol, network,
                 history>>

Check ==
  /\ spc = "check"
  /\ spc' = IF shouldTerminate THEN "end" ELSE "read"
  /\ UNCHANGED <<connected, shouldTerminate, kpc, msg, events, socket, crashed, protocol, network,
                 history>>

(* The server closed the connection with frames unread, or was sent some    *)
(* afterwards: what it had sent last may be lost.                           *)
Reset == server = "closed" /\ toServer # <<>>

(* getLine fails: there is no connection, or its end is reached, or it was  *)
(* reset.  The flag is set, and the empty answer is split and looked at all *)
(* the same.                                                                *)
ReadFails ==
  /\ spc = "read"
  /\ \/ socket # "open"
     \/ server = "closed" /\ toClient = <<>>
     \/ Reset
  /\ shouldTerminate' = TRUE
  /\ Crash("read")
  /\ UNCHANGED <<connected, kpc, spc, msg, events, protocol, network, history>>

Take(cmd) ==
  /\ spc = "read"
  /\ socket = "open"
  /\ toClient # <<>>
  /\ Head(toClient).cmd = cmd
  /\ toClient' = Tail(toClient)
  /\ UNCHANGED <<connected, kpc, msg, events, receipts, gamesBeforeReceipts, toServer, serverSide,
                 history>>

(* What a MESSAGE does to the summaries is left out.                        *)
TakeConnectedOrMessage ==
  /\ Take("CONNECTED") \/ Take("MESSAGE")
  /\ spc' = "check"
  /\ UNCHANGED <<shouldTerminate, socket, crashed, receiptId, subId, games>>

TakeError ==
  /\ Take("ERROR")
  /\ spc' = "end"
  /\ shouldTerminate' = TRUE
  /\ UNCHANGED <<socket, crashed, receiptId, subId, games>>

(* clientResult for a RECEIPT: what was asked is looked up under the id.    *)
(* The branches that say "Receipt failed" are never reached: NoReceiptFails *)
(* is about them.                                                           *)
Asked(r) == receipts[r]
About(r) == gamesBeforeReceipts[r]

(* receipts.at or gamesBeforeReceipts.at raises.                            *)
ReceiptUnknown ==
  /\ Take("RECEIPT")
  /\ LET r == Head(toClient).receipt
     IN \/ Asked(r) = None
        \/ Asked(r) \in {"SUBSCRIBE", "UNSUBSCRIBE"} /\ About(r) = None
             /\ \E q \in Ids : About(q) # None
  /\ Crash("receipt")
  /\ UNCHANGED <<shouldTerminate, spc, receiptId, subId, games>>

Known(r, cmd) == Asked(r) = cmd /\ About(r) # None /\ About(r).sub # None

(* Mutant: the number of the receipt does not move on.                      *)
JoinedSameReceipt ==
  /\ Take("RECEIPT")
  /\ LET r == Head(toClient).receipt
     IN /\ Known(r, "SUBSCRIBE")
        /\ games' = Insert(games, About(r).sub, About(r).game)
  /\ spc' = "count"
  /\ UNCHANGED <<shouldTerminate, socket, crashed, subId, receiptId>>

(* The game is added; subId moves on in a step of its own, CountSub.        *)
Joined ==
  /\ Take("RECEIPT")
  /\ LET r == Head(toClient).receipt
     IN /\ Known(r, "SUBSCRIBE")
        /\ games' = Insert(games, About(r).sub, About(r).game)
  /\ receiptId' = receiptId + 1
  /\ spc' = "count"
  /\ UNCHANGED <<shouldTerminate, socket, crashed, subId>>

(* Mutant: the next join has the same subscription id.                      *)
CountSubNot ==
  /\ spc = "count"
  /\ spc' = "check"
  /\ subId' = subId
  /\ UNCHANGED <<connected, shouldTerminate, kpc, msg, events, socket, crashed, receiptId, receipts,
                 gamesBeforeReceipts, games, network, history>>

CountSub ==
  /\ spc = "count"
  /\ spc' = "check"
  /\ subId' = subId + 1
  /\ UNCHANGED <<connected, shouldTerminate, kpc, msg, events, socket, crashed, receiptId, receipts,
                 gamesBeforeReceipts, games, network, history>>

Exited ==
  /\ Take("RECEIPT")
  /\ LET r == Head(toClient).receipt
     IN /\ Known(r, "UNSUBSCRIBE")
        /\ games' = [games EXCEPT ![About(r).sub] = None]
  /\ receiptId' = receiptId + 1
  /\ spc' = "check"
  /\ UNCHANGED <<shouldTerminate, socket, crashed, subId>>

(* Mutant: the RECEIPT of a logout does not end the loop.                   *)
LoggedOutGoesOn ==
  /\ Take("RECEIPT")
  /\ Asked(Head(toClient).receipt) = "DISCONNECT"
  /\ games' = [s \in Ids |-> None]
  /\ receiptId' = receiptId + 1
  /\ spc' = "check"
  /\ UNCHANGED <<socket, crashed, subId, shouldTerminate>>

LoggedOut ==
  /\ Take("RECEIPT")
  /\ Asked(Head(toClient).receipt) = "DISCONNECT"
  /\ games' = [s \in Ids |-> None]
  /\ receiptId' = receiptId + 1
  /\ shouldTerminate' = TRUE
  /\ spc' = "end"
  /\ UNCHANGED <<socket, crashed, subId>>

End ==
  /\ spc = "end"
  /\ spc' = "done"
  /\ connected' = FALSE
  /\ socket' = "closed"
  /\ UNCHANGED <<shouldTerminate, kpc, msg, events, crashed, protocol, network, history>>

-----------------------------------------------------------------------------
(* The server: process() of this connection's protocol.                     *)

Answer(cmd, receipt) == toClient' = Append(toClient, Frame(cmd, None, receipt, None))

(* The subscriptions of the user go with the connection.                    *)
Disconnect == server' = "closed" /\ subs' = [s \in Ids |-> None]

Refuse == Answer("ERROR", None) /\ Disconnect /\ UNCHANGED channels

Subscribed(s) == s # None /\ subs[s] # None
Follows(g) == \E s \in Ids : subs[s] = g

(* UNSUBSCRIBE is confirmed and removes nothing.  SEND asks for the channel *)
(* only, and its MESSAGE comes to those who follow the game, perhaps not to *)
(* this user.                                                               *)
Serve ==
  /\ server = "open"
  /\ toServer # <<>>
  /\ toServer' = Tail(toServer)
  /\ LET f == Head(toServer)
     IN \/ /\ f.cmd = "CONNECT"
           /\ \/ Answer("CONNECTED", None) /\ UNCHANGED serverSide
              \/ Refuse
        \/ /\ f.cmd = "SUBSCRIBE"
           /\ subs' = [subs EXCEPT ![f.sub] = f.game]
           /\ channels' = channels \cup {f.game}
           /\ Answer("RECEIPT", f.receipt)
           /\ UNCHANGED server
        \/ /\ f.cmd = "UNSUBSCRIBE"
           /\ \/ Subscribed(f.sub)
                 /\ Answer("RECEIPT", f.receipt) /\ UNCHANGED serverSide
              \/ ~Subscribed(f.sub) /\ Refuse
        \/ /\ f.cmd = "SEND"
           /\ \/ f.game \notin channels /\ Refuse
              \/ f.game \in channels /\ UNCHANGED serverSide
                 /\ IF Follows(f.game) THEN Answer("MESSAGE", None) ELSE UNCHANGED toClient
        \/ /\ f.cmd = "DISCONNECT"
           /\ Answer("RECEIPT", f.receipt)
           /\ Disconnect
           /\ UNCHANGED channels
  /\ UNCHANGED <<task, protocol, history>>

(* Another user is the first to join a game.                                *)
OtherJoins(g) ==
  /\ channels' = channels \cup {g}
  /\ UNCHANGED <<task, protocol, toServer, toClient, server, subs, history>>

(* Another user reports on a game this one follows.                         *)
OtherSends(g) ==
  /\ server = "open"
  /\ Follows(g)
  /\ Len(toClient) < MaxUnread
  /\ Answer("MESSAGE", None)
  /\ UNCHANGED <<task, protocol, toServer, serverSide, history>>

(* The server, or the way to it, fails: process() raises, maybe.            *)
Fail ==
  /\ server = "open"
  /\ socket = "open"
  /\ server' = "closed"
  /\ lost' = TRUE
  /\ UNCHANGED <<task, protocol, toServer, toClient, subs, channels, typed, hurried>>

-----------------------------------------------------------------------------
User == BadLine \/ Logout \/ \E g \in Games : Join(g) \/ Exit(g) \/ Report(g)

Keyboard ==
  /\ crashed = "no"
  /\ \/ NotLogin \/ Connect \/ NoName \/ Login \/ Loop \/ Stop
     \/ Record \/ Send \/ SendEvent \/ AllSent \/ Leave

Socket ==
  /\ crashed = "no"
  /\ \/ Spin \/ Check \/ ReadFails \/ End
     \/ TakeConnectedOrMessage \/ TakeError
     \/ ReceiptUnknown \/ Joined \/ CountSub \/ Exited \/ LoggedOut

Others == \E g \in Games : OtherJoins(g) \/ OtherSends(g)

Next == Keyboard \/ (crashed = "no" /\ User) \/ Socket \/ Serve \/ Others \/ Fail

Spec == Init /\ [][Next]_vars

(* The threads run on, and so does the server; the user need not type.      *)
FairSpec == Spec /\ WF_vars(Keyboard) /\ WF_vars(Socket) /\ WF_vars(Serve)
-----------------------------------------------------------------------------
Commands == Confirmed \cup {"CONNECT", "SEND", "CONNECTED", "MESSAGE", "RECEIPT", "ERROR", None}
Frames ==
  [cmd : Commands, sub : Ids \cup {None}, receipt : Ids \cup {None}, game : Games \cup {None}]

TaskType ==
  /\ connected \in BOOLEAN /\ shouldTerminate \in BOOLEAN
  /\ kpc \in {"start", "login", "loop", "line", "record", "send", "leave", "done"}
  /\ spc \in {"spin", "check", "read", "count", "end", "done"}
  /\ msg \in Frames /\ events \in 0 .. MaxEvents
  /\ socket \in {"new", "open", "closed"}
  /\ crashed \in {"no", "line", "read", "receipt"}

(* The joins counted so far are among the answers counted so far.           *)
NumbersType ==
  /\ receiptId \in Ids /\ subId \in Ids
  /\ subId + (IF spc = "count" THEN 1 ELSE 0) <= receiptId

MapsType ==
  /\ receipts \in [Ids -> Confirmed \cup {None}]
  /\ gamesBeforeReceipts \in
       [Ids -> [sub : Ids \cup {None}, game : Games \cup {None}] \cup {None}]
  /\ games \in [Ids -> Games \cup {None}]

NetworkType ==
  /\ toServer \in Seq(Frames) /\ toClient \in Seq(Frames)
  /\ server \in {"open", "closed"}
  /\ subs \in [Ids -> Games \cup {None}] /\ channels \subseteq Games

HistoryType == typed \in 0 .. MaxCommands /\ hurried \in BOOLEAN /\ lost \in BOOLEAN

(* Every variable has its type, and the numbers do not run ahead of the     *)
(* commands: no answer moves them on twice.                                 *)
TypeOK == TaskType /\ NumbersType /\ MapsType /\ NetworkType /\ HistoryType

(* Every RECEIPT that is under way, or asked for, is of a command the       *)
(* client has entered under its number: receipts.at never raises, however   *)
(* fast the user types and whatever the socket thread does meanwhile.       *)
ReceiptAsked ==
  /\ \A i \in 1 .. Len(toServer) :
       toServer[i].cmd \in Confirmed => receipts[toServer[i].receipt] # None
  /\ \A i \in 1 .. Len(toClient) :
       toClient[i].cmd = "RECEIPT" => receipts[toClient[i].receipt] # None

(* Nor is a RECEIPT ever taken for one that "failed": when it comes, what   *)
(* was entered under its number has a subscription id, though an exit from  *)
(* a game that was never joined enters none, and entries are not replaced.  *)
NoReceiptFails ==
  \A i \in 1 .. Len(toClient) :
    LET r == toClient[i].receipt
    IN toClient[i].cmd = "RECEIPT" /\ Asked(r) \in {"SUBSCRIBE", "UNSUBSCRIBE"} =>
         /\ \E q \in Ids : About(q) # None
         /\ About(r) # None => About(r).sub # None

(* The exits the client was asked for.                                      *)
ExitAsked(s) ==
  \E r \in Ids : Asked(r) = "UNSUBSCRIBE" /\ About(r) # None /\ About(r).sub = s

(* A user who waits for the answers, with nothing under way: the client has *)
(* the games of its subscriptions at the server, under the same ids, all of *)
(* them but those it was asked to leave, and the next numbers are ones that *)
(* nobody has used.                                                         *)
ClientKnowsItsGames ==
  ~hurried /\ crashed = "no" /\ kpc = "line" /\ ~Unanswered /\ server = "open" =>
    /\ \A s \in Ids : games[s] # None => subs[s] = games[s]
    /\ \A s \in Ids : subs[s] # None => games[s] = subs[s] \/ ExitAsked(s)
    /\ receipts[receiptId] = None
    /\ subs[subId] = None

(* No exception ends the client of such a user while the connection lasts,  *)
(* whether it logs out or is sent an ERROR: only a report, of whose frames  *)
(* the server refused one and left others unread.                           *)
PatientUserSurvives ==
  crashed \in {"read", "receipt"} /\ ~hurried /\ ~lost =>
    crashed = "read" /\ msg.cmd = "SEND" /\ Reset

(* The socket thread waits for a connection, and none will come.            *)
Spinning == spc = "spin" /\ ~connected

(* Once the client is to stop the socket thread does not stay in getLine:   *)
(* it ends, in an exception maybe, or it never saw that there was a         *)
(* connection.                                                              *)
ShutsDown == shouldTerminate ~> spc = "done" \/ crashed # "no" \/ Spinning
=============================================================================

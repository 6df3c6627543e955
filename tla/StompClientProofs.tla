------------------------- MODULE StompClientProofs -------------------------
(* Theorems about StompClient, for every set of games and every number of   *)
(* commands, of events in a report and of unread messages.                  *)
EXTENDS StompClient, FiniteSetTheorems, FunctionTheorems, TLAPS

LEMMA TailType ==
  ASSUME NEW S, NEW q \in Seq(S), q # <<>>
  PROVE  /\ Head(q) \in S /\ Tail(q) \in Seq(S) /\ Head(q) = q[1]
         /\ Len(q) \in Nat \ {0} /\ Len(Tail(q)) = Len(q) - 1
         /\ \A i \in 1 .. Len(q) - 1 : Tail(q)[i] = q[i + 1]
OBVIOUS

LEMMA AppendType ==
  ASSUME NEW S, NEW q \in Seq(S), NEW e \in S
  PROVE  /\ Append(q, e) \in Seq(S) /\ Len(q) \in Nat /\ Len(Append(q, e)) = Len(q) + 1
         /\ \A i \in 1 .. Len(q) : Append(q, e)[i] = q[i]
         /\ Append(q, e)[Len(q) + 1] = e
OBVIOUS

LEMMA SeqMonotonic ==
  ASSUME NEW S, NEW T, S \subseteq T, NEW q \in Seq(S)
  PROVE  q \in Seq(T)
OBVIOUS

LEMMA IdsFacts == Ids \subseteq Nat /\ 0 \in Ids /\ None \notin Ids /\ MaxCommands \in Nat
BY CommandsAssumption, NoneAssumption DEF Ids

-----------------------------------------------------------------------------
(* How many frames of a queue a command pays for: those that ask for a      *)
(* RECEIPT, and the RECEIPTs.                                               *)

Paying == Confirmed \cup {"RECEIPT"}
Places(q) == {i \in 1 .. Len(q) : q[i].cmd \in Paying}
Count(q) == Cardinality(Places(q))

LEMMA CountType ==
  ASSUME NEW S, NEW q \in Seq(S)
  PROVE  IsFiniteSet(Places(q)) /\ Count(q) \in Nat
<1>1. IsFiniteSet(1 .. Len(q))
  BY FS_Interval
<1>2. Places(q) \in SUBSET (1 .. Len(q))
  BY DEF Places
<1>3. IsFiniteSet(Places(q))
  BY <1>1, <1>2, FS_Subset
<1>4. QED
  BY <1>3, FS_CardinalityType DEF Count

LEMMA CountEmpty == Count(<<>>) = 0
<1>1. Places(<<>>) = {}
  BY DEF Places
<1>2. QED
  BY <1>1, FS_EmptySet DEF Count

LEMMA CountAppend ==
  ASSUME NEW S, NEW q \in Seq(S), NEW e \in S
  PROVE  Count(Append(q, e)) = Count(q) + (IF e.cmd \in Paying THEN 1 ELSE 0)
<1> DEFINE n == Len(q)
           a == Append(q, e)
<1>1. /\ n \in Nat /\ Len(a) = n + 1 /\ a[n + 1] = e
      /\ \A i \in 1 .. n : a[i] = q[i]
  BY AppendType
<1>2. IsFiniteSet(Places(q)) /\ n + 1 \notin Places(q) /\ Count(q) \in Nat
  BY <1>1, CountType DEF Places
<1> HIDE DEF n, a
<1>3. CASE e.cmd \in Paying
  <2>1. Places(a) = Places(q) \cup {n + 1}
    BY <1>1, <1>3 DEF Places, n
  <2>2. QED
    BY <1>2, <1>3, <2>1, FS_AddElement DEF Count, a
<1>4. CASE e.cmd \notin Paying
  <2>1. Places(a) = Places(q)
    BY <1>1, <1>4 DEF Places, n
  <2>2. QED
    BY <1>2, <1>4, <2>1 DEF Count, a
<1>5. QED
  BY <1>3, <1>4

LEMMA CountTail ==
  ASSUME NEW S, NEW q \in Seq(S), q # <<>>
  PROVE  Count(q) = Count(Tail(q)) + (IF Head(q).cmd \in Paying THEN 1 ELSE 0)
<1> DEFINE t == Tail(q)
           n == Len(t)
           rest == Places(q) \ {1}
           shift == [i \in Places(t) |-> i + 1]
<1>1. /\ n \in Nat /\ Len(q) = n + 1 /\ t \in Seq(S)
      /\ \A i \in 1 .. n : t[i] = q[i + 1]
  BY TailType
<1>2. Head(q) = q[1]
  BY TailType
<1>3. /\ IsFiniteSet(Places(q)) /\ Count(q) \in Nat
      /\ IsFiniteSet(Places(t)) /\ Count(t) \in Nat
  BY <1>1, CountType
<1>4. \A i \in 1 .. n : i \in Places(t) <=> i + 1 \in Places(q)
  BY <1>1 DEF Places
<1>5. Places(t) \subseteq 1 .. n /\ Places(q) \subseteq 1 .. n + 1
  BY <1>1 DEF Places
<1> HIDE DEF t, n
<1>6. shift \in Bijection(Places(t), rest)
  <2>1. \A i \in Places(t) : shift[i] \in rest
    BY <1>1, <1>4, <1>5
  <2>2. \A i, j \in Places(t) : shift[i] = shift[j] => i = j
    BY <1>1, <1>5
  <2>3. \A j \in rest : \E i \in Places(t) : shift[i] = j
    <3> SUFFICES ASSUME NEW j \in rest PROVE \E i \in Places(t) : shift[i] = j
      OBVIOUS
    <3>1. j - 1 \in 1 .. n /\ (j - 1) + 1 = j
      BY <1>1, <1>5
    <3>2. j - 1 \in Places(t)
      BY <1>4, <3>1
    <3>3. QED
      BY <3>1, <3>2
  <2>4. QED
    BY <2>1, <2>2, <2>3, Fun_IsBij
<1>7. Cardinality(rest) = Count(t)
  BY <1>3, <1>6, FS_Bijection DEF ExistsBijection, Count
<1>8. 1 \in Places(q) <=> Head(q).cmd \in Paying
  BY <1>1, <1>2 DEF Places
<1>9. Cardinality(rest) = IF 1 \in Places(q) THEN Count(q) - 1 ELSE Count(q)
  BY <1>3, FS_RemoveElement DEF Count
<1>10. QED
  BY <1>3, <1>7, <1>8, <1>9 DEF t

-----------------------------------------------------------------------------
(* The kinds of steps there are.                                            *)

(* Steps that leave the two queues and the protocol object alone.           *)
Quiet ==
  \/ NotLogin \/ Connect \/ NoName \/ Loop \/ Stop \/ AllSent \/ Leave \/ BadLine
  \/ Spin \/ Check \/ ReadFails \/ End \/ Fail \/ \E g \in Games : OtherJoins(g)

TakeStep ==
  TakeConnectedOrMessage \/ TakeError \/ ReceiptUnknown \/ Joined \/ Exited \/ LoggedOut

Told == \E g \in Games : OtherSends(g)

(* A command that asks for a receipt is composed with the numbers of the    *)
(* day.                                                                     *)
Dated(f) ==
  /\ f.cmd \in Confirmed
  /\ f.receipt = receiptId
  /\ f.cmd = "SUBSCRIBE" => f.sub = subId /\ f.game \in Games
  /\ f.cmd = "UNSUBSCRIBE" => f.game = None

ComposeAny ==
  \E f \in Frames, n \in 0 .. MaxEvents :
    \/ Compose(f, n, "record") /\ Dated(f)
    \/ Compose(f, n, "send") /\ f.cmd = "SEND"

LEMMA FrameType ==
  ASSUME NEW cmd \in {"CONNECT", "SEND", "CONNECTED", "MESSAGE", "RECEIPT", "ERROR"} \cup Confirmed,
         NEW s \in Ids \cup {None}, NEW r \in Ids \cup {None}, NEW g \in Games \cup {None}
  PROVE  Frame(cmd, s, r, g) \in Frames
BY DEF Frame, Frames, Commands

LEMMA UserSteps ==
  ASSUME TypeOK, User
  PROVE  BadLine \/ ComposeAny
<1>1. receiptId \in Ids /\ subId \in Ids /\ 0 \in 0 .. MaxEvents
  BY CommandsAssumption DEF TypeOK, NumbersType
<1>2. ASSUME Logout PROVE ComposeAny
  <2>1. Frame("DISCONNECT", None, receiptId, None) \in Frames
    BY <1>1, FrameType DEF Confirmed
  <2>2. Dated(Frame("DISCONNECT", None, receiptId, None))
    BY DEF Dated, Frame, Confirmed
  <2>3. QED
    BY <1>1, <1>2, <2>1, <2>2 DEF Logout, ComposeAny
<1>3. ASSUME NEW g \in Games, Join(g) PROVE ComposeAny
  <2>1. Frame("SUBSCRIBE", subId, receiptId, g) \in Frames
    BY <1>1, FrameType DEF Confirmed
  <2>2. Dated(Frame("SUBSCRIBE", subId, receiptId, g))
    BY DEF Dated, Frame, Confirmed
  <2>3. QED
    BY <1>1, <1>3, <2>1, <2>2 DEF Join, ComposeAny
<1>4. ASSUME NEW g \in Games, Exit(g) PROVE ComposeAny
  <2>1. PICK s \in Ids \cup {None} :
          Compose(Frame("UNSUBSCRIBE", s, receiptId, None), 0, "record")
    BY <1>4 DEF Exit
  <2>2. Frame("UNSUBSCRIBE", s, receiptId, None) \in Frames
    BY <1>1, FrameType DEF Confirmed
  <2>3. Dated(Frame("UNSUBSCRIBE", s, receiptId, None))
    BY DEF Dated, Frame, Confirmed
  <2>4. QED
    BY <1>1, <2>1, <2>2, <2>3 DEF ComposeAny
<1>5. ASSUME NEW g \in Games, Report(g) PROVE ComposeAny
  <2>1. Frame("SEND", None, None, g) \in Frames /\ Frame("SEND", None, None, g).cmd = "SEND"
    BY FrameType DEF Frame
  <2>2. PICK n \in 0 .. MaxEvents : Compose(Frame("SEND", None, None, g), n, "send")
    BY <1>5 DEF Report
  <2>3. QED
    BY <2>1, <2>2 DEF ComposeAny
<1>6. QED
  BY <1>2, <1>3, <1>4, <1>5 DEF User

LEMMA Steps ==
  ASSUME TypeOK, Next
  PROVE  \/ Quiet \/ ComposeAny \/ Login \/ Record \/ Send \/ SendEvent
         \/ TakeStep \/ CountSub \/ Serve \/ Told
<1>1. CASE Keyboard
  BY <1>1 DEF Keyboard, Quiet
<1>2. CASE User
  BY <1>2, UserSteps DEF Quiet
<1>3. CASE Socket
  BY <1>3 DEF Socket, Quiet, TakeStep
<1>4. CASE Serve \/ Others \/ Fail
  BY <1>4 DEF Others, Quiet, Told
<1>5. QED
  BY <1>1, <1>2, <1>3, <1>4 DEF Next

LEMMA QuietFacts ==
  ASSUME Quiet
  PROVE  /\ toServer' = toServer /\ toClient' = toClient
         /\ msg' = msg /\ events' = events /\ subs' = subs
         /\ UNCHANGED protocol
         /\ kpc' \in {"record", "send"} => kpc' = kpc
         /\ kpc' \in {"start", "login"} => kpc \in {"start", "login"}
         /\ spc' = "count" => spc = "count"
         /\ spc = "count" => spc' = "count"
         /\ server' = server \/ (server' = "closed" /\ lost')
         /\ spc \in {"end", "done"} => spc' \in {"end", "done"}
         /\ hurried => hurried'
         /\ lost => lost'
         /\ kpc \in {"leave", "done"} => kpc' \in {"leave", "done"}
         /\ kpc = "send" /\ msg.cmd # "SEND" => kpc' = "send"
         /\ kpc # "start" => kpc' # "start" /\ (socket' = "open" => socket = "open")
<1>1. CASE BadLine
  BY <1>1 DEF BadLine, Typed, Crash, protocol, network, serverSide
<1>2. CASE NotLogin \/ Connect \/ NoName \/ Loop \/ Stop \/ AllSent \/ Leave
  BY <1>2 DEF NotLogin, Connect, NoName, Loop, Stop, AllSent, Leave, Crash, protocol, network,
              serverSide,
     history
<1>3. CASE Spin \/ Check \/ ReadFails \/ End \/ Fail
  BY <1>3 DEF Spin, Check, ReadFails, End, Fail, Crash, task, protocol, network, serverSide,
     history
<1>4. CASE \E g \in Games : OtherJoins(g)
  BY <1>4 DEF OtherJoins, task, protocol, history
<1>5. QED
  BY <1>1, <1>2, <1>3, <1>4 DEF Quiet

(* What the server answers to the frame f, and what that makes of it.       *)
Answered(f, cmd, r) ==
  /\ Answer(cmd, r)
  /\ cmd \in {"CONNECTED", "MESSAGE"} => UNCHANGED serverSide
  /\ cmd = "CONNECTED" => f.cmd = "CONNECT"
  /\ cmd = "MESSAGE" => f.cmd = "SEND"
  /\ cmd = "ERROR" => Disconnect /\ channels' = channels
  /\ cmd = "RECEIPT" =>
       /\ f.cmd \in Confirmed /\ r = f.receipt
       /\ f.cmd = "SUBSCRIBE" =>
            /\ subs' = [subs EXCEPT ![f.sub] = f.game]
            /\ channels' = channels \cup {f.game}
            /\ server' = server
       /\ f.cmd = "UNSUBSCRIBE" => UNCHANGED serverSide /\ f.sub # None
       /\ f.cmd = "DISCONNECT" => Disconnect /\ channels' = channels

(* The server takes one frame, and answers it or, if it is a report on a    *)
(* game the user does not follow, does not.                                 *)
LEMMA ServeFacts ==
  ASSUME Serve
  PROVE  /\ toServer # <<>> /\ toServer' = Tail(toServer) /\ server = "open"
         /\ UNCHANGED <<task, protocol, history>>
         /\ \/ Head(toServer).cmd = "SEND" /\ UNCHANGED <<toClient, serverSide>>
            \/ \E cmd \in {"CONNECTED", "MESSAGE", "ERROR", "RECEIPT"},
                  r \in {None, Head(toServer).receipt} : Answered(Head(toServer), cmd, r)
<1> DEFINE f == Head(toServer)
<1>1. /\ toServer # <<>> /\ toServer' = Tail(toServer) /\ server = "open"
      /\ UNCHANGED <<task, protocol, history>>
  BY DEF Serve
<1>2. CASE f.cmd = "CONNECT"
  <2>1. Answered(f, "CONNECTED", None) \/ Answered(f, "ERROR", None)
    BY <1>2 DEF Serve, Refuse, Answered
  <2>2. QED
    BY <1>1, <2>1
<1>3. CASE f.cmd = "SUBSCRIBE"
  <2>1. Answered(f, "RECEIPT", f.receipt)
    BY <1>3 DEF Serve, Answered, Confirmed
  <2>2. QED
    BY <1>1, <2>1
<1>4. CASE f.cmd = "UNSUBSCRIBE"
  <2>1. Answered(f, "RECEIPT", f.receipt) \/ Answered(f, "ERROR", None)
    BY <1>4 DEF Serve, Refuse, Subscribed, Answered, Confirmed
  <2>2. QED
    BY <1>1, <2>1
<1>5. CASE f.cmd = "SEND"
  <2>1. \/ UNCHANGED <<toClient, serverSide>>
        \/ Answered(f, "MESSAGE", None) \/ Answered(f, "ERROR", None)
    BY <1>5 DEF Serve, Refuse, Answered
  <2>2. QED
    BY <1>1, <1>5, <2>1
<1>6. CASE f.cmd = "DISCONNECT"
  <2>1. Answered(f, "RECEIPT", f.receipt)
    BY <1>6 DEF Serve, Answered, Confirmed
  <2>2. QED
    BY <1>1, <2>1
<1>7. QED
  BY <1>2, <1>3, <1>4, <1>5, <1>6 DEF Serve

-----------------------------------------------------------------------------
(* The inductive invariant: the types; what is under way has its entry; and *)
(* each RECEIPT to come is paid for by a command.                           *)

Entered(f) == f.receipt \in Ids /\ receipts[f.receipt] # None

Asking ==
  {f \in Frames : /\ f.cmd \in Confirmed => Entered(f)
                  /\ f.cmd = "SUBSCRIBE" => f.game \in Games}
Answers == {f \in Frames : f.cmd = "RECEIPT" => Entered(f)}

UnderWay ==
  /\ toServer \in Seq(Asking)
  /\ toClient \in Seq(Answers)
  /\ kpc = "record" =>
       /\ msg.cmd \in Confirmed /\ msg.receipt \in Ids
       /\ msg.cmd = "SUBSCRIBE" => msg.game \in Games
  /\ kpc = "send" => msg \in Asking /\ msg.cmd \in Confirmed \cup {"SEND"}

(* What the keyboard thread is about to send.                               *)
ToSend == IF kpc = "record" \/ (kpc = "send" /\ msg.cmd # "SEND") THEN 1 ELSE 0

Paid == receiptId + Count(toServer) + Count(toClient) + ToSend <= typed

IInv == TypeOK /\ UnderWay /\ Paid

LEMMA InitIInv == Init => IInv
<1> SUFFICES ASSUME Init PROVE IInv
  OBVIOUS
<1>1. /\ 0 \in Ids /\ NoFrame \in Frames /\ typed \in 0 .. MaxCommands
      /\ 0 \in 0 .. MaxEvents
  BY IdsFacts, CommandsAssumption DEF Init, NoFrame, Frame, Frames, Commands
<1>2. TypeOK
  BY <1>1, IdsFacts DEF Init, TypeOK, TaskType, NumbersType, MapsType, NetworkType, HistoryType
<1>3. UnderWay /\ Paid
  BY <1>1, IdsFacts, CountEmpty DEF Init, UnderWay, Paid, ToSend
<1>4. QED
  BY <1>2, <1>3 DEF IInv

(* What is under way keeps its entry while entries are only added.          *)
LEMMA StillAsking ==
  ASSUME \A r \in Ids : receipts[r] # None => receipts'[r] # None
  PROVE  Asking \subseteq Asking' /\ Answers \subseteq Answers'
BY DEF Asking, Answers, Entered

LEMMA SameEntries ==
  ASSUME receipts' = receipts
  PROVE  Asking' = Asking /\ Answers' = Answers
BY DEF Asking, Answers, Entered

LEMMA AskingType == Asking \subseteq Frames /\ Answers \subseteq Frames
BY DEF Asking, Answers

(* The conjuncts of TypeOK about the sequences follow from UnderWay.        *)
LEMMA FramesType ==
  ASSUME UnderWay
  PROVE  /\ toServer \in Seq(Frames) /\ toClient \in Seq(Frames)
         /\ Len(toServer) \in Nat /\ Len(toClient) \in Nat
         /\ Count(toServer) \in Nat /\ Count(toClient) \in Nat
         /\ \A i \in 1 .. Len(toServer) : toServer[i] \in Asking
         /\ \A i \in 1 .. Len(toClient) : toClient[i] \in Answers
<1>1. toServer \in Seq(Frames) /\ toClient \in Seq(Frames)
  BY AskingType, SeqMonotonic DEF UnderWay
<1>2. Count(toServer) \in Nat /\ Count(toClient) \in Nat
  BY <1>1, CountType
<1>3. QED
  BY <1>1, <1>2 DEF UnderWay

(* What sendLine leaves of the invariant's part about frames.               *)
LEMMA SentOrNot ==
  ASSUME toServer \in Seq(Asking), NEW f \in Asking, SendLine(f)
  PROVE  /\ toServer' \in Seq(Asking)
         /\ toServer' = toServer \/ toServer' = Append(toServer, f)
         /\ Count(toServer) \in Nat
         /\ \/ Count(toServer') = Count(toServer)
            \/ f.cmd \in Paying /\ Count(toServer') = Count(toServer) + 1
<1>1. toServer' = toServer \/ toServer' = Append(toServer, f)
  BY DEF SendLine, Sent, SendFails
<1>2. Count(Append(toServer, f)) = Count(toServer) + (IF f.cmd \in Paying THEN 1 ELSE 0)
  BY CountAppend
<1>3. Count(toServer) \in Nat
  BY CountType
<1>4. CASE toServer' = toServer
  BY <1>3, <1>4
<1>5. CASE toServer' = Append(toServer, f)
  <2>1. toServer' \in Seq(Asking)
    BY <1>5, AppendType
  <2>2. Count(toServer') = Count(toServer) + (IF f.cmd \in Paying THEN 1 ELSE 0)
    BY <1>2, <1>5
  <2>3. CASE f.cmd \in Paying
    BY <1>3, <1>5, <2>1, <2>2, <2>3
  <2>4. CASE f.cmd \notin Paying
    BY <1>3, <1>5, <2>1, <2>2, <2>4
  <2>5. QED
    BY <2>3, <2>4
<1>6. QED
  BY <1>1, <1>4, <1>5

(* A step that changes neither the maps nor the numbers keeps their types.  *)
LEMMA SameProtocol ==
  ASSUME NumbersType, MapsType, UNCHANGED protocol, spc' = "count" => spc = "count"
  PROVE  NumbersType' /\ MapsType'
<1>1. NumbersType'
  BY IdsFacts DEF NumbersType, protocol
<1>2. MapsType'
  BY DEF MapsType, protocol
<1>3. QED
  BY <1>1, <1>2

LEMMA QuietSteps ==
  ASSUME IInv, Quiet \/ UNCHANGED vars
  PROVE  IInv'
<1> USE DEF IInv, TypeOK
<1>1. /\ toServer' = toServer /\ toClient' = toClient /\ msg' = msg /\ events' = events
      /\ UNCHANGED protocol /\ subs' = subs
      /\ kpc' \in {"record", "send"} => kpc' = kpc
      /\ spc' = "count" => spc = "count"
  BY QuietFacts DEF vars, task, network, serverSide
<1>2. typed' = typed \/ (typed' = typed + 1 /\ typed < MaxCommands)
  BY DEF Quiet, NotLogin, Connect, NoName, Loop, Stop, AllSent, Leave, BadLine, Typed, Spin, Check,
     ReadFails, End, Fail, OtherJoins, vars, history
<1>3. UnderWay'
  BY <1>1, SameEntries DEF UnderWay, protocol
<1>4. Paid'
  BY <1>1, <1>2, FramesType, IdsFacts DEF HistoryType, NumbersType, Paid, ToSend, protocol
<1>5. TaskType'
  <2>1. CASE NotLogin \/ Connect \/ NoName \/ Loop \/ Stop \/ AllSent \/ Leave \/ BadLine
    BY <2>1 DEF TaskType, NotLogin, Connect, NoName, Loop, Stop, AllSent, Leave, BadLine, Typed,
                Crash
  <2>2. CASE Spin \/ Check \/ ReadFails \/ End \/ Fail \/ UNCHANGED vars
    BY <2>2 DEF TaskType, Spin, Check, ReadFails, End, Crash, Fail, vars, task
  <2>3. CASE \E g \in Games : OtherJoins(g)
    BY <2>3 DEF TaskType, OtherJoins, task
  <2>4. QED
    BY <2>1, <2>2, <2>3 DEF Quiet
<1>6. NetworkType'
  <2>1. server' \in {server, "closed"} /\ channels' \subseteq channels \cup Games
    BY DEF Quiet, NotLogin, Connect, NoName, Loop, Stop, AllSent, Leave, BadLine, Typed, Spin,
           Check,
       ReadFails, End, Fail, OtherJoins, vars, network, serverSide
  <2>2. QED
    BY <1>1, <2>1 DEF NetworkType
<1>7. HistoryType'
  <2>1. typed' \in 0 .. MaxCommands
    BY <1>2, CommandsAssumption DEF HistoryType
  <2>2. hurried' \in BOOLEAN /\ lost' \in BOOLEAN
    BY DEF HistoryType, Quiet, NotLogin, Connect, NoName, Loop, Stop, AllSent, Leave, BadLine,
           Typed,
       Unanswered, Spin, Check, ReadFails, End, Fail, OtherJoins, vars, history
  <2>3. QED
    BY <2>1, <2>2 DEF HistoryType
<1>8. QED
  BY <1>1, <1>3, <1>4, <1>5, <1>6, <1>7, SameProtocol

LEMMA SendingSteps ==
  ASSUME IInv, NEW f \in Asking, SendLine(f),
         f.cmd \in Paying => ToSend = 1 /\ ToSend' = 0,
         ToSend' \in {0, ToSend},
         kpc' \in {"loop", "leave"} \/ (kpc' = "send" /\ kpc = "send"),
         events' \in {events, events - 1}, events' \in Nat,
         UNCHANGED <<connected, spc, msg, socket, crashed, protocol, toClient, serverSide, history>>
  PROVE  IInv'
<1> USE DEF IInv, TypeOK
<1>1. toServer \in Seq(Asking)
  BY DEF UnderWay
<1>2. /\ toServer' \in Seq(Asking) /\ Count(toServer) \in Nat
      /\ \/ Count(toServer') = Count(toServer)
         \/ f.cmd \in Paying /\ Count(toServer') = Count(toServer) + 1
  BY <1>1, SentOrNot
<1>3. UnderWay'
  BY <1>2, SameEntries DEF UnderWay, protocol
<1>4. Paid'
  <2>1. ToSend \in {0, 1}
    BY DEF ToSend
  <2>2. receiptId \in Nat /\ typed \in Nat /\ Count(toClient) \in Nat
    BY FramesType, IdsFacts DEF NumbersType, HistoryType
  <2>3. UNCHANGED <<receiptId, typed, toClient>>
    BY DEF protocol, history
  <2> HIDE DEF ToSend
  <2>4. QED
    BY <1>2, <2>1, <2>2, <2>3 DEF Paid
<1>5. TaskType' /\ HistoryType'
  <2>1. events' \in 0 .. MaxEvents
    BY CommandsAssumption DEF TaskType
  <2>2. shouldTerminate' \in BOOLEAN
    BY DEF SendLine, TaskType
  <2>3. QED
    BY <2>1, <2>2 DEF TaskType, HistoryType, history
<1>6. toServer' \in Seq(Frames)
  BY <1>2, AskingType, SeqMonotonic
<1>7. NetworkType'
  BY <1>6 DEF NetworkType, serverSide
<1>8. QED
  BY <1>3, <1>4, <1>5, <1>7, SameProtocol

LEMMA SendSteps ==
  ASSUME IInv, Login \/ Send \/ SendEvent
  PROVE  IInv'
<1>1. events \in Nat
  BY DEF IInv, TypeOK, TaskType
<1>2. CASE Login
  <2>1. /\ Frame("CONNECT", None, None, None) \in Asking
        /\ Frame("CONNECT", None, None, None).cmd \notin Paying
    BY FrameType DEF Asking, Frame, Confirmed, Paying
  <2>2. ToSend' = 0
    BY <1>2 DEF Login, ToSend
  <2>3. QED
    BY <1>1, <1>2, <2>1, <2>2, SendingSteps DEF Login
<1>3. CASE Send
  <2>1. msg \in Asking /\ ToSend = 1 /\ ToSend' = 0
    BY <1>3 DEF Send, IInv, UnderWay, ToSend, Confirmed
  <2>2. QED
    BY <1>1, <1>3, <2>1, SendingSteps DEF Send
<1>4. CASE SendEvent
  <2>1. msg \in Asking /\ msg.cmd \notin Paying /\ ToSend' = 0
    BY <1>4 DEF SendEvent, IInv, UnderWay, ToSend, Confirmed, Paying
  <2>2. events - 1 \in Nat
    BY <1>1, <1>4 DEF SendEvent
  <2>3. QED
    BY <1>4, <2>1, <2>2, SendingSteps DEF SendEvent
<1>5. QED
  BY <1>2, <1>3, <1>4

LEMMA ComposeStep ==
  ASSUME IInv, ComposeAny
  PROVE  IInv'
<1> USE DEF IInv, TypeOK
<1>1. PICK f \in Frames, n \in 0 .. MaxEvents :
        \/ Compose(f, n, "record") /\ Dated(f)
        \/ Compose(f, n, "send") /\ f.cmd = "SEND"
  BY DEF ComposeAny
<1>2. /\ msg' = f /\ events' = n /\ kpc = "line" /\ typed' = typed + 1 /\ typed < MaxCommands
      /\ \/ kpc' = "record" /\ Dated(f)
         \/ kpc' = "send" /\ f.cmd = "SEND"
      /\ UNCHANGED <<connected, shouldTerminate, spc, socket, crashed, protocol, network, lost>>
      /\ hurried' = (hurried \/ Unanswered)
  BY <1>1 DEF Compose, Typed
<1>3. typed' \in 0 .. MaxCommands
  BY <1>2, CommandsAssumption DEF HistoryType
<1>4. receiptId \in Ids
  BY DEF NumbersType
<1>5. UnderWay'
  <2>1. toServer' = toServer /\ toClient' = toClient /\ Asking' = Asking /\ Answers' = Answers
    BY <1>2, SameEntries DEF protocol, network
  <2>2. kpc' = "send" => f \in Asking
    BY <1>2 DEF Dated, Asking, Confirmed
  <2>3. QED
    BY <1>2, <1>4, <2>1, <2>2 DEF UnderWay, Dated
<1>6. Paid'
  BY <1>2, FramesType, IdsFacts DEF HistoryType, NumbersType, Paid, ToSend, protocol, network
<1>7. TaskType'
  BY <1>2 DEF TaskType
<1>8. HistoryType'
  BY <1>2, <1>3 DEF HistoryType, Unanswered
<1>9. NetworkType'
  BY <1>2 DEF NetworkType, network, serverSide
<1>10. QED
  BY <1>2, <1>5, <1>6, <1>7, <1>8, <1>9, SameProtocol

LEMMA RecordStep ==
  ASSUME IInv, Record
  PROVE  IInv'
<1> USE DEF IInv, TypeOK
<1>1. /\ msg \in Frames /\ msg.cmd \in Confirmed /\ msg.receipt \in Ids /\ None \notin Confirmed
      /\ msg.sub \in Ids \cup {None} /\ msg.game \in Games \cup {None}
      /\ subId \in Ids /\ receiptId \in Ids
      /\ receipts \in [Ids -> Confirmed \cup {None}]
      /\ msg.cmd = "SUBSCRIBE" => msg.game \in Games
  BY NoneAssumption DEF Record, UnderWay, TaskType, NumbersType, MapsType, Frames
<1>2. receipts' \in [Ids -> Confirmed \cup {None}]
  BY <1>1 DEF Record, Insert
<1>3. /\ \A r \in Ids : receipts[r] # None => receipts'[r] # None
      /\ receipts'[msg.receipt] # None
  BY <1>1 DEF Record, Insert
<1>4. gamesBeforeReceipts' \in
        [Ids -> [sub : Ids \cup {None}, game : Games \cup {None}] \cup {None}]
  BY <1>1 DEF Record, Insert, MapsType
<1>5. UnderWay'
  <2>1. Asking \subseteq Asking' /\ Answers \subseteq Answers'
    BY <1>3, StillAsking
  <2>2. toServer' \in Seq(Asking') /\ toClient' \in Seq(Answers')
    BY <2>1, SeqMonotonic DEF UnderWay, Record, network
  <2>3. msg' \in Asking' /\ msg'.cmd \in Confirmed
    BY <1>1, <1>3 DEF Record, Asking, Entered
  <2>4. QED
    BY <2>2, <2>3 DEF UnderWay, Record
<1>6. Paid'
  <2>1. ToSend' \in {0, 1} /\ ToSend = 1
    BY DEF ToSend, Record
  <2>2. UNCHANGED <<toServer, toClient, receiptId, typed>>
    BY DEF Record, network, history
  <2> HIDE DEF ToSend
  <2>3. QED
    BY <2>1, <2>2, FramesType, IdsFacts DEF HistoryType, NumbersType, Paid
<1>7. MapsType'
  BY <1>2, <1>4 DEF MapsType, Record
<1>8. NumbersType' /\ TaskType'
  BY DEF NumbersType, TaskType, Record
<1>9. NetworkType' /\ HistoryType'
  BY DEF NetworkType, HistoryType, Record, network, serverSide, history
<1>10. QED
  BY <1>5, <1>6, <1>7, <1>8, <1>9

-----------------------------------------------------------------------------
(* Taking a frame in leaves the others, and a RECEIPT one paid command      *)
(* less.                                                                    *)
LEMMA TakeFacts ==
  ASSUME IInv, NEW cmd, Take(cmd)
  PROVE  /\ UnderWay' /\ NetworkType' /\ HistoryType'
         /\ Head(toClient) \in Answers /\ Head(toClient).cmd = cmd
         /\ toClient # <<>> /\ toClient' = Tail(toClient)
         /\ spc = "read"
         /\ cmd = "RECEIPT" => receiptId + 1 \in Ids
         /\ receiptId' = receiptId \/ (cmd = "RECEIPT" /\ receiptId' = receiptId + 1) => Paid'
<1> USE DEF IInv, TypeOK, Take
<1>1. /\ toClient \in Seq(Answers) /\ Head(toClient) \in Answers
      /\ Tail(toClient) \in Seq(Answers)
  BY TailType DEF UnderWay
<1>2. UnderWay'
  BY <1>1, SameEntries DEF UnderWay
<1>3. toClient' \in Seq(Frames)
  BY <1>1, AskingType, SeqMonotonic
<1>4. NetworkType' /\ HistoryType'
  BY <1>3 DEF NetworkType, HistoryType, history, serverSide
<1>5. /\ Count(toClient) = Count(toClient') + (IF cmd \in Paying THEN 1 ELSE 0)
      /\ Count(toClient') \in Nat /\ Count(toServer) \in Nat
      /\ receiptId \in Nat /\ typed \in Nat /\ typed <= MaxCommands /\ MaxCommands \in Nat
      /\ ToSend' = ToSend /\ ToSend \in {0, 1}
  <2>1. Count(toClient) = Count(Tail(toClient)) + (IF Head(toClient).cmd \in Paying THEN 1 ELSE 0)
    BY CountTail DEF UnderWay
  <2>2. Count(toClient') \in Nat /\ Count(toServer) \in Nat
    BY <1>3, CountType, FramesType
  <2>3. receiptId \in Nat /\ typed \in Nat /\ typed <= MaxCommands /\ MaxCommands \in Nat
    BY IdsFacts DEF NumbersType, HistoryType
  <2>4. ToSend' = ToSend /\ ToSend \in {0, 1}
    BY DEF ToSend
  <2>5. QED
    BY <2>1, <2>2, <2>3, <2>4
<1>6. UNCHANGED <<toServer, typed>>
  BY DEF history
<1> HIDE DEF ToSend
<1>7. cmd = "RECEIPT" => receiptId + 1 \in Ids
  BY <1>5 DEF Paid, Ids, Paying
<1>8. ASSUME receiptId' = receiptId \/ (cmd = "RECEIPT" /\ receiptId' = receiptId + 1)
      PROVE  Paid'
  BY <1>5, <1>6, <1>8 DEF Paid, Paying
<1>9. QED
  BY <1>1, <1>2, <1>4, <1>7, <1>8

LEMMA TakeOtherSteps ==
  ASSUME IInv, TakeConnectedOrMessage \/ TakeError \/ ReceiptUnknown
  PROVE  IInv'
<1> USE DEF IInv, TypeOK, TakeConnectedOrMessage, TakeError, ReceiptUnknown
<1>1. PICK cmd \in {"CONNECTED", "MESSAGE", "ERROR", "RECEIPT"} : Take(cmd)
  OBVIOUS
<1>2. UNCHANGED protocol
  BY <1>1 DEF protocol, Take
<1>3. UnderWay' /\ NetworkType' /\ HistoryType' /\ Paid' /\ spc = "read"
  BY <1>1, <1>2, TakeFacts DEF protocol
<1>4. TaskType'
  BY <1>1 DEF TaskType, Take, Crash
<1>5. spc' # "count"
  BY <1>3
<1>6. QED
  BY <1>2, <1>3, <1>4, <1>5, SameProtocol

LEMMA ReceiptSteps ==
  ASSUME IInv, Joined \/ Exited \/ LoggedOut
  PROVE  IInv'
<1> USE DEF IInv, TypeOK
<1>1. Take("RECEIPT") /\ receiptId' = receiptId + 1 /\ subId' = subId
  BY DEF Joined, Exited, LoggedOut
<1>2. /\ UnderWay' /\ NetworkType' /\ HistoryType' /\ Paid'
      /\ spc = "read" /\ receiptId' \in Ids
      /\ Head(toClient).receipt \in Ids
  BY <1>1, TakeFacts DEF Answers, Entered
<1>3. TaskType'
  BY <1>1 DEF TaskType, Take, Joined, Exited, LoggedOut
<1>4. NumbersType'
  BY <1>1, <1>2, IdsFacts DEF NumbersType
<1>5. games' \in [Ids -> Games \cup {None}]
  <2> DEFINE entry == About(Head(toClient).receipt)
  <2>1. CASE Joined
    <3>1. entry.sub \in Ids /\ entry.game \in Games \cup {None}
      BY <1>2, <2>1 DEF Joined, Known, About, MapsType
    <3>2. games' = Insert(games, entry.sub, entry.game)
      BY <2>1 DEF Joined
    <3>3. QED
      BY <3>1, <3>2 DEF Insert, MapsType
  <2>2. CASE Exited
    BY <2>2 DEF Exited, MapsType
  <2>3. CASE LoggedOut
    BY <2>3 DEF LoggedOut
  <2>4. QED
    BY <2>1, <2>2, <2>3
<1>6. MapsType'
  BY <1>1, <1>5 DEF MapsType, Take
<1>7. QED
  BY <1>2, <1>3, <1>4, <1>6

LEMMA CountStep ==
  ASSUME IInv, CountSub
  PROVE  IInv'
<1> USE DEF IInv, TypeOK, CountSub
<1>1. NumbersType'
  BY CommandsAssumption DEF NumbersType, Ids
<1>2. TaskType' /\ MapsType'
  BY DEF TaskType, MapsType
<1>3. NetworkType' /\ HistoryType'
  BY DEF NetworkType, HistoryType, network, serverSide, history
<1>4. UnderWay'
  BY SameEntries DEF UnderWay, network
<1>5. Paid'
  BY DEF Paid, ToSend, network, history
<1>6. QED
  BY <1>1, <1>2, <1>3, <1>4, <1>5

(* A MESSAGE is put behind the other answers.                               *)
LEMMA ToldStep ==
  ASSUME IInv, Told
  PROVE  /\ IInv'
         /\ \E e \in Answers : e.cmd = "MESSAGE" /\ toClient' = Append(toClient, e)
         /\ UNCHANGED <<task, protocol, toServer, serverSide, history>>
<1> DEFINE e == Frame("MESSAGE", None, None, None)
<1>1. toClient' = Append(toClient, e) /\ UNCHANGED <<task, protocol, toServer, serverSide, history>>
  BY DEF Told, OtherSends, Answer
<1>2. e \in Answers /\ e.cmd = "MESSAGE" /\ e.cmd \notin Paying
  BY FrameType DEF Answers, Frame, Paying, Confirmed
<1> HIDE DEF e
<1>3. toClient' \in Seq(Answers) /\ Count(toClient') = Count(toClient)
  BY <1>1, <1>2, AppendType, CountAppend, FramesType DEF IInv, UnderWay
<1>4. UnderWay' /\ Paid'
  BY <1>1, <1>3, SameEntries DEF IInv, UnderWay, Paid, ToSend, task, protocol, history
<1>5. toClient' \in Seq(Frames)
  BY <1>3, AskingType, SeqMonotonic
<1>6. NetworkType' /\ TaskType' /\ HistoryType'
  BY <1>1, <1>5 DEF IInv, TypeOK, NetworkType, TaskType, HistoryType, task, serverSide, history
<1>7. NumbersType' /\ MapsType'
  BY <1>1, SameProtocol DEF IInv, TypeOK, task
<1>8. QED
  BY <1>1, <1>2, <1>4, <1>6, <1>7 DEF IInv, TypeOK

(* Every answer of the server is of the frame it took.                      *)
LEMMA ServeStep ==
  ASSUME IInv, Serve
  PROVE  IInv'
<1> USE DEF IInv, TypeOK
<1>1. PICK f \in Asking : f = Head(toServer)
  BY ServeFacts, TailType DEF UnderWay
<1>2. /\ Tail(toServer) \in Seq(Asking) /\ toServer' = Tail(toServer)
      /\ Count(toServer) = Count(toServer') + (IF f.cmd \in Paying THEN 1 ELSE 0)
      /\ Count(toServer') \in Nat
      /\ UNCHANGED <<task, protocol, history>>
  BY <1>1, ServeFacts, TailType, CountTail, CountType DEF UnderWay
<1>3. f.receipt \in Ids \cup {None}
  BY <1>1 DEF Asking, Frames
<1>4. /\ toClient' \in Seq(Answers)
      /\ Count(toClient) \in Nat
      /\ \/ Count(toClient') = Count(toClient)
         \/ f.cmd \in Confirmed /\ Count(toClient') = Count(toClient) + 1
      /\ server' \in {"open", "closed"} /\ subs' \in [Ids -> Games \cup {None}]
      /\ channels' \subseteq Games
  <2>1. toClient \in Seq(Answers) /\ Count(toClient) \in Nat
    BY FramesType DEF UnderWay
  <2>2. CASE UNCHANGED <<toClient, serverSide>>
    BY <2>1, <2>2 DEF serverSide, NetworkType
  <2>3. CASE \E cmd \in {"CONNECTED", "MESSAGE", "ERROR", "RECEIPT"}, r \in {None, f.receipt} :
               Answered(f, cmd, r)
    <3>1. PICK cmd \in {"CONNECTED", "MESSAGE", "ERROR", "RECEIPT"}, r \in {None, f.receipt} :
                 Answered(f, cmd, r)
      BY <2>3
    <3> DEFINE e == Frame(cmd, None, r, None)
    <3>2. e \in Frames /\ e.cmd = cmd /\ e.receipt = r
      BY <1>3, FrameType DEF Frame
    <3>3. e \in Answers
      BY <1>1, <3>1, <3>2 DEF Answers, Asking, Entered, Answered
    <3>4. toClient' = Append(toClient, e)
      BY <3>1 DEF Answered, Answer
    <3> HIDE DEF e
    <3>5. toClient' \in Seq(Answers)
      BY <2>1, <3>3, <3>4, AppendType
    <3>6. Count(toClient') = Count(toClient) + (IF cmd \in Paying THEN 1 ELSE 0)
      BY <2>1, <3>2, <3>3, <3>4, CountAppend
    <3>7. cmd \in Paying => f.cmd \in Confirmed
      BY <3>1 DEF Paying, Confirmed, Answered
    <3>8. server' \in {"open", "closed"} /\ subs' \in [Ids -> Games \cup {None}]
          /\ channels' \subseteq Games
      <4>1. server \in {"open", "closed"} /\ subs \in [Ids -> Games \cup {None}]
            /\ channels \subseteq Games
        BY DEF NetworkType
      <4>2. CASE cmd # "RECEIPT"
        BY <3>1, <4>1, <4>2 DEF Answered, Disconnect, serverSide
      <4>3. CASE cmd = "RECEIPT" /\ f.cmd = "SUBSCRIBE"
        <5>1. f.game \in Games
          BY <1>1, <4>3 DEF Asking
        <5>2. QED
          BY <3>1, <4>1, <4>3, <5>1 DEF Answered
      <4>4. CASE cmd = "RECEIPT" /\ f.cmd # "SUBSCRIBE"
        BY <3>1, <4>1, <4>4 DEF Answered, Disconnect, serverSide, Confirmed
      <4>5. QED
        BY <4>2, <4>3, <4>4
    <3>9. QED
      BY <2>1, <3>5, <3>6, <3>7, <3>8
  <2>4. QED
    BY <1>1, <2>2, <2>3, ServeFacts
<1>5. UnderWay'
  BY <1>2, <1>4, SameEntries DEF UnderWay, protocol, task
<1>6. Paid'
  <2>1. ToSend' = ToSend /\ ToSend \in {0, 1}
    BY <1>2 DEF ToSend, task
  <2> HIDE DEF ToSend
  <2>2. QED
    BY <1>2, <1>4, <2>1, IdsFacts DEF Paid, Paying, NumbersType, HistoryType, protocol, history
<1>7. NetworkType'
  <2>1. toServer' \in Seq(Frames) /\ toClient' \in Seq(Frames)
    BY <1>2, <1>4, AskingType, SeqMonotonic
  <2>2. QED
    BY <1>4, <2>1 DEF NetworkType
<1>8. TaskType' /\ HistoryType' /\ spc' = spc
  BY <1>2 DEF TaskType, HistoryType, task, history
<1>9. QED
  BY <1>2, <1>5, <1>6, <1>7, <1>8, SameProtocol

LEMMA NextIInv == IInv /\ [Next]_vars => IInv'
<1> SUFFICES ASSUME IInv, [Next]_vars PROVE IInv'
  OBVIOUS
<1>1. CASE Quiet \/ UNCHANGED vars
  BY <1>1, QuietSteps
<1>2. CASE ComposeAny \/ Login \/ Record \/ Send \/ SendEvent
  BY <1>2, ComposeStep, SendSteps, RecordStep
<1>3. CASE TakeStep \/ CountSub
  BY <1>3, TakeOtherSteps, ReceiptSteps, CountStep DEF TakeStep
<1>4. CASE Serve \/ Told
  BY <1>4, ServeStep, ToldStep
<1>5. QED
  BY <1>1, <1>2, <1>3, <1>4, Steps DEF IInv

LEMMA InvariantHolds == Spec => []IInv
<1>1. QED
  BY InitIInv, NextIInv, PTL DEF Spec

-----------------------------------------------------------------------------
(* The two threads keep every variable in its type, with the numbers of     *)
(* receipts and of subscriptions no further than the commands typed.        *)
THEOREM ClientTypeCorrect == Spec => []TypeOK
<1>1. IInv => TypeOK
  BY DEF IInv
<1>2. QED
  BY <1>1, InvariantHolds, PTL

(* No RECEIPT ever comes whose number receipts.at does not know, for any    *)
(* number of commands typed at any speed.                                   *)
THEOREM ClientReceiptsAsked == Spec => []ReceiptAsked
<1>1. IInv => ReceiptAsked
  <2> SUFFICES ASSUME UnderWay PROVE ReceiptAsked
    BY DEF IInv
  <2>1. \A i \in 1 .. Len(toServer) : toServer[i] \in Asking
    BY DEF UnderWay
  <2>2. \A i \in 1 .. Len(toClient) : toClient[i] \in Answers
    BY DEF UnderWay
  <2>3. QED
    BY <2>1, <2>2 DEF ReceiptAsked, Asking, Answers, Entered
<1>2. QED
  BY <1>1, InvariantHolds, PTL
-----------------------------------------------------------------------------
(* Receipts that fail.  An exit from a game that was never joined is        *)
(* entered without a subscription, under the number of the day.  No frame   *)
(* under way has that number yet, and the server, which takes the exit for  *)
(* an error, answers none that comes behind it.                             *)

OfGame == {"SUBSCRIBE", "UNSUBSCRIBE"}

Idle(f) == f.cmd = "UNSUBSCRIBE" /\ f.sub = None

(* Numbers are entered up to the current one, and under the current one     *)
(* with what it is about; nothing is entered after a logout.                *)
Numbered ==
  /\ \A r \in Ids :
       /\ receipts[r] # None => r <= receiptId
       /\ receipts[r] \in OfGame => \E q \in Ids : About(q) # None
       /\ receipts[r] \in OfGame /\ r = receiptId => About(r) # None
       /\ receipts[r] = "DISCONNECT" =>
            kpc \in {"leave", "done"} \/ (kpc = "send" /\ msg.cmd = "DISCONNECT")
  /\ kpc = "record" => msg.receipt <= receiptId

NotAnswered(r) ==
  \A i \in 1 .. Len(toClient) : toClient[i].cmd = "RECEIPT" => toClient[i].receipt # r

NotAsked(r) ==
  \A i \in 1 .. Len(toServer) : toServer[i].cmd \in Confirmed => toServer[i].receipt # r

IdleBefore(r) ==
  \E p \in 1 .. Len(toServer) :
    /\ Idle(toServer[p])
    /\ \A i \in 1 .. p - 1 : toServer[i].cmd \in Confirmed => toServer[i].receipt # r

(* No frame with the number r is answered any more.                         *)
Blocked(r) ==
  /\ NotAnswered(r)
  /\ \/ server = "closed"
     \/ IdleBefore(r)
     \/ NotAsked(r) /\ kpc = "send" /\ Idle(msg)
     \/ NotAsked(r) /\ kpc # "start" /\ socket # "open"

NoneFails == \A r \in Ids : About(r) # None /\ About(r).sub = None => Blocked(r)

RInv == IInv /\ Numbered /\ NoneFails

LEMMA InitRInv == Init => RInv
<1> SUFFICES ASSUME Init PROVE RInv
  OBVIOUS
<1>1. \A r \in Ids : receipts[r] = None /\ About(r) = None
  BY DEF Init, About
<1>2. Numbered
  BY <1>1, NoneAssumption DEF Init, Numbered, OfGame, Confirmed
<1>3. QED
  BY <1>1, <1>2, InitIInv DEF RInv, NoneFails

(* Steps that send nothing and answer nothing with a RECEIPT.               *)
LEMMA QuietBlocked ==
  ASSUME NEW r \in Ids, Blocked(r), IInv,
         toServer' = toServer,
         \/ toClient' = toClient
         \/ toClient # <<>> /\ toClient' = Tail(toClient)
         \/ \E e \in Answers : e.cmd = "MESSAGE" /\ toClient' = Append(toClient, e),
         server = "closed" => server' = "closed",
         kpc = "send" /\ msg.cmd # "SEND" => kpc' = "send" /\ msg' = msg,
         kpc # "start" => kpc' # "start" /\ (socket' = "open" => socket = "open")
  PROVE  Blocked(r)'
<1>1. toClient \in Seq(Answers)
  BY DEF IInv, UnderWay
<1>2. NotAnswered(r)'
  <2>1. CASE toClient # <<>> /\ toClient' = Tail(toClient)
    <3>1. /\ Len(toClient') = Len(toClient) - 1 /\ Len(toClient) \in Nat
          /\ \A i \in 1 .. Len(toClient) - 1 : toClient'[i] = toClient[i + 1]
      BY <1>1, <2>1, TailType
    <3>2. QED
      BY <3>1 DEF Blocked, NotAnswered
  <2>2. CASE \E e \in Answers : e.cmd = "MESSAGE" /\ toClient' = Append(toClient, e)
    <3>1. PICK e \in Answers : e.cmd = "MESSAGE" /\ toClient' = Append(toClient, e)
      BY <2>2
    <3>2. /\ Len(toClient') = Len(toClient) + 1 /\ Len(toClient) \in Nat
          /\ \A i \in 1 .. Len(toClient) : toClient'[i] = toClient[i]
          /\ toClient'[Len(toClient) + 1] = e
      BY <1>1, <3>1, AppendType
    <3>3. QED
      BY <3>1, <3>2 DEF Blocked, NotAnswered
  <2>3. CASE toClient' = toClient
    BY <2>3 DEF Blocked, NotAnswered
  <2>4. QED
    BY <2>1, <2>2, <2>3
<1>3. NotAsked(r) => NotAsked(r)'
  BY DEF NotAsked
<1>4. IdleBefore(r) => IdleBefore(r)'
  BY DEF IdleBefore, Idle
<1>5. Idle(msg) => msg.cmd # "SEND"
  BY DEF Idle
<1>6. QED
  BY <1>2, <1>3, <1>4, <1>5 DEF Blocked, Idle

LEMMA SendBlocked ==
  ASSUME NEW r \in Ids, Blocked(r), IInv, NEW f \in Asking,
         kpc = "send" => f = msg,
         kpc \in {"login", "send"}, kpc' # "start",
         Idle(msg) => kpc' # "send",
         SendLine(f),
         UNCHANGED <<socket, toClient, server, msg>>
  PROVE  Blocked(r)'
<1>1. toServer \in Seq(Asking)
  BY DEF IInv, UnderWay
<1>2. NotAnswered(r)'
  BY DEF Blocked, NotAnswered
<1>3. CASE server = "closed"
  BY <1>2, <1>3 DEF Blocked
<1>4. CASE server # "closed" /\ SendFails
  <2>1. socket # "open" /\ toServer' = toServer
    BY <1>4 DEF SendFails
  <2>2. IdleBefore(r) => IdleBefore(r)'
    BY <2>1 DEF IdleBefore, Idle
  <2>3. NotAsked(r) => NotAsked(r)'
    BY <2>1 DEF NotAsked
  <2>4. QED
    BY <1>2, <1>4, <2>1, <2>2, <2>3 DEF Blocked
<1>5. CASE server # "closed" /\ Sent(f)
  <2>1. socket = "open" /\ toServer' = Append(toServer, f)
    BY <1>5 DEF Sent
  <2>2. /\ Len(toServer) \in Nat /\ Len(toServer') = Len(toServer) + 1
        /\ \A i \in 1 .. Len(toServer) : toServer'[i] = toServer[i]
        /\ toServer'[Len(toServer) + 1] = f
    BY <1>1, <2>1, AppendType
  <2>3. CASE IdleBefore(r)
    <3>1. PICK p \in 1 .. Len(toServer) :
            /\ Idle(toServer[p])
            /\ \A i \in 1 .. p - 1 : toServer[i].cmd \in Confirmed => toServer[i].receipt # r
      BY <2>3 DEF IdleBefore
    <3>2. p \in 1 .. Len(toServer') /\ Idle(toServer'[p])
      BY <2>2, <3>1
    <3>3. \A i \in 1 .. p - 1 : toServer'[i].cmd \in Confirmed => toServer'[i].receipt # r
      BY <2>2, <3>1
    <3>4. IdleBefore(r)'
      BY <3>2, <3>3 DEF IdleBefore, Idle
    <3>5. QED
      BY <1>2, <3>4 DEF Blocked
  <2>4. CASE NotAsked(r) /\ kpc = "send" /\ Idle(msg)
    <3> DEFINE p == Len(toServer) + 1
    <3>1. p \in 1 .. Len(toServer') /\ Idle(toServer'[p])
      BY <2>2, <2>4
    <3>2. \A i \in 1 .. p - 1 : toServer'[i].cmd \in Confirmed => toServer'[i].receipt # r
      BY <2>2, <2>4 DEF NotAsked
    <3>3. IdleBefore(r)'
      BY <3>1, <3>2 DEF IdleBefore, Idle
    <3>4. QED
      BY <1>2, <3>3 DEF Blocked
  <2>5. QED
    BY <1>5, <2>1, <2>3, <2>4 DEF Blocked
<1>6. QED
  BY <1>3, <1>4, <1>5 DEF SendLine

(* The server refuses the idle exit; what it answers before has another     *)
(* number.                                                                  *)
LEMMA ServeBlocked ==
  ASSUME NEW r \in Ids, Blocked(r), IInv, Serve
  PROVE  Blocked(r)'
<1>1. toServer \in Seq(Asking) /\ toClient \in Seq(Answers) /\ server = "open"
  BY ServeFacts DEF IInv, UnderWay
<1>2. PICK f : f = Head(toServer)
  OBVIOUS
<1>3. /\ toServer' = Tail(toServer) /\ f = toServer[1] /\ Len(toServer) \in Nat \ {0}
      /\ f \in Asking
      /\ Len(toServer') = Len(toServer) - 1
      /\ \A i \in 1 .. Len(toServer) - 1 : toServer'[i] = toServer[i + 1]
  BY <1>1, <1>2, ServeFacts, TailType
<1>4. UNCHANGED <<kpc, msg, socket>>
  BY ServeFacts DEF task
<1>5. /\ f.cmd \in Confirmed => f.receipt # r
      /\ IdleBefore(r) \/ NotAsked(r)
      \/ Idle(f)
  <2>1. CASE IdleBefore(r)
    <3>1. PICK p \in 1 .. Len(toServer) :
            /\ Idle(toServer[p])
            /\ \A i \in 1 .. p - 1 : toServer[i].cmd \in Confirmed => toServer[i].receipt # r
      BY <2>1 DEF IdleBefore
    <3>2. CASE p = 1
      BY <1>3, <3>1, <3>2
    <3>3. CASE p # 1
      BY <1>3, <2>1, <3>1, <3>3
    <3>4. QED
      BY <3>2, <3>3
  <2>2. CASE NotAsked(r)
    BY <1>3, <2>2 DEF NotAsked
  <2>3. QED
    BY <1>1, <2>1, <2>2 DEF Blocked
<1>6. NotAnswered(r)' /\ (Idle(f) => server' = "closed")
  <2>1. CASE f.cmd = "SEND" /\ UNCHANGED <<toClient, serverSide>>
    BY <2>1 DEF NotAnswered, Blocked, Idle
  <2>2. CASE \E cmd \in {"CONNECTED", "MESSAGE", "ERROR", "RECEIPT"}, q \in {None, f.receipt} :
               Answered(f, cmd, q)
    <3>1. PICK cmd \in {"CONNECTED", "MESSAGE", "ERROR", "RECEIPT"}, q \in {None, f.receipt} :
               Answered(f, cmd, q)
      BY <2>2
    <3>2. PICK e : e = Frame(cmd, None, q, None)
      OBVIOUS
    <3>3. e.cmd = cmd /\ e.receipt = q /\ toClient' = Append(toClient, e)
      BY <3>1, <3>2 DEF Frame, Answered, Answer
    <3>4. /\ Len(toClient) \in Nat /\ Len(toClient') = Len(toClient) + 1
          /\ \A i \in 1 .. Len(toClient) : toClient'[i] = toClient[i]
          /\ toClient'[Len(toClient) + 1] = e
      BY <1>1, <3>3
    <3>5. cmd = "RECEIPT" => f.cmd \in Confirmed /\ q = f.receipt /\ ~Idle(f)
      BY <3>1 DEF Answered, Idle
    <3>6. NotAnswered(r)'
      BY <1>5, <3>3, <3>4, <3>5 DEF NotAnswered, Blocked
    <3>7. Idle(f) => server' = "closed"
      BY <3>1 DEF Idle, Answered, Disconnect
    <3>8. QED
      BY <3>6, <3>7
  <2>3. QED
    BY <1>2, <2>1, <2>2, ServeFacts
<1>7. CASE Idle(f)
  BY <1>6, <1>7 DEF Blocked
<1>8. CASE IdleBefore(r) /\ ~Idle(f)
  <2>1. PICK p \in 1 .. Len(toServer) :
          /\ Idle(toServer[p])
          /\ \A i \in 1 .. p - 1 : toServer[i].cmd \in Confirmed => toServer[i].receipt # r
    BY <1>8 DEF IdleBefore
  <2>2. p - 1 \in 1 .. Len(toServer) - 1 /\ (p - 1) + 1 = p
    BY <1>3, <1>8, <2>1
  <2>3. p - 1 \in 1 .. Len(toServer') /\ Idle(toServer'[p - 1])
    BY <1>3, <2>1, <2>2
  <2>4. \A i \in 1 .. (p - 1) - 1 : toServer'[i].cmd \in Confirmed => toServer'[i].receipt # r
    <3> SUFFICES ASSUME NEW i \in 1 .. (p - 1) - 1, toServer'[i].cmd \in Confirmed
                 PROVE  toServer'[i].receipt # r
      OBVIOUS
    <3>1. i \in 1 .. Len(toServer) - 1 /\ i + 1 \in 1 .. p - 1
      BY <1>3, <2>2
    <3>2. QED
      BY <1>3, <2>1, <3>1
  <2>5. IdleBefore(r)'
    BY <2>3, <2>4 DEF IdleBefore, Idle
  <2>6. QED
    BY <1>6, <2>5 DEF Blocked
<1>9. CASE NotAsked(r)
  <2>1. NotAsked(r)'
    BY <1>3, <1>9 DEF NotAsked
  <2>2. CASE IdleBefore(r)
    BY <1>7, <1>8, <2>2
  <2>3. QED
    BY <1>1, <1>4, <1>6, <2>1, <2>2 DEF Blocked, Idle
<1>10. QED
  BY <1>1, <1>7, <1>8, <1>9 DEF Blocked

LEMMA BlockedStays ==
  ASSUME NEW r \in Ids, Blocked(r), IInv, [Next]_vars
  PROVE  Blocked(r)'
<1>1. CASE Quiet \/ UNCHANGED vars
  BY <1>1, QuietFacts, QuietBlocked DEF vars, task, network, serverSide
<1>2. CASE ComposeAny \/ Record \/ CountSub
  <2>1. /\ kpc \notin {"start", "send"} \/ UNCHANGED <<kpc, msg>>
        /\ kpc' # "start" \/ kpc = "start"
        /\ socket' = socket
        /\ UNCHANGED network
    BY <1>2 DEF ComposeAny, Compose, Typed, Record, CountSub
  <2>2. QED
    BY <2>1, QuietBlocked DEF network, serverSide
<1>3. CASE TakeStep
  <2>1. /\ toServer' = toServer /\ toClient # <<>> /\ toClient' = Tail(toClient)
        /\ UNCHANGED <<kpc, msg, serverSide>>
        /\ socket' \in {socket, "closed"}
    BY <1>3 DEF TakeStep, TakeConnectedOrMessage, TakeError, ReceiptUnknown, Joined, Exited,
                LoggedOut,
                Take, Crash
  <2>2. QED
    BY <2>1, QuietBlocked DEF serverSide
<1>4. CASE Login
  <2>1. Frame("CONNECT", None, None, None) \in Asking
    BY FrameType DEF Asking, Frame, Confirmed
  <2>2. QED
    BY <1>4, <2>1, SendBlocked DEF Login, serverSide
<1>5. CASE Send \/ SendEvent
  <2>1. msg \in Asking
    BY <1>5 DEF IInv, UnderWay, Send, SendEvent
  <2>2. Idle(msg) => kpc' # "send"
    BY <1>5 DEF Send, SendEvent, Idle
  <2>3. QED
    BY <1>5, <2>1, <2>2, SendBlocked DEF Send, SendEvent, serverSide
<1>6. CASE Serve
  BY <1>6, ServeBlocked
<1>7. CASE Told
  BY <1>7, ToldStep, QuietBlocked DEF task, serverSide
<1>8. QED
  BY <1>1, <1>2, <1>3, <1>4, <1>5, <1>6, <1>7, Steps DEF IInv

(* A step that enters nothing.                                              *)
LEMMA SameNumbers ==
  ASSUME Numbered, IInv,
         UNCHANGED <<receipts, gamesBeforeReceipts>>, receiptId' \in {receiptId, receiptId + 1},
         kpc \in {"leave", "done"} => kpc' \in {"leave", "done"},
         kpc = "send" /\ msg.cmd = "DISCONNECT" =>
           kpc' = "leave" \/ (kpc' = "send" /\ msg' = msg),
         kpc' = "record" => \/ kpc = "record" /\ msg' = msg
                            \/ msg'.receipt = receiptId
  PROVE  Numbered'
<1>1. receiptId \in Nat /\ \A r \in Ids : r \in Nat
  BY IdsFacts DEF IInv, TypeOK, NumbersType
<1>2. kpc = "record" => msg.receipt \in Nat
  BY <1>1 DEF IInv, UnderWay
<1>3. ASSUME NEW r \in Ids
      PROVE  /\ receipts'[r] # None => r <= receiptId'
             /\ receipts'[r] \in OfGame => \E q \in Ids : About(q)' # None
             /\ receipts'[r] \in OfGame /\ r = receiptId' => About(r)' # None
             /\ receipts'[r] = "DISCONNECT" =>
                  kpc' \in {"leave", "done"} \/ (kpc' = "send" /\ msg'.cmd = "DISCONNECT")
  <2>1. r \in Nat /\ receipts'[r] = receipts[r] /\ \A q \in Ids : About(q)' = About(q)
    BY <1>1 DEF About
  <2>2. receipts[r] \in OfGame => receipts[r] # None
    BY NoneAssumption DEF OfGame, Confirmed
  <2>3. r = receiptId' /\ receipts[r] # None => receiptId' = receiptId
    BY <1>1, <2>1 DEF Numbered
  <2>4. receipts'[r] # None => r <= receiptId'
    BY <1>1, <2>1 DEF Numbered
  <2>5. receipts'[r] = "DISCONNECT" =>
          kpc' \in {"leave", "done"} \/ (kpc' = "send" /\ msg'.cmd = "DISCONNECT")
    BY <2>1 DEF Numbered
  <2>6. QED
    BY <2>1, <2>2, <2>3, <2>4, <2>5 DEF Numbered
<1>4. kpc' = "record" => msg'.receipt <= receiptId'
  BY <1>1, <1>2 DEF Numbered
<1>5. QED
  BY <1>3, <1>4 DEF Numbered

(* Every step but Record enters nothing, and the number moves on by one.    *)
LEMMA SameMaps ==
  ASSUME IInv, [Next]_vars, ~Record
  PROVE  /\ UNCHANGED <<receipts, gamesBeforeReceipts>>
         /\ receiptId' \in {receiptId, receiptId + 1}
<1>1. CASE Quiet \/ Serve \/ Told \/ UNCHANGED vars
  BY <1>1, QuietFacts, ServeFacts, ToldStep DEF vars, protocol
<1>2. CASE ComposeAny \/ Login \/ Send \/ SendEvent \/ CountSub
  BY <1>2 DEF ComposeAny, Compose, Typed, Login, Send, SendEvent, CountSub, protocol
<1>3. CASE TakeStep
  BY <1>3 DEF TakeStep, TakeConnectedOrMessage, TakeError, ReceiptUnknown, Joined, Exited,
              LoggedOut,
              Take
<1>4. QED
  BY <1>1, <1>2, <1>3, Steps DEF IInv

LEMMA NextNumbers ==
  ASSUME Numbered, IInv, [Next]_vars, ~Record
  PROVE  Numbered'
<1>0. UNCHANGED <<receipts, gamesBeforeReceipts>> /\ receiptId' \in {receiptId, receiptId + 1}
  BY SameMaps
<1> DEFINE On ==
      /\ kpc \in {"leave", "done"} => kpc' \in {"leave", "done"}
      /\ kpc = "send" /\ msg.cmd = "DISCONNECT" => kpc' = "leave" \/ (kpc' = "send" /\ msg' = msg)
      /\ kpc' = "record" => (kpc = "record" /\ msg' = msg) \/ msg'.receipt = receiptId
<1>1. CASE Quiet \/ UNCHANGED vars
  <2>1. On
    BY <1>1, QuietFacts DEF vars, task
  <2>2. QED
    BY <1>0, <2>1, SameNumbers
<1>2. CASE ComposeAny \/ Login \/ Send \/ SendEvent \/ CountSub
  <2>1. On
    BY <1>2 DEF ComposeAny, Compose, Typed, Login, Send, SendEvent, CountSub, Dated
  <2>2. QED
    BY <1>0, <2>1, SameNumbers
<1>3. CASE TakeStep \/ Serve \/ Told
  <2>1. UNCHANGED <<kpc, msg>>
    BY <1>3, ServeFacts, ToldStep
    DEF TakeStep, TakeConnectedOrMessage, TakeError, ReceiptUnknown, Joined, Exited, LoggedOut,
        Take,
        task
  <2>2. On
    BY <2>1
  <2>3. QED
    BY <1>0, <2>2, SameNumbers
<1>4. QED
  BY <1>1, <1>2, <1>3, Steps DEF IInv

(* A frame under way has a number that is entered, and so a number that the *)
(* current one is not unless something is entered with it.                  *)
LEMMA RecordNoneFails ==
  ASSUME RInv, Record, [Next]_vars
  PROVE  Numbered' /\ NoneFails'
<1> USE DEF RInv
<1>1. /\ receiptId \in Ids /\ receiptId \in Nat /\ subId \in Ids /\ subId # None
      /\ msg.receipt \in Ids /\ msg.receipt \in Nat /\ msg.cmd \in Confirmed
      /\ msg.receipt <= receiptId
      /\ receipts \in [Ids -> Confirmed \cup {None}] /\ None \notin Confirmed
      /\ \A r \in Ids : r \in Nat
  BY IdsFacts, NoneAssumption DEF IInv, TypeOK, NumbersType, MapsType, UnderWay, Numbered, Record
<1>2. /\ receiptId' = receiptId /\ kpc' = "send" /\ kpc = "record" /\ msg' = msg
      /\ UNCHANGED network
      /\ receipts' = Insert(receipts, msg.receipt, msg.cmd)
  BY DEF Record
<1>3. \A r \in Ids : receipts'[r] = IF r = msg.receipt /\ receipts[r] = None THEN msg.cmd
                                    ELSE receipts[r]
  BY <1>1, <1>2 DEF Insert
<1>4. \A r \in Ids : receipts[r] # "DISCONNECT"
  BY <1>2 DEF Numbered
<1> DEFINE entry == [sub |-> IF msg.cmd = "SUBSCRIBE" THEN subId ELSE msg.sub,
                     game |-> IF msg.cmd = "SUBSCRIBE" THEN msg.game ELSE None]
<1>5. \A r \in Ids : About(r)' = IF r = receiptId /\ About(r) = None /\ msg.cmd \in OfGame
                                 THEN entry ELSE About(r)
  <2>1. gamesBeforeReceipts' =
          IF msg.cmd \in OfGame THEN Insert(gamesBeforeReceipts, receiptId, entry)
          ELSE gamesBeforeReceipts
    BY DEF Record, OfGame
  <2> HIDE DEF entry
  <2>2. DOMAIN gamesBeforeReceipts = Ids
    BY DEF IInv, TypeOK, MapsType
  <2>3. QED
    BY <1>1, <2>1, <2>2 DEF About, Insert
<1>6. entry # None
  <2>1. entry \in [sub : Ids \cup {None}, game : Games \cup {None}]
    BY <1>1 DEF IInv, TypeOK, TaskType, Frames
  <2>2. QED
    BY <2>1, EntryAssumption
<1> HIDE DEF entry
<1>7. Numbered'
  <2>1. ASSUME NEW r \in Ids
        PROVE  /\ receipts'[r] # None => r <= receiptId'
               /\ receipts'[r] = "DISCONNECT" => kpc' = "send" /\ msg'.cmd = "DISCONNECT"
    BY <1>1, <1>2, <1>3, <1>4 DEF Numbered
  <2>2. ASSUME NEW r \in Ids, receipts'[r] \in OfGame
        PROVE  /\ \E q \in Ids : About(q)' # None
               /\ r = receiptId' => About(r)' # None
    <3>1. CASE receipts[r] = receipts'[r]
      BY <1>2, <1>5, <1>6, <2>2, <3>1 DEF Numbered
    <3>2. CASE receipts[r] # receipts'[r]
      <4>1. msg.cmd \in OfGame
        BY <1>3, <2>2, <3>2
      <4>2. PICK q \in Ids : q = receiptId
        BY <1>1
      <4>3. About(q)' # None
        BY <1>5, <1>6, <4>1, <4>2
      <4>4. QED
        BY <1>2, <4>2, <4>3
    <3>3. QED
      BY <3>1, <3>2
  <2>3. kpc' # "record"
    BY <1>2
  <2>4. QED
    BY <2>1, <2>2, <2>3 DEF Numbered
<1>8. ASSUME NEW r \in Ids, About(r)' # None, About(r)'.sub = None
      PROVE  Blocked(r)'
  <2>1. CASE About(r) # None
    <3>1. About(r)' = About(r)
      BY <1>5, <2>1
    <3>2. Blocked(r)
      BY <1>8, <2>1, <3>1 DEF NoneFails
    <3>3. QED
      BY <3>2, BlockedStays
  <2>2. CASE About(r) = None
    <3>1. r = receiptId /\ msg.cmd \in OfGame /\ entry.sub = None
      BY <1>5, <1>8, <2>2
    <3>2. Idle(msg)
      BY <1>1, <3>1 DEF entry, Idle, OfGame
    <3>3. receipts[r] = None
      BY <1>1, <1>4, <2>2, <3>1 DEF Numbered, OfGame, Confirmed
    <3>4. NotAsked(r) /\ NotAnswered(r)
      <4>1. /\ \A i \in 1 .. Len(toServer) : toServer[i] \in Asking
            /\ \A i \in 1 .. Len(toClient) : toClient[i] \in Answers
        BY DEF IInv, UnderWay
      <4>2. QED
        BY <3>3, <4>1 DEF NotAsked, NotAnswered, Asking, Answers, Entered
    <3>5. QED
      BY <1>2, <3>2, <3>4 DEF Blocked, NotAsked, NotAnswered, Idle, network
  <2>3. QED
    BY <2>1, <2>2
<1>9. QED
  BY <1>7, <1>8 DEF NoneFails

LEMMA NextRInv == RInv /\ [Next]_vars => RInv'
<1> SUFFICES ASSUME RInv, [Next]_vars PROVE RInv'
  OBVIOUS
<1>1. IInv'
  BY NextIInv DEF RInv
<1>2. CASE Record
  BY <1>1, <1>2, RecordNoneFails DEF RInv
<1>3. CASE ~ Record
  <2>1. Numbered'
    BY <1>3, NextNumbers DEF RInv
  <2>2. ASSUME NEW r \in Ids, About(r)' # None, About(r)'.sub = None
        PROVE  Blocked(r)'
    <3>1. gamesBeforeReceipts' = gamesBeforeReceipts
      BY <1>3, SameMaps DEF RInv
    <3>2. QED
      BY <2>2, <3>1, BlockedStays DEF RInv, NoneFails, About
  <2>3. QED
    BY <1>1, <2>1, <2>2 DEF RInv, NoneFails
<1>4. QED
  BY <1>2, <1>3

(* No RECEIPT is ever taken for a failed one (clientResult), for any number *)
(* of commands typed at any speed.                                          *)
THEOREM ClientNoReceiptFails == Spec => []NoReceiptFails
<1>1. RInv => NoReceiptFails
  <2> SUFFICES ASSUME RInv, NEW i \in 1 .. Len(toClient), toClient[i].cmd = "RECEIPT",
                      Asked(toClient[i].receipt) \in {"SUBSCRIBE", "UNSUBSCRIBE"}
               PROVE  /\ \E q \in Ids : About(q) # None
                      /\ About(toClient[i].receipt) # None => About(toClient[i].receipt).sub # None
    BY DEF NoReceiptFails
  <2> DEFINE r == toClient[i].receipt
  <2>1. r \in Ids
    BY DEF RInv, IInv, UnderWay, Answers, Entered
  <2>2. \E q \in Ids : About(q) # None
    BY <2>1 DEF RInv, Numbered, OfGame, Asked
  <2>3. ~ Blocked(r)
    BY DEF Blocked, NotAsked, NotAnswered
  <2>4. QED
    BY <2>1, <2>2, <2>3 DEF RInv, NoneFails
<1>2. QED
  BY <1>1, InitRInv, NextRInv, PTL DEF Spec


-----------------------------------------------------------------------------
(* The patient user, who types nothing before the last answer is in: one    *)
(* command at a time is composed, under way, answered or being counted, so  *)
(* the numbers read twice are the same, and the number of the day is free   *)
(* until it is entered.  A report is one command of many frames, which end  *)
(* in no answer, or in an ERROR.                                            *)

Calm == ~hurried /\ crashed = "no"

Replied == \E i \in 1 .. Len(toClient) : toClient[i].cmd # "MESSAGE"

Composing == kpc \in {"start", "login", "record"} \/ (kpc = "send" /\ msg.cmd # "SEND")
Reporting == kpc = "send" /\ msg.cmd = "SEND"

AllReports == \A i \in 1 .. Len(toServer) : toServer[i].cmd = "SEND"

(* One answer at most is on its way besides the MESSAGEs, and no frame to   *)
(* the server besides, unless it is an ERROR.                               *)
OneReply ==
  /\ \A i, j \in 1 .. Len(toClient) :
       toClient[i].cmd # "MESSAGE" /\ toClient[j].cmd # "MESSAGE" => i = j
  /\ \A i \in 1 .. Len(toClient) :
       /\ toClient[i].cmd = "ERROR" => server = "closed"
       /\ toClient[i].cmd \notin {"MESSAGE", "ERROR"} => toServer = <<>> /\ ~Reporting

Single ==
  /\ Composing => ~Unanswered
  /\ spc = "count" => toServer = <<>> /\ ~Replied /\ ~Reporting
  /\ toServer # <<>> => (Len(toServer) = 1 /\ kpc # "send") \/ (AllReports /\ msg.cmd = "SEND")
  /\ OneReply

Alone == ~hurried => Single

LEMMA WhatIsUnanswered == Unanswered <=> toServer # <<>> \/ spc = "count" \/ Replied
BY DEF Unanswered, Replied

LEMMA TakeStepFacts ==
  ASSUME IInv, TakeStep
  PROVE  /\ toClient # <<>> /\ toClient' = Tail(toClient)
         /\ Len(toClient) \in Nat \ {0} /\ Len(toClient') = Len(toClient) - 1
         /\ Head(toClient) = toClient[1] /\ Head(toClient) \in Answers
         /\ \A i \in 1 .. Len(toClient') :
              i + 1 \in 2 .. Len(toClient) /\ toClient'[i] = toClient[i + 1]
         /\ spc = "read" /\ socket = "open"
         /\ spc' = "count" => Joined
         /\ \/ Head(toClient).cmd = "RECEIPT"
            \/ UNCHANGED <<receiptId, games>> /\ spc' # "count"
         /\ UNCHANGED <<connected, kpc, msg, events, receipts, gamesBeforeReceipts, toServer,
                        serverSide, subId, history>>
<1>1. /\ toClient # <<>> /\ toClient' = Tail(toClient) /\ spc = "read" /\ socket = "open"
      /\ UNCHANGED <<connected, kpc, msg, events, receipts, gamesBeforeReceipts, toServer,
                     serverSide, history>>
  BY DEF TakeStep, TakeConnectedOrMessage, TakeError, ReceiptUnknown, Joined, Exited, LoggedOut,
         Take
<1>2. /\ spc' = "count" => Joined
      /\ subId' = subId
      /\ \/ Head(toClient).cmd = "RECEIPT"
         \/ UNCHANGED <<receiptId, games>> /\ spc' # "count"
  BY <1>1
  DEF TakeStep, TakeConnectedOrMessage, TakeError, ReceiptUnknown, Joined, Exited, LoggedOut, Take
<1>3. toClient \in Seq(Answers)
  BY DEF IInv, UnderWay
<1>4. /\ Len(toClient) \in Nat \ {0} /\ Len(toClient') = Len(toClient) - 1
      /\ Head(toClient) = toClient[1] /\ Head(toClient) \in Answers
      /\ \A i \in 1 .. Len(toClient) - 1 : toClient'[i] = toClient[i + 1]
  BY <1>1, <1>3, TailType
<1>5. \A i \in 1 .. Len(toClient') :
        i + 1 \in 2 .. Len(toClient) /\ toClient'[i] = toClient[i + 1]
  BY <1>4
<1>6. QED
  BY <1>1, <1>2, <1>4, <1>5

(* What comes behind the other answers.                                     *)
LEMMA BehindFacts ==
  ASSUME IInv, NEW e, toClient' = Append(toClient, e)
  PROVE  /\ Len(toClient) \in Nat /\ Len(toClient') = Len(toClient) + 1
         /\ toClient'[Len(toClient) + 1] = e
         /\ \A i \in 1 .. Len(toClient) : toClient'[i] = toClient[i]
         /\ \A i \in 1 .. Len(toClient') : i \in 1 .. Len(toClient) \/ i = Len(toClient) + 1
<1>1. toClient \in Seq(Frames)
  BY FramesType DEF IInv
<1>2. QED
  BY <1>1

(* What the server takes is the first of the frames, and is followed by     *)
(* frames of a report, or by none.                                          *)
LEMMA ServedFacts ==
  ASSUME IInv, Serve
  PROVE  /\ Len(toServer) \in Nat \ {0} /\ Len(toServer') = Len(toServer) - 1
         /\ Head(toServer) = toServer[1] /\ Head(toServer) \in Asking
         /\ \A i \in 1 .. Len(toServer') :
              i + 1 \in 2 .. Len(toServer) /\ toServer'[i] = toServer[i + 1]
         /\ Len(toServer) = 1 => toServer' = <<>>
<1>1. toServer \in Seq(Asking) /\ toServer # <<>> /\ toServer' = Tail(toServer)
  BY ServeFacts DEF IInv, UnderWay
<1>2. /\ Len(toServer) \in Nat \ {0} /\ Len(toServer') = Len(toServer) - 1
      /\ toServer' \in Seq(Asking)
      /\ Head(toServer) = toServer[1] /\ Head(toServer) \in Asking
      /\ \A i \in 1 .. Len(toServer) - 1 : toServer'[i] = toServer[i + 1]
  BY <1>1, TailType
<1>3. \A i \in 1 .. Len(toServer') :
        i + 1 \in 2 .. Len(toServer) /\ toServer'[i] = toServer[i + 1]
  BY <1>2
<1>4. Len(toServer) = 1 => toServer' = <<>>
  BY <1>2
<1>5. QED
  BY <1>2, <1>3, <1>4

(* What is sent comes behind the other frames.                              *)
LEMMA SentFacts ==
  ASSUME IInv, NEW f, SendLine(f)
  PROVE  \/ SendFails /\ toServer' = toServer /\ shouldTerminate' = TRUE
         \/ /\ Sent(f) /\ toServer' # <<>>
            /\ Len(toServer) \in Nat /\ Len(toServer') = Len(toServer) + 1
            /\ toServer'[Len(toServer) + 1] = f
            /\ \A i \in 1 .. Len(toServer) : toServer'[i] = toServer[i]
            /\ \A i \in 1 .. Len(toServer') : i \in 1 .. Len(toServer) \/ i = Len(toServer) + 1
            /\ toServer = <<>> => Len(toServer') = 1 /\ toServer'[1] = f
<1>1. toServer \in Seq(Frames)
  BY FramesType DEF IInv
<1>2. CASE SendFails /\ shouldTerminate' = TRUE
  BY <1>2 DEF SendFails
<1>3. CASE Sent(f)
  <2>1. toServer' = Append(toServer, f)
    BY <1>3 DEF Sent
  <2>2. QED
    BY <1>1, <1>3, <2>1
<1>4. QED
  BY <1>2, <1>3 DEF SendLine

-----------------------------------------------------------------------------
(* One kind of step after the other keeps the one command alone.            *)

LEMMA SameQueues ==
  ASSUME Single, UNCHANGED <<toServer, toClient>>,
         server = "closed" => server' = "closed",
         Composing' => Composing \/ ~Unanswered',
         spc' = "count" => spc = "count",
         Reporting' => Reporting,
         kpc' = "send" => kpc = "send",
         spc = "count" => spc' = "count",
         msg' = msg \/ toServer = <<>>
  PROVE  Single'
<1>1. Unanswered' = Unanswered /\ Replied' = Replied
  BY DEF Unanswered, Replied
<1>2. OneReply'
  BY DEF Single, OneReply
<1>3. AllReports' = AllReports
  BY DEF AllReports
<1>4. QED
  BY <1>1, <1>2, <1>3 DEF Single

LEMMA QuietAlone ==
  ASSUME Alone, Quiet \/ UNCHANGED vars
  PROVE  Alone'
<1>1. /\ UNCHANGED <<toServer, toClient, msg>>
      /\ kpc' \in {"record", "send"} => kpc' = kpc
      /\ kpc' \in {"start", "login"} => kpc \in {"start", "login"}
      /\ spc' = "count" <=> spc = "count"
      /\ server = "closed" => server' = "closed"
      /\ hurried => hurried'
  BY QuietFacts DEF vars, task, network, serverSide, history
<1>2. (Composing' => Composing) /\ (Reporting' => Reporting)
  BY <1>1 DEF Composing, Reporting
<1>3. QED
  BY <1>1, <1>2, SameQueues DEF Alone

LEMMA ComposeAlone ==
  ASSUME Alone, ComposeAny, ~hurried'
  PROVE  /\ ~hurried /\ Single' /\ toServer = <<>> /\ ~Replied /\ spc # "count"
         /\ kpc = "line" /\ UNCHANGED <<spc, crashed, socket, protocol, network, lost>>
<1>1. /\ UNCHANGED <<spc, crashed, socket, protocol, network, lost>> /\ kpc = "line"
      /\ ~hurried /\ ~Unanswered
  BY DEF ComposeAny, Compose, Typed
<1>2. toServer' = <<>> /\ toClient' = toClient
  BY <1>1 DEF Unanswered, network
<1>3. ~Unanswered' /\ ~Replied' /\ spc' # "count"
  BY <1>1, <1>2 DEF Unanswered, Replied
<1>4. OneReply'
  BY <1>2, <1>3 DEF OneReply, Replied
<1>5. QED
  BY <1>1, <1>2, <1>3, <1>4 DEF Single, Unanswered, Replied

LEMMA SendAlone ==
  ASSUME IInv, Alone, Login \/ Send \/ SendEvent
  PROVE  Alone'
<1> SUFFICES ASSUME Single, ~hurried PROVE Single'
  BY DEF Alone, Login, Send, SendEvent, history
<1>1. UNCHANGED <<toClient, serverSide, msg, spc>>
  BY DEF Login, Send, SendEvent
<1>2. Replied' = Replied
  BY <1>1 DEF Replied
<1>3. CASE Login \/ Send
  <2>1. Composing /\ kpc' \in {"loop", "leave"} /\ \E f : SendLine(f)
    BY <1>3 DEF Login, Send, Composing, Confirmed
  <2>2. toServer = <<>> /\ ~Replied /\ spc # "count"
    BY <2>1, WhatIsUnanswered DEF Single
  <2>3. toServer' = <<>> \/ Len(toServer') = 1
    BY <2>1, <2>2, SentFacts
  <2>4. ~Composing' /\ ~Reporting'
    BY <2>1 DEF Composing, Reporting
  <2>5. OneReply'
    BY <1>2, <2>2 DEF OneReply, Replied
  <2>6. QED
    BY <1>1, <1>2, <2>1, <2>2, <2>3, <2>4, <2>5 DEF Single
<1>4. CASE SendEvent
  <2>1. Reporting /\ kpc' = kpc /\ SendLine(msg) /\ msg.cmd = "SEND"
    BY <1>4 DEF SendEvent, Reporting
  <2>2. AllReports
    BY <2>1 DEF Single, Reporting, AllReports
  <2>3. AllReports'
    BY <2>1, <2>2, SentFacts DEF AllReports
  <2>4. ~Composing' /\ spc # "count"
    BY <1>1, <2>1 DEF Composing, Reporting, Single
  <2>5. OneReply'
    BY <1>1, <2>1 DEF OneReply, Single, serverSide
  <2>6. QED
    BY <1>1, <2>1, <2>3, <2>4, <2>5 DEF Single
<1>5. QED
  BY <1>3, <1>4

LEMMA RecordAlone ==
  ASSUME Alone, Record
  PROVE  Alone'
<1>1. /\ UNCHANGED <<toServer, toClient, msg, spc, hurried, server>>
      /\ kpc = "record" /\ kpc' = "send"
      /\ msg.cmd # "SEND" => ~Reporting'
  BY DEF Record, network, serverSide, history, Reporting
<1>2. Composing
  BY <1>1 DEF Composing
<1>3. Unanswered' = Unanswered /\ Replied' = Replied
  BY <1>1 DEF Unanswered, Replied
<1>4. ASSUME Single PROVE Single'
  <2>1. toServer = <<>> /\ ~Replied /\ spc # "count"
    BY <1>2, <1>4, WhatIsUnanswered DEF Single
  <2>2. OneReply'
    BY <1>1, <1>3, <2>1 DEF OneReply, Replied
  <2>3. ~Unanswered'
    BY <1>2, <1>3, <1>4 DEF Single
  <2>4. QED
    BY <1>1, <1>3, <2>1, <2>2, <2>3 DEF Single
<1>5. QED
  BY <1>1, <1>4 DEF Alone

LEMMA TakeAlone ==
  ASSUME IInv, Alone, TakeStep
  PROVE  Alone'
<1> SUFFICES ASSUME Single, ~hurried PROVE Single'
  BY TakeStepFacts DEF Alone, history
<1>1. UNCHANGED <<kpc, msg, toServer, server>> /\ spc = "read"
  BY TakeStepFacts DEF serverSide
<1>2. /\ Len(toClient) \in Nat \ {0} /\ Len(toClient') = Len(toClient) - 1
      /\ Head(toClient) = toClient[1]
      /\ \A i \in 1 .. Len(toClient') :
           i + 1 \in 2 .. Len(toClient) /\ toClient'[i] = toClient[i + 1]
  BY TakeStepFacts
<1>3. Replied' => Replied /\ Head(toClient).cmd = "MESSAGE"
  BY <1>2 DEF Replied, Single, OneReply
<1>4. OneReply'
  <2>1. ASSUME NEW i \in 1 .. Len(toClient'), NEW j \in 1 .. Len(toClient'),
               toClient'[i].cmd # "MESSAGE", toClient'[j].cmd # "MESSAGE"
        PROVE  i = j
    <3>1. /\ i + 1 \in 1 .. Len(toClient) /\ toClient[i + 1].cmd # "MESSAGE"
          /\ j + 1 \in 1 .. Len(toClient) /\ toClient[j + 1].cmd # "MESSAGE"
      BY <1>2, <2>1
    <3>2. i + 1 = j + 1
      BY <3>1 DEF Single, OneReply
    <3>3. QED
      BY <1>2, <3>2
  <2>2. ASSUME NEW i \in 1 .. Len(toClient')
        PROVE  /\ toClient'[i].cmd = "ERROR" => server' = "closed"
               /\ toClient'[i].cmd \notin {"MESSAGE", "ERROR"} => toServer' = <<>> /\ ~Reporting'
    <3>1. i + 1 \in 1 .. Len(toClient) /\ toClient'[i] = toClient[i + 1]
      BY <1>2
    <3>2. Reporting' = Reporting
      BY <1>1 DEF Reporting
    <3>3. /\ toClient[i + 1].cmd = "ERROR" => server = "closed"
          /\ toClient[i + 1].cmd \notin {"MESSAGE", "ERROR"} => toServer = <<>> /\ ~Reporting
      BY <3>1 DEF Single, OneReply
    <3>4. QED
      BY <1>1, <3>1, <3>2, <3>3
  <2>3. QED
    BY <2>1, <2>2 DEF OneReply
<1>5. ASSUME spc' = "count"
      PROVE  toServer' = <<>> /\ ~Replied' /\ ~Reporting' /\ ~Composing'
  <2>1. Head(toClient).cmd = "RECEIPT"
    BY <1>5, TakeStepFacts
  <2>2. toServer = <<>> /\ ~Reporting /\ Replied
    BY <1>2, <2>1 DEF Single, OneReply, Replied
  <2>3. QED
    BY <1>1, <1>3, <2>1, <2>2, WhatIsUnanswered DEF Reporting, Composing, Single
<1>6. Composing' => ~Unanswered'
  <2>1. Composing' => ~Replied /\ toServer = <<>>
    BY <1>1, WhatIsUnanswered DEF Composing, Single
  <2>2. Unanswered' => toServer' # <<>> \/ spc' = "count" \/ Replied'
    BY DEF Unanswered, Replied
  <2>3. QED
    BY <1>1, <1>3, <1>5, <2>1, <2>2
<1>7. AllReports' = AllReports
  BY <1>1 DEF AllReports
<1>8. QED
  BY <1>1, <1>4, <1>5, <1>6, <1>7 DEF Single

LEMMA CountAlone ==
  ASSUME Alone, CountSub
  PROVE  Alone'
<1>1. UNCHANGED <<toServer, toClient, kpc, msg, hurried, server>> /\ spc = "count" /\ spc' = "check"
  BY DEF CountSub, network, serverSide, history
<1>2. Replied' = Replied /\ Composing' = Composing /\ Reporting' = Reporting
  BY <1>1 DEF Replied, Composing, Reporting
<1>3. ASSUME Single PROVE Single'
  <2>1. ~Composing /\ toServer = <<>> /\ ~Replied
    BY <1>1, <1>3, WhatIsUnanswered DEF Single
  <2>2. OneReply'
    BY <1>1, <1>2, <2>1 DEF OneReply, Replied
  <2>3. QED
    BY <1>1, <1>2, <2>1, <2>2 DEF Single
<1>4. QED
  BY <1>1, <1>3 DEF Alone

LEMMA ToldAlone ==
  ASSUME IInv, Alone, Told
  PROVE  Alone' /\ (Replied' <=> Replied)
<1>1. PICK e \in Answers : e.cmd = "MESSAGE" /\ toClient' = Append(toClient, e)
  BY ToldStep
<1>2. UNCHANGED <<kpc, spc, msg, toServer, server, hurried>>
  BY ToldStep DEF task, serverSide, history
<1>3. Replied' <=> Replied
  BY <1>1, BehindFacts DEF Replied
<1>4. Unanswered' <=> Unanswered
  BY <1>2, <1>3 DEF Unanswered, Replied
<1>5. ASSUME Single PROVE Single'
  <2>1. OneReply'
    BY <1>1, <1>2, <1>5, BehindFacts DEF Single, OneReply, Reporting
  <2>2. QED
    BY <1>2, <1>3, <1>4, <1>5, <2>1 DEF Single, Composing, Reporting, AllReports
<1>6. QED
  BY <1>2, <1>3, <1>5 DEF Alone

LEMMA ServeAlone ==
  ASSUME IInv, Alone, Serve
  PROVE  Alone'
<1> SUFFICES ASSUME Single, ~hurried PROVE Single'
  BY ServeFacts DEF Alone, history
<1>1. UNCHANGED <<kpc, spc, msg>> /\ server = "open" /\ toServer # <<>>
  BY ServeFacts DEF task
<1>2. PICK f : f = Head(toServer)
  OBVIOUS
<1>3. /\ Len(toServer) \in Nat \ {0} /\ Len(toServer') = Len(toServer) - 1
      /\ f = toServer[1]
      /\ \A i \in 1 .. Len(toServer') :
           i + 1 \in 2 .. Len(toServer) /\ toServer'[i] = toServer[i + 1]
      /\ Len(toServer) = 1 => toServer' = <<>>
  BY <1>2, ServedFacts
<1>4. ~Replied /\ spc # "count" /\ ~Composing
  BY <1>1, WhatIsUnanswered DEF Single, OneReply, Replied
<1>5. toServer' # <<>> => AllReports' /\ msg.cmd = "SEND"
  BY <1>1, <1>3 DEF Single, AllReports
<1>6. f.cmd # "SEND" => toServer' = <<>> /\ kpc # "send"
  BY <1>1, <1>3 DEF Single, AllReports
<1>7. OneReply'
  <2>1. CASE f.cmd = "SEND" /\ UNCHANGED <<toClient, serverSide>>
    BY <1>4, <2>1 DEF OneReply, Replied
  <2>2. CASE \E cmd \in {"CONNECTED", "MESSAGE", "ERROR", "RECEIPT"}, q \in {None, f.receipt} :
               Answered(f, cmd, q)
    <3>1. PICK cmd \in {"CONNECTED", "MESSAGE", "ERROR", "RECEIPT"}, q \in {None, f.receipt} :
               Answered(f, cmd, q)
      BY <2>2
    <3>2. PICK e : e = Frame(cmd, None, q, None)
      OBVIOUS
    <3>3. e.cmd = cmd /\ toClient' = Append(toClient, e)
      BY <3>1, <3>2 DEF Frame, Answered, Answer
    <3>4. /\ Len(toClient) \in Nat /\ Len(toClient') = Len(toClient) + 1
          /\ toClient'[Len(toClient) + 1] = e
          /\ \A i \in 1 .. Len(toClient) : toClient'[i].cmd = "MESSAGE"
          /\ \A i \in 1 .. Len(toClient') : i \in 1 .. Len(toClient) \/ i = Len(toClient) + 1
      BY <1>4, <3>3, BehindFacts DEF Replied
    <3>5. cmd = "ERROR" => server' = "closed"
      BY <3>1 DEF Answered, Disconnect
    <3>6. cmd \notin {"MESSAGE", "ERROR"} => f.cmd # "SEND"
      BY <3>1 DEF Answered, Confirmed
    <3>7. kpc # "send" => ~Reporting'
      BY <1>1 DEF Reporting
    <3>8. QED
      BY <1>6, <3>3, <3>4, <3>5, <3>6, <3>7 DEF OneReply
  <2>3. QED
    BY <1>2, <2>1, <2>2, ServeFacts
<1>8. ~Composing' /\ spc' # "count"
  BY <1>1, <1>4 DEF Composing
<1>9. QED
  BY <1>1, <1>5, <1>7, <1>8 DEF Single

LEMMA NextAlone ==
  ASSUME IInv, Alone, [Next]_vars
  PROVE  Alone'
<1>1. CASE Quiet \/ UNCHANGED vars
  BY <1>1, QuietAlone
<1>2. CASE ComposeAny
  BY <1>2, ComposeAlone DEF Alone
<1>3. CASE Login \/ Send \/ SendEvent \/ Record
  BY <1>3, SendAlone, RecordAlone
<1>4. CASE TakeStep \/ CountSub
  BY <1>4, TakeAlone, CountAlone
<1>5. CASE Serve \/ Told
  BY <1>5, ServeAlone, ToldAlone
<1>6. QED
  BY <1>1, <1>2, <1>3, <1>4, <1>5, Steps DEF IInv

-----------------------------------------------------------------------------
(* What the patient user relies on, from a command to its answer.           *)

(* The socket thread waits for the keyboard thread to connect.              *)
Connection ==
  /\ kpc = "start" => spc = "spin" /\ ~connected
  /\ ~lost /\ crashed = "no" /\ kpc # "start" /\ spc # "done" => socket = "open"

EntriesUpTo == \A r \in Ids : About(r) # None => r <= receiptId

(* Every exit and every join that is entered is entered with its game.      *)
Matched ==
  /\ \A r \in Ids : receipts[r] \in OfGame => About(r) # None
  /\ kpc = "record" => Dated(msg)

GamesAreSubs == \A s \in Ids : games[s] # None => subs[s] = games[s]
Held(s) == subs[s] # None => games[s] = subs[s] \/ ExitAsked(s)
SubsAreGames == \A s \in Ids : Held(s)

NumbersFree == receipts[receiptId] = None /\ About(receiptId) = None
SubsFree == \A s \in Ids : subs[s] # None => s < subId
SubsTaken == \A s \in Ids : subs[s] # None => s <= subId

(* The client and the server agree, and the numbers of the day are free.    *)
Level == SubsFree /\ SubsAreGames /\ NumbersFree

(* A frame on its way to the server carries the numbers of the day, and has *)
(* been entered under them, unless it asks for no receipt.                  *)
InHand(f) ==
  /\ f.cmd \notin Confirmed => Level
  /\ SubsFree /\ SubsAreGames
  /\ f.cmd \in Confirmed => f.receipt = receiptId /\ receipts[receiptId] = f.cmd
  /\ f.cmd \in OfGame => About(receiptId) = [sub |-> f.sub, game |-> f.game]
  /\ f.cmd = "SUBSCRIBE" => f.sub = subId /\ f.game \in Games

(* A RECEIPT on its way back is that of the number of the day.              *)
Returned(e) ==
  /\ e.cmd # "RECEIPT" => Level
  /\ e.cmd = "RECEIPT" =>
       /\ e.receipt = receiptId /\ receipts[receiptId] \in OfGame
       /\ receipts[receiptId] = "SUBSCRIBE" =>
            /\ About(receiptId).sub = subId /\ About(receiptId).game # None
            /\ subs[subId] = About(receiptId).game
            /\ SubsTaken /\ \A s \in Ids \ {subId} : Held(s)
       /\ receipts[receiptId] = "UNSUBSCRIBE" => SubsFree /\ SubsAreGames

(* The user may go on typing.                                               *)
Ready ==
  \/ kpc \in {"start", "login", "line", "record"}
  \/ kpc = "loop" /\ ~shouldTerminate

Stages ==
  /\ GamesAreSubs
  /\ Reporting => Level
  /\ ~Unanswered /\ Ready => Level
  /\ kpc = "send" /\ msg.cmd # "SEND" => InHand(msg)
  /\ \A i \in 1 .. Len(toServer) : InHand(toServer[i])
  /\ \A i \in 1 .. Len(toClient) : toClient[i].cmd # "MESSAGE" => Returned(toClient[i])
  /\ spc = "count" => NumbersFree /\ SubsTaken /\ SubsAreGames

(* The server closes the connection with an answer the client ends on; only *)
(* frames of a report may be left unread.                                   *)
Leaving(e) ==
  \/ e.cmd = "ERROR"
  \/ e.cmd = "RECEIPT" /\ receipts[e.receipt] = "DISCONNECT"

Closing ==
  ~lost /\ server = "closed" =>
    \/ spc \in {"end", "done"}
    \/ /\ \E i \in 1 .. Len(toClient) : Leaving(toClient[i])
       /\ toServer # <<>> => msg.cmd = "SEND"

Patient == Calm => Matched /\ (server = "open" => Stages) /\ Closing

CInv == RInv /\ Connection /\ EntriesUpTo /\ Alone /\ Patient

LEMMA InitCInv == Init => CInv
<1> SUFFICES ASSUME Init PROVE CInv
  OBVIOUS
<1>1. /\ toServer = <<>> /\ toClient = <<>> /\ spc = "spin" /\ kpc = "start" /\ server = "open"
      /\ \A r \in Ids : receipts[r] = None /\ About(r) = None
      /\ \A s \in Ids : subs[s] = None /\ games[s] = None
      /\ receiptId \in Ids
  BY IdsFacts DEF Init, About
<1>2. Level /\ GamesAreSubs
  BY <1>1 DEF Level, SubsFree, SubsAreGames, Held, NumbersFree, GamesAreSubs
<1>3. Matched
  BY <1>1, NoneAssumption DEF Matched, OfGame, Confirmed
<1>4. Stages /\ Closing
  BY <1>1, <1>2 DEF Stages, Closing, Reporting
<1>5. Connection /\ EntriesUpTo
  BY <1>1 DEF Init, Connection, EntriesUpTo
<1>6. Alone
  BY <1>1 DEF Alone, Single, OneReply, Unanswered, Reporting
<1>7. QED
  BY <1>3, <1>4, <1>5, <1>6, InitRInv DEF CInv, Patient

LEMMA NextConnection ==
  ASSUME IInv, Connection, [Next]_vars
  PROVE  Connection'
<1>1. CASE Quiet
  <2>1. CASE BadLine \/ NotLogin \/ NoName \/ Loop \/ Stop \/ AllSent \/ Leave
    BY <2>1
    DEF NotLogin, NoName, Loop, Stop, AllSent, Leave, BadLine, Typed, Crash, history, Connection
  <2>2. CASE Connect \/ Spin \/ Check \/ ReadFails \/ End \/ Fail
    BY <2>2 DEF Connect, Spin, Check, ReadFails, End, Fail, Crash, task, history, Connection
  <2>3. CASE \E g \in Games : OtherJoins(g)
    BY <2>3 DEF OtherJoins, task, history, Connection
  <2>4. QED
    BY <1>1, <2>1, <2>2, <2>3 DEF Quiet
<1>2. CASE ComposeAny \/ Login \/ Record \/ Send \/ SendEvent \/ CountSub
  BY <1>2
  DEF ComposeAny, Compose, Typed, Login, Record, Send, SendEvent, CountSub, history, Connection
<1>3. CASE TakeStep
  <2>1. kpc # "start" /\ spc # "done" /\ UNCHANGED <<kpc, connected, lost>>
    BY <1>3, TakeStepFacts DEF Connection, history
  <2>2. socket' = socket \/ crashed' # "no"
    BY <1>3
    DEF TakeStep, TakeConnectedOrMessage, TakeError, ReceiptUnknown, Joined, Exited, LoggedOut,
        Crash
  <2>3. socket = "open"
    BY <1>3, TakeStepFacts
  <2>4. QED
    BY <2>1, <2>2, <2>3 DEF Connection
<1>4. CASE Serve \/ Told \/ UNCHANGED vars
  BY <1>4, ServeFacts, ToldStep DEF vars, task, history, Connection
<1>5. QED
  BY <1>1, <1>2, <1>3, <1>4, Steps DEF IInv

(* What is entered stays as it was entered.                                 *)
LEMMA EntriesStay ==
  ASSUME IInv, [Next]_vars, NEW r \in Ids
  PROVE  /\ receipts[r] # None => receipts'[r] = receipts[r]
         /\ gamesBeforeReceipts[r] # None => gamesBeforeReceipts'[r] = gamesBeforeReceipts[r]
         /\ r # receiptId => gamesBeforeReceipts'[r] = gamesBeforeReceipts[r]
<1>1. CASE Record
  <2>1. \E e : gamesBeforeReceipts' \in {gamesBeforeReceipts,
                                         Insert(gamesBeforeReceipts, receiptId, e)}
    BY <1>1 DEF Record
  <2>2. receipts' = Insert(receipts, msg.receipt, msg.cmd)
    BY <1>1 DEF Record
  <2>3. DOMAIN receipts = Ids /\ DOMAIN gamesBeforeReceipts = Ids
    BY DEF IInv, TypeOK, MapsType
  <2>4. QED
    BY <2>1, <2>2, <2>3 DEF Insert
<1>2. CASE ~Record
  BY <1>2, SameMaps
<1>3. QED
  BY <1>1, <1>2

LEMMA NextEntries ==
  ASSUME IInv, EntriesUpTo, [Next]_vars
  PROVE  EntriesUpTo'
<1>1. receiptId \in Nat /\ \A r \in Ids : r \in Nat
  BY IdsFacts DEF IInv, TypeOK, NumbersType
<1>2. receiptId' \in {receiptId, receiptId + 1}
  BY SameMaps DEF Record
<1>3. \A r \in Ids : r # receiptId => About(r)' = About(r)
  BY EntriesStay DEF About
<1>4. QED
  BY <1>1, <1>2, <1>3 DEF EntriesUpTo

(* Neither hurry nor an exception is ever undone.                           *)
LEMMA CalmBefore ==
  ASSUME IInv, [Next]_vars, Calm'
  PROVE  Calm
<1>1. CASE Quiet
  <2>1. hurried => hurried'
    BY <1>1, QuietFacts
  <2>2. crashed' = "no" => crashed = "no"
    BY <1>1 DEF Quiet, NotLogin, Connect, NoName, Loop, Stop, AllSent, Leave, BadLine, Spin, Check,
                ReadFails, End, Fail, OtherJoins, Crash, task
  <2>3. QED
    BY <2>1, <2>2 DEF Calm
<1>2. CASE ComposeAny
  <2>1. hurried' = (hurried \/ Unanswered) /\ crashed' = crashed
    BY <1>2 DEF ComposeAny, Compose, Typed
  <2>2. QED
    BY <2>1 DEF Calm
<1>3. CASE Login \/ Record \/ Send \/ SendEvent \/ CountSub \/ Serve \/ Told \/ UNCHANGED vars
  BY <1>3, ServeFacts, ToldStep
  DEF Login, Record, Send, SendEvent, CountSub, vars, task, history, Calm
<1>4. CASE TakeStep
  <2>1. hurried' = hurried
    BY <1>4, TakeStepFacts DEF history
  <2>2. crashed' = "no" => crashed = "no"
    BY <1>4 DEF TakeStep, TakeConnectedOrMessage, TakeError, ReceiptUnknown, Joined, Exited,
                LoggedOut, Crash
  <2>3. QED
    BY <2>1, <2>2 DEF Calm
<1>5. QED
  BY <1>1, <1>2, <1>3, <1>4, Steps DEF IInv

(* Where the numbers, the maps and the subscriptions stay.                  *)
LEMMA SameBook ==
  ASSUME UNCHANGED <<protocol, subs>>
  PROVE  /\ Level' = Level /\ GamesAreSubs' = GamesAreSubs
         /\ NumbersFree' = NumbersFree /\ SubsTaken' = SubsTaken
         /\ SubsFree' = SubsFree /\ SubsAreGames' = SubsAreGames
         /\ \A s : Held(s)' = Held(s)
<1>1. \A r : About(r)' = About(r) /\ Asked(r)' = Asked(r)
  BY DEF About, Asked, protocol
<1>2. \A s : ExitAsked(s)' = ExitAsked(s)
  BY <1>1 DEF ExitAsked
<1>3. \A s : Held(s)' = Held(s)
  BY <1>2 DEF Held, protocol
<1>4. /\ GamesAreSubs' = GamesAreSubs /\ SubsAreGames' = SubsAreGames
      /\ NumbersFree' = NumbersFree /\ SubsTaken' = SubsTaken /\ SubsFree' = SubsFree
  BY <1>1, <1>3
  DEF GamesAreSubs, SubsAreGames, NumbersFree, SubsTaken, SubsFree, protocol
<1>5. QED
  BY <1>3, <1>4 DEF Level

LEMMA SameInHand ==
  ASSUME UNCHANGED <<protocol, subs>>, NEW f
  PROVE  InHand(f)' = InHand(f) /\ Returned(f)' = Returned(f) /\ Leaving(f)' = Leaving(f)
<1>1. /\ Level' = Level /\ SubsTaken' = SubsTaken /\ SubsFree' = SubsFree
      /\ SubsAreGames' = SubsAreGames /\ \A s : Held(s)' = Held(s)
      /\ UNCHANGED <<receipts, receiptId, subId, subs>> /\ \A r : About(r)' = About(r)
  BY SameBook DEF About, protocol
<1>2. InHand(f)' = InHand(f)
  BY <1>1 DEF InHand, About
<1>3. Returned(f)' = Returned(f)
  BY <1>1 DEF Returned, About
<1>4. Leaving(f)' = Leaving(f)
  BY <1>1 DEF Leaving
<1>5. QED
  BY <1>2, <1>3, <1>4

(* What is said of frames and answers by name holds of them in place.       *)
LEMMA KeepStages ==
  ASSUME Stages, UNCHANGED <<protocol, subs>>,
         Reporting' => Level,
         ~Unanswered' /\ Ready' => Level,
         kpc' = "send" /\ msg'.cmd # "SEND" => \E f : msg' = f /\ InHand(f),
         \A i \in 1 .. Len(toServer') : \E f : toServer'[i] = f /\ InHand(f),
         \A i \in 1 .. Len(toClient') :
           \E e : toClient'[i] = e /\ (e.cmd # "MESSAGE" => Returned(e)),
         spc' = "count" => spc = "count"
  PROVE  Stages'
<1>1. /\ Level' = Level /\ GamesAreSubs' = GamesAreSubs
      /\ NumbersFree' = NumbersFree /\ SubsTaken' = SubsTaken /\ SubsAreGames' = SubsAreGames
  BY SameBook
<1>2. GamesAreSubs' /\ (spc' = "count" => NumbersFree' /\ SubsTaken' /\ SubsAreGames')
  BY <1>1 DEF Stages
<1>3. (Reporting' => Level') /\ (~Unanswered' /\ Ready' => Level')
  BY <1>1
<1>4. ASSUME kpc' = "send", msg'.cmd # "SEND" PROVE InHand(msg)'
  <2>1. PICK f : msg' = f /\ InHand(f)
    BY <1>4
  <2>2. InHand(f)'
    BY <2>1, SameInHand
  <2>3. QED
    BY <2>1, <2>2 DEF InHand
<1>5. ASSUME NEW i \in 1 .. Len(toServer') PROVE InHand(toServer[i])'
  <2>1. PICK f : toServer'[i] = f /\ InHand(f)
    OBVIOUS
  <2>2. InHand(f)'
    BY <2>1, SameInHand
  <2>3. QED
    BY <2>1, <2>2 DEF InHand
<1>6. ASSUME NEW i \in 1 .. Len(toClient'), toClient'[i].cmd # "MESSAGE"
      PROVE  Returned(toClient[i])'
  <2>1. PICK e : toClient'[i] = e /\ (e.cmd # "MESSAGE" => Returned(e))
    OBVIOUS
  <2>2. Returned(e)'
    BY <1>6, <2>1, SameInHand
  <2>3. QED
    BY <2>1, <2>2 DEF Returned
<1>7. QED
  BY <1>2, <1>3, <1>4, <1>5, <1>6 DEF Stages

LEMMA StagesByName ==
  ASSUME Stages
  PROVE  /\ \A i \in 1 .. Len(toServer) : \E f : toServer[i] = f /\ InHand(f)
         /\ \A i \in 1 .. Len(toClient) :
              \E e : toClient[i] = e /\ (e.cmd # "MESSAGE" => Returned(e))
BY DEF Stages

LEMMA LeavingReplies ==
  ASSUME NEW i \in 1 .. Len(toClient), Leaving(toClient[i])
  PROVE  Replied
BY DEF Leaving, Replied

(* A connection that is closed stays so, and so does the answer that closed *)
(* it, until it is read.                                                    *)
LEMMA KeepClosing ==
  ASSUME Closing, receipts' = receipts, msg' = msg,
         server' = server \/ lost', lost => lost',
         spc \in {"end", "done"} => spc' \in {"end", "done"},
         \A i \in 1 .. Len(toClient) :
           \E j \in 1 .. Len(toClient') : toClient'[j] = toClient[i],
         toServer' # <<>> => toServer # <<>> \/ msg.cmd = "SEND"
  PROVE  Closing'
<1> SUFFICES ASSUME ~lost, ~lost', server = "closed", server' = "closed",
                    spc \notin {"end", "done"}
             PROVE  /\ \E i \in 1 .. Len(toClient') : Leaving(toClient[i])'
                    /\ toServer' # <<>> => msg'.cmd = "SEND"
  BY DEF Closing
<1>1. PICK i \in 1 .. Len(toClient) : Leaving(toClient[i])
  BY DEF Closing
<1>2. PICK j \in 1 .. Len(toClient') : toClient'[j] = toClient[i]
  OBVIOUS
<1>3. Leaving(toClient[j])'
  BY <1>1, <1>2 DEF Leaving
<1>4. QED
  BY <1>2, <1>3 DEF Closing

-----------------------------------------------------------------------------
(* One kind of step after the other keeps what a patient user relies on.    *)

LEMMA QuietPatient ==
  ASSUME CInv, Calm, Quiet \/ UNCHANGED vars, Calm'
  PROVE  Patient'
<1>1. Matched /\ (server = "open" => Stages) /\ Closing
  BY DEF CInv, Patient
<1>2. /\ toServer' = toServer /\ toClient' = toClient /\ msg' = msg /\ subs' = subs
      /\ UNCHANGED protocol
      /\ kpc' \in {"record", "send"} => kpc' = kpc
      /\ spc' = "count" <=> spc = "count"
      /\ server' = server \/ (server' = "closed" /\ lost')
      /\ spc \in {"end", "done"} => spc' \in {"end", "done"}
      /\ lost => lost'
  BY QuietFacts DEF vars, task, network, serverSide, history
<1>3. Matched'
  BY <1>1, <1>2 DEF Matched, Dated, About, protocol
<1>4. Closing'
  BY <1>1, <1>2, KeepClosing DEF protocol
<1>5. ASSUME server' = "open" PROVE Stages'
  <2>1. Stages
    BY <1>1, <1>2, <1>5
  <2>2. Unanswered' = Unanswered
    BY <1>2 DEF Unanswered
  <2>3. Ready' => Ready \/ Reporting
    <3>1. CASE NotLogin \/ Connect \/ Loop \/ Stop \/ AllSent \/ Leave
      BY <3>1 DEF NotLogin, Connect, Loop, Stop, AllSent, Leave, Ready, Reporting
    <3>2. CASE NoName \/ BadLine
      BY <3>2 DEF NoName, BadLine, Crash, Calm
    <3>3. CASE Spin \/ Check \/ ReadFails \/ End \/ Fail
      BY <3>3 DEF Spin, Check, ReadFails, End, Fail, task, Ready
    <3>4. CASE UNCHANGED vars \/ \E g \in Games : OtherJoins(g)
      BY <3>4 DEF OtherJoins, vars, task, Ready
    <3>5. QED
      BY <3>1, <3>2, <3>3, <3>4 DEF Quiet
  <2>4. Reporting' => Reporting
    BY <1>2 DEF Reporting
  <2>5. kpc' = "send" /\ msg'.cmd # "SEND" => \E f : msg' = f /\ InHand(f)
    BY <1>2, <2>1 DEF Stages
  <2>6. (Reporting => Level) /\ (~Unanswered /\ Ready => Level)
    BY <2>1 DEF Stages
  <2>7. QED
    BY <1>2, <2>1, <2>2, <2>3, <2>4, <2>5, <2>6, StagesByName, KeepStages
<1>6. QED
  BY <1>3, <1>4, <1>5 DEF Patient

LEMMA ToldPatient ==
  ASSUME CInv, Calm, Told
  PROVE  Patient'
<1>1. IInv /\ Matched /\ (server = "open" => Stages) /\ Closing
  BY DEF CInv, RInv, Patient
<1>2. PICK e \in Answers : e.cmd = "MESSAGE" /\ toClient' = Append(toClient, e)
  BY <1>1, ToldStep
<1>3. /\ UNCHANGED <<kpc, spc, msg, shouldTerminate, toServer, server, subs, lost>>
      /\ UNCHANGED protocol
  BY <1>1, ToldStep DEF task, serverSide, history
<1>4. /\ Len(toClient) \in Nat /\ Len(toClient') = Len(toClient) + 1
      /\ \A i \in 1 .. Len(toClient) : toClient'[i] = toClient[i]
      /\ \A i \in 1 .. Len(toClient') :
           i \in 1 .. Len(toClient) \/ (i = Len(toClient) + 1 /\ toClient'[i] = e)
  BY <1>1, <1>2, BehindFacts
<1>5. Matched'
  BY <1>1, <1>3 DEF Matched, Dated, About, protocol
<1>6. Closing'
  BY <1>1, <1>3, <1>4, KeepClosing DEF protocol
<1>7. ASSUME server' = "open" PROVE Stages'
  <2>1. Stages
    BY <1>1, <1>3, <1>7
  <2>2. Replied' <=> Replied
    BY <1>1, ToldAlone DEF CInv
  <2>3. /\ (Reporting' <=> Reporting) /\ (Ready' <=> Ready)
        /\ Unanswered => Unanswered'
    BY <1>3, <2>2 DEF Reporting, Ready, Unanswered, Replied
  <2>4. \A i \in 1 .. Len(toClient') :
          \E d : toClient'[i] = d /\ (d.cmd # "MESSAGE" => Returned(d))
    BY <1>2, <1>4, <2>1, StagesByName
  <2>5. kpc' = "send" /\ msg'.cmd # "SEND" => \E f : msg' = f /\ InHand(f)
    BY <1>3, <2>1 DEF Stages
  <2>6. (Reporting => Level) /\ (~Unanswered /\ Ready => Level)
    BY <2>1 DEF Stages
  <2>7. QED
    BY <1>3, <2>1, <2>3, <2>4, <2>5, <2>6, StagesByName, KeepStages
<1>8. QED
  BY <1>5, <1>6, <1>7 DEF Patient

(* A frame is sent that may be: with the numbers of the day.                *)
LEMMA SendPatient ==
  ASSUME CInv, Calm, Login \/ Send \/ SendEvent
  PROVE  Patient'
<1>1. IInv /\ Matched /\ (server = "open" => Stages) /\ Closing /\ Single
  BY DEF CInv, RInv, Patient, Calm, Alone
<1>2. PICK f : /\ SendLine(f)
               /\ \/ Login /\ f.cmd = "CONNECT"
                  \/ (Send \/ SendEvent) /\ f = msg
  BY DEF Login, Send, SendEvent, Frame
<1>3. /\ UNCHANGED <<spc, msg, toClient, server, subs, lost>> /\ UNCHANGED protocol
      /\ \/ (Login \/ Send) /\ kpc' \in {"loop", "leave"} /\ Composing
         \/ Reporting /\ Reporting' /\ kpc' = "send" /\ f = msg /\ f.cmd = "SEND"
  BY <1>2 DEF Login, Send, SendEvent, Composing, Reporting, Confirmed, serverSide, history
<1>4. \/ SendFails /\ toServer' = toServer /\ shouldTerminate' = TRUE
      \/ /\ toServer' # <<>> /\ Len(toServer) \in Nat /\ Len(toServer') = Len(toServer) + 1
         /\ \A i \in 1 .. Len(toServer') :
              \/ i \in 1 .. Len(toServer) /\ toServer'[i] = toServer[i]
              \/ toServer'[i] = f
  BY <1>1, <1>2, SentFacts
<1>5. Matched'
  BY <1>1, <1>3 DEF Matched, Dated, About, Reporting, protocol
<1>6. Closing'
  <2>1. CASE Reporting
    BY <1>1, <1>3, <2>1, KeepClosing DEF Reporting, protocol
  <2>2. CASE Composing
    <3>1. ~Replied
      BY <1>1, <2>2, WhatIsUnanswered DEF Single
    <3>2. ~lost /\ server = "closed" => spc \in {"end", "done"}
      BY <1>1, <3>1, LeavingReplies DEF Closing
    <3>3. QED
      BY <1>3, <3>2 DEF Closing
  <2>3. QED
    BY <1>3, <2>1, <2>2
<1>7. ASSUME server' = "open" PROVE Stages'
  <2>1. Stages
    BY <1>1, <1>3, <1>7
  <2>2. InHand(f)
    <3>1. CASE Login
      <4>1. ~Unanswered /\ Ready
        BY <1>1, <3>1 DEF Single, Composing, Ready, Login
      <4>2. Level /\ f.cmd = "CONNECT"
        BY <1>2, <2>1, <3>1, <4>1 DEF Stages, Login, Send, SendEvent
      <4>3. QED
        BY <4>2 DEF InHand, Confirmed, OfGame, Level
    <3>2. CASE Send
      BY <1>2, <2>1, <3>2 DEF Stages, Send, Login, Confirmed
    <3>3. CASE SendEvent
      <4>1. Level /\ f.cmd = "SEND"
        BY <1>2, <2>1, <3>3 DEF Stages, SendEvent, Reporting, Login
      <4>2. QED
        BY <4>1 DEF InHand, Confirmed, OfGame, Level
    <3>4. QED
      BY <3>1, <3>2, <3>3
  <2>3. \A i \in 1 .. Len(toServer') : \E d : toServer'[i] = d /\ InHand(d)
    BY <1>4, <2>1, <2>2, StagesByName
  <2>4. Reporting' => Level
    BY <1>3, <2>1 DEF Stages, Reporting
  <2>5. ~(~Unanswered' /\ Ready')
    BY <1>3, <1>4 DEF Unanswered, Ready, Reporting
  <2>6. ~(kpc' = "send" /\ msg'.cmd # "SEND")
    BY <1>3 DEF Reporting
  <2>7. QED
    BY <1>3, <2>1, <2>3, <2>4, <2>5, <2>6, StagesByName, KeepStages
<1>8. QED
  BY <1>5, <1>6, <1>7 DEF Patient

LEMMA ComposePatient ==
  ASSUME CInv, Calm, Calm', ComposeAny
  PROVE  Patient'
<1>1. IInv /\ Matched /\ (server = "open" => Stages) /\ Closing /\ Alone
  BY DEF CInv, RInv, Patient
<1>2. /\ toServer = <<>> /\ ~Replied /\ spc # "count" /\ kpc = "line"
      /\ UNCHANGED <<spc, protocol, network, lost>>
  BY <1>1, ComposeAlone DEF Calm
<1>3. \/ kpc' = "record" /\ Dated(msg)'
      \/ kpc' = "send" /\ msg'.cmd = "SEND"
  BY DEF ComposeAny, Compose, Typed, Dated, protocol
<1>4. /\ toServer' = toServer /\ toClient' = toClient /\ server' = server /\ subs' = subs
  BY <1>2 DEF network, serverSide
<1>5. Matched'
  BY <1>1, <1>2, <1>3 DEF Matched, About, protocol
<1>6. Closing'
  <2>1. ~lost /\ server = "closed" => spc \in {"end", "done"}
    BY <1>1, <1>2, LeavingReplies DEF Closing
  <2>2. QED
    BY <1>2, <1>4, <2>1 DEF Closing
<1>7. ASSUME server' = "open" PROVE Stages'
  <2>1. Stages
    BY <1>1, <1>4, <1>7
  <2>2. Level
    BY <1>2, <2>1, WhatIsUnanswered DEF Stages, Ready
  <2>3. QED
    BY <1>2, <1>3, <1>4, <2>1, <2>2, StagesByName, KeepStages
<1>8. QED
  BY <1>5, <1>6, <1>7 DEF Patient

LEMMA AskedStays ==
  ASSUME IInv, [Next]_vars, NEW s, ExitAsked(s)
  PROVE  ExitAsked(s)'
<1>1. PICK r \in Ids : Asked(r) = "UNSUBSCRIBE" /\ About(r) # None /\ About(r).sub = s
  BY DEF ExitAsked
<1>2. Asked(r)' = Asked(r) /\ About(r)' = About(r)
  BY <1>1, EntriesStay, NoneAssumption DEF Asked, About, Confirmed
<1>3. QED
  BY <1>1, <1>2 DEF ExitAsked

LEMMA HeldStays ==
  ASSUME IInv, [Next]_vars, NEW s, Held(s), subs'[s] = subs[s], games'[s] = games[s]
  PROVE  Held(s)'
BY AskedStays DEF Held

LEMMA RecordPatient ==
  ASSUME CInv, Calm, Record, [Next]_vars
  PROVE  Patient'
<1>1. IInv /\ Matched /\ (server = "open" => Stages) /\ Closing /\ Single
  BY DEF CInv, RInv, Patient, Calm, Alone
<1>2. /\ kpc = "record" /\ kpc' = "send"
      /\ UNCHANGED <<receiptId, subId, games, spc, msg, toServer, toClient, server, subs, lost>>
  BY DEF Record, network, serverSide, history
<1>3. toServer = <<>> /\ ~Replied /\ spc # "count"
  BY <1>1, <1>2, WhatIsUnanswered DEF Single, Composing
<1>4. Dated(msg)
  BY <1>1, <1>2 DEF Matched
<1>5. /\ receiptId \in Ids /\ receipts \in [Ids -> Confirmed \cup {None}]
      /\ DOMAIN gamesBeforeReceipts = Ids /\ None \notin Confirmed
      /\ subId \in Ids /\ msg \in Frames
  BY <1>1, NoneAssumption DEF IInv, TypeOK, TaskType, NumbersType, MapsType
<1>6. PICK e \in [sub : Ids \cup {None}, game : Games \cup {None}] :
        /\ e = [sub |-> msg.sub, game |-> msg.game] \/ msg.cmd \notin OfGame
        /\ msg.cmd \in OfGame =>
             gamesBeforeReceipts' = Insert(gamesBeforeReceipts, receiptId, e)
  <2>1. PICK d : d = [sub |-> msg.sub, game |-> msg.game]
    OBVIOUS
  <2>2. d \in [sub : Ids \cup {None}, game : Games \cup {None}]
    BY <1>5, <2>1 DEF Frames
  <2>3. msg.cmd \in OfGame => gamesBeforeReceipts' = Insert(gamesBeforeReceipts, receiptId, d)
    BY <1>4, <2>1 DEF Record, Dated, OfGame
  <2>4. QED
    BY <2>1, <2>2, <2>3
<1>7. e # None
  BY EntryAssumption
<1>8. /\ receipts' = [receipts EXCEPT ![receiptId] = IF @ = None THEN msg.cmd ELSE @]
      /\ msg.cmd \in OfGame =>
           gamesBeforeReceipts' =
             [gamesBeforeReceipts EXCEPT ![receiptId] = IF @ = None THEN e ELSE @]
  BY <1>4, <1>6 DEF Record, Insert, Dated
<1>9. Matched'
  <2>1. ASSUME NEW r \in Ids, receipts'[r] \in OfGame PROVE About(r)' # None
    <3>1. CASE receipts[r] \in OfGame
      <4>1. About(r) # None
        BY <1>1, <3>1 DEF Matched
      <4>2. QED
        BY <1>1, <4>1, EntriesStay DEF About
    <3>2. CASE receipts[r] \notin OfGame
      <4>1. r = receiptId /\ msg.cmd \in OfGame
        BY <1>5, <1>8, <2>1, <3>2
      <4>2. QED
        BY <1>5, <1>7, <1>8, <4>1 DEF About
    <3>3. QED
      BY <3>1, <3>2
  <2>2. QED
    BY <1>2, <2>1 DEF Matched
<1>10. Closing'
  <2>1. ~lost /\ server = "closed" => spc \in {"end", "done"}
    BY <1>1, <1>3, LeavingReplies DEF Closing
  <2>2. QED
    BY <1>2, <2>1 DEF Closing
<1>11. ASSUME server' = "open" PROVE Stages'
  <2>1. Stages /\ Level
    BY <1>1, <1>2, <1>3, <1>11, WhatIsUnanswered DEF Stages, Ready
  <2>2. SubsFree' /\ SubsAreGames' /\ GamesAreSubs'
    BY <1>1, <1>2, <2>1, HeldStays DEF Level, SubsFree, SubsAreGames, GamesAreSubs, Stages
  <2>3. receipts'[receiptId] = msg.cmd
    BY <1>5, <1>8, <2>1 DEF Level, NumbersFree
  <2>4. msg.cmd \in OfGame => gamesBeforeReceipts'[receiptId] = [sub |-> msg.sub, game |-> msg.game]
    BY <1>5, <1>6, <1>8, <2>1 DEF Level, NumbersFree, About
  <2>5. InHand(msg)'
    BY <1>2, <1>4, <2>2, <2>3, <2>4 DEF InHand, Dated, About
  <2>6. /\ ~Reporting' /\ ~Ready' /\ spc' # "count" /\ toServer' = <<>>
        /\ \A i \in 1 .. Len(toClient') : toClient'[i].cmd = "MESSAGE"
    BY <1>2, <1>3, <1>4 DEF Reporting, Ready, Dated, Confirmed, Replied
  <2>7. QED
    BY <2>2, <2>5, <2>6 DEF Stages
<1>12. QED
  BY <1>9, <1>10, <1>11 DEF Patient

(* An answer is taken: a MESSAGE, the one answer there was, or an ERROR.    *)
LEMMA TakeClosing ==
  ASSUME CInv, Calm, Calm', TakeStep
  PROVE  Closing'
<1>1. IInv /\ Closing /\ \A r \in Ids : receipts[r] \in OfGame => About(r) # None
  BY DEF CInv, RInv, Patient, Matched
<1>2. /\ toClient # <<>> /\ Len(toClient) \in Nat \ {0} /\ Len(toClient') = Len(toClient) - 1
      /\ Head(toClient) = toClient[1]
      /\ \A i \in 1 .. Len(toClient') :
           i + 1 \in 2 .. Len(toClient) /\ toClient'[i] = toClient[i + 1]
      /\ spc = "read" /\ UNCHANGED <<msg, receipts, toServer, server, lost>>
  BY <1>1, TakeStepFacts DEF serverSide, history
<1> SUFFICES ASSUME ~lost, server = "closed", spc' \notin {"end", "done"}
             PROVE  /\ \E i \in 1 .. Len(toClient') : Leaving(toClient[i])'
                    /\ toServer' # <<>> => msg'.cmd = "SEND"
  BY <1>2 DEF Closing
<1>3. PICK i \in 1 .. Len(toClient) : Leaving(toClient[i])
  BY <1>1, <1>2 DEF Closing
<1>4. i # 1
  <2>1. CASE Head(toClient).cmd = "ERROR"
    BY <2>1 DEF TakeStep, TakeConnectedOrMessage, TakeError, ReceiptUnknown, Joined, Exited,
                LoggedOut,
                Take
  <2>2. CASE Head(toClient).cmd = "RECEIPT" /\ receipts[Head(toClient).receipt] = "DISCONNECT"
    BY <2>2, NoneAssumption
    DEF TakeStep, TakeConnectedOrMessage, TakeError, ReceiptUnknown, Joined, Exited, LoggedOut,
        Take, Known, Asked, Crash, Calm, Confirmed
  <2>3. QED
    BY <1>2, <1>3, <2>1, <2>2 DEF Leaving
<1>5. i - 1 \in 1 .. Len(toClient') /\ toClient'[i - 1] = toClient[i]
  <2>1. i \in Nat /\ i - 1 \in 1 .. Len(toClient')
    BY <1>2, <1>3, <1>4
  <2>2. (i - 1) + 1 = i
    BY <2>1
  <2>3. toClient'[i - 1] = toClient[(i - 1) + 1]
    BY <1>2, <2>1
  <2>4. QED
    BY <2>1, <2>2, <2>3
<1>6. Leaving(toClient[i - 1])'
  BY <1>2, <1>3, <1>5 DEF Leaving
<1>7. QED
  BY <1>1, <1>2, <1>5, <1>6 DEF Closing

LEMMA TakePatient ==
  ASSUME CInv, Calm, Calm', TakeStep, [Next]_vars
  PROVE  Patient'
<1>1. IInv /\ Matched /\ (server = "open" => Stages) /\ Alone /\ Single
  BY DEF CInv, RInv, Patient, Calm, Alone
<1>2. /\ toClient # <<>> /\ Len(toClient) \in Nat \ {0} /\ Len(toClient') = Len(toClient) - 1
      /\ Head(toClient) = toClient[1]
      /\ \A i \in 1 .. Len(toClient') :
           i + 1 \in 2 .. Len(toClient) /\ toClient'[i] = toClient[i + 1]
      /\ spc = "read" /\ (spc' = "count" => Joined)
      /\ \/ Head(toClient).cmd = "RECEIPT"
         \/ UNCHANGED <<receiptId, games>> /\ spc' # "count"
      /\ UNCHANGED <<kpc, msg, receipts, gamesBeforeReceipts, toServer, server, subs, subId, lost>>
  BY <1>1, TakeStepFacts DEF serverSide, history
<1>3. PICK e : e = Head(toClient)
  OBVIOUS
<1>4. e.cmd # "MESSAGE" => ~Replied'
  <2> SUFFICES ASSUME NEW i \in 1 .. Len(toClient'), toClient'[i].cmd # "MESSAGE",
                      e.cmd # "MESSAGE"
               PROVE  FALSE
    BY DEF Replied
  <2>1. i + 1 \in 2 .. Len(toClient) /\ 1 \in 1 .. Len(toClient) /\ i + 1 # 1
    BY <1>2
  <2>2. toClient[i + 1].cmd # "MESSAGE" /\ toClient[1].cmd # "MESSAGE"
    BY <1>2, <1>3
  <2>3. i + 1 \in 1 .. Len(toClient)
    BY <2>1
  <2>4. QED
    BY <1>1, <2>1, <2>2, <2>3 DEF Single, OneReply
<1>5. e.cmd \notin {"MESSAGE", "ERROR"} => toServer = <<>> /\ ~Reporting
  BY <1>1, <1>2, <1>3 DEF Single, OneReply
<1>6. e.cmd = "ERROR" => server = "closed"
  BY <1>1, <1>2, <1>3 DEF Single, OneReply
<1>7. Composing => e.cmd = "MESSAGE"
  BY <1>1, <1>2, <1>3, WhatIsUnanswered DEF Single, Replied
<1>8. Matched'
  <2>1. kpc = "record" => UNCHANGED <<receiptId, subId>>
    BY <1>2, <1>3, <1>7 DEF Composing
  <2>2. QED
    BY <1>1, <1>2, <2>1 DEF Matched, Dated, About
<1>9. ASSUME server' = "open" PROVE Stages'
  <2>1. Stages /\ e.cmd # "ERROR"
    BY <1>1, <1>2, <1>6, <1>9
  <2>2. e.cmd # "MESSAGE" => Returned(e)
    <3>1. 1 \in 1 .. Len(toClient) /\ e = toClient[1]
      BY <1>2, <1>3
    <3>2. ASSUME e.cmd # "MESSAGE" PROVE Returned(toClient[1])
      BY <2>1, <3>1, <3>2 DEF Stages
    <3>3. QED
      BY <3>1, <3>2
  <2>3. CASE e.cmd # "RECEIPT"
    <3>1. UNCHANGED <<protocol, subs>> /\ spc' # "count"
      BY <1>2, <1>3, <2>3 DEF protocol
    <3>2. Reporting' => Level
      BY <1>2, <2>1 DEF Reporting, Stages
    <3>3. ~Unanswered' /\ Ready' => Level
      <4>1. CASE e.cmd = "MESSAGE"
        <5>1. Ready' = Ready
          BY <1>2, <1>3, <4>1
          DEF Ready, TakeStep, TakeConnectedOrMessage, TakeError, ReceiptUnknown, Joined, Exited,
              LoggedOut, Take
        <5>2. Unanswered => Unanswered'
          <6>1. ASSUME NEW i \in 1 .. Len(toClient), toClient[i].cmd # "MESSAGE"
                PROVE  \E j \in 1 .. Len(toClient') : toClient'[j].cmd # "MESSAGE"
            <7>1. i # 1
              BY <1>2, <1>3, <4>1, <6>1
            <7>2. i - 1 \in 1 .. Len(toClient') /\ (i - 1) + 1 = i
              BY <1>2, <7>1
            <7>3. toClient'[i - 1] = toClient[(i - 1) + 1]
              BY <1>2, <7>2
            <7>4. QED
              BY <6>1, <7>2, <7>3
          <6>2. toServer' = toServer /\ spc # "count"
            BY <1>2
          <6>3. Replied => Replied'
            BY <6>1 DEF Replied
          <6>4. QED
            BY <6>2, <6>3 DEF Unanswered, Replied
        <5>3. QED
          BY <2>1, <5>1, <5>2 DEF Stages
      <4>2. CASE e.cmd # "MESSAGE"
        BY <2>2, <2>3, <4>2 DEF Returned
      <4>3. QED
        BY <4>1, <4>2
    <3>4. \A i \in 1 .. Len(toClient') :
            \E d : toClient'[i] = d /\ (d.cmd # "MESSAGE" => Returned(d))
      <4> TAKE i \in 1 .. Len(toClient')
      <4>1. i + 1 \in 1 .. Len(toClient) /\ toClient'[i] = toClient[i + 1]
        BY <1>2
      <4>2. QED
        BY <2>1, <4>1, StagesByName
    <3>5. kpc' = "send" /\ msg'.cmd # "SEND" => \E f : msg' = f /\ InHand(f)
      BY <1>2, <2>1 DEF Stages
    <3>6. \A i \in 1 .. Len(toServer') : \E f : toServer'[i] = f /\ InHand(f)
      BY <1>2, <2>1, StagesByName
    <3>7. QED
      BY <2>1, <3>1, <3>2, <3>3, <3>4, <3>5, <3>6, KeepStages
  <2>4. CASE e.cmd = "RECEIPT"
    <3>1. /\ e.receipt = receiptId /\ receipts[receiptId] \in OfGame
          /\ toServer' = <<>> /\ ~Reporting' /\ ~Replied' /\ ~Composing'
      BY <1>2, <1>4, <1>5, <1>7, <2>2, <2>4 DEF Returned, Reporting, Composing
    <3>2. Joined \/ Exited
      BY <1>2, <1>3, <2>4, <3>1, NoneAssumption
      DEF TakeStep, TakeConnectedOrMessage, TakeError, ReceiptUnknown, LoggedOut, Take, Asked,
          OfGame,
          Calm, Crash
    <3>3. receiptId' = receiptId + 1 /\ receiptId + 1 \in Ids /\ receiptId \in Nat
      <4>1. Take("RECEIPT") /\ receiptId' = receiptId + 1
        BY <3>2 DEF Joined, Exited
      <4>2. receiptId + 1 \in Ids
        BY <1>1, <4>1, TakeFacts
      <4>3. QED
        BY <1>1, <4>1, <4>2, IdsFacts DEF IInv, TypeOK, NumbersType
    <3>4. NumbersFree'
      <4>1. ~(receiptId + 1 <= receiptId)
        BY <3>3
      <4>2. receipts[receiptId + 1] = None /\ About(receiptId + 1) = None
        BY <3>3, <4>1 DEF CInv, RInv, Numbered, EntriesUpTo
      <4>3. QED
        BY <1>2, <3>3, <4>2 DEF NumbersFree, About
    <3>5. subId \in Ids /\ DOMAIN games = Ids
      BY <1>1 DEF IInv, TypeOK, NumbersType, MapsType
    <3>6. ~(kpc' = "send") /\ Len(toServer') = 0
          /\ \A i \in 1 .. Len(toClient') : toClient'[i].cmd = "MESSAGE"
      BY <3>1 DEF Composing, Reporting, Replied
    <3>7. CASE Joined
      <4>1. /\ receipts[receiptId] = "SUBSCRIBE"
            /\ games' = Insert(games, About(receiptId).sub, About(receiptId).game)
            /\ spc' = "count"
        BY <1>3, <3>1, <3>7 DEF Joined, Known, Asked
      <4>2. /\ About(receiptId).sub = subId /\ About(receiptId).game # None
            /\ subs[subId] = About(receiptId).game /\ SubsTaken
            /\ \A s \in Ids \ {subId} : Held(s)
        BY <2>2, <2>4, <4>1 DEF Returned
      <4>3. games' = [games EXCEPT ![subId] = IF @ = None THEN subs[subId] ELSE @]
        BY <4>1, <4>2 DEF Insert
      <4>4. GamesAreSubs'
        BY <1>2, <2>1, <3>5, <4>3 DEF Stages, GamesAreSubs
      <4>5. SubsAreGames'
        <5>1. Held(subId)'
          BY <1>2, <2>1, <3>5, <4>3 DEF Stages, GamesAreSubs, Held
        <5>2. \A s \in Ids \ {subId} : Held(s)'
          BY <1>1, <1>2, <3>5, <4>2, <4>3, HeldStays
        <5>3. QED
          BY <1>2, <5>1, <5>2 DEF SubsAreGames, Held
      <4>6. SubsTaken'
        BY <1>2, <4>2 DEF SubsTaken
      <4>7. Unanswered'
        BY <4>1 DEF Unanswered
      <4>8. QED
        BY <3>1, <3>4, <3>6, <4>4, <4>5, <4>6, <4>7 DEF Stages
    <3>8. CASE Exited
      <4>1. /\ receipts[receiptId] = "UNSUBSCRIBE"
            /\ games' = [games EXCEPT ![About(receiptId).sub] = None]
            /\ spc' = "check" /\ About(receiptId) # None
        BY <1>3, <3>1, <3>8 DEF Exited, Known, Asked
      <4>2. SubsFree /\ SubsAreGames
        BY <2>2, <2>4, <4>1 DEF Returned
      <4>3. GamesAreSubs'
        BY <1>2, <2>1, <3>5, <4>1 DEF Stages, GamesAreSubs
      <4>4. SubsAreGames'
        <5> SUFFICES ASSUME NEW s \in Ids PROVE Held(s)'
          BY DEF SubsAreGames
        <5>1. CASE s = About(receiptId).sub
          <6>1. receiptId \in Ids
            BY <1>1 DEF IInv, TypeOK, NumbersType
          <6>2. ExitAsked(s)
            BY <4>1, <5>1, <6>1 DEF ExitAsked, Asked
          <6>3. ExitAsked(s)'
            BY <1>1, <6>2, AskedStays
          <6>4. QED
            BY <6>3 DEF Held
        <5>2. CASE s # About(receiptId).sub
          BY <1>1, <1>2, <3>5, <4>1, <4>2, <5>2, HeldStays DEF SubsAreGames
        <5>3. QED
          BY <5>1, <5>2
      <4>5. SubsFree'
        BY <1>2, <4>2 DEF SubsFree
      <4>6. Level' /\ spc' # "count"
        BY <3>4, <4>1, <4>4, <4>5 DEF Level
      <4>7. QED
        BY <3>1, <3>6, <4>3, <4>6 DEF Stages
    <3>9. QED
      BY <3>2, <3>7, <3>8
  <2>5. QED
    BY <2>3, <2>4
<1>10. QED
  BY <1>8, <1>9, TakeClosing DEF Patient

LEMMA CountPatient ==
  ASSUME CInv, Calm, CountSub
  PROVE  Patient'
<1>1. IInv /\ Matched /\ (server = "open" => Stages) /\ Closing /\ Single
  BY DEF CInv, RInv, Patient, Calm, Alone
<1>2. /\ spc = "count" /\ spc' = "check" /\ subId' = subId + 1
      /\ UNCHANGED <<kpc, msg, receiptId, receipts, gamesBeforeReceipts, games, toServer, toClient,
                     server, subs, lost>>
  BY DEF CountSub, network, serverSide, history
<1>3. toServer = <<>> /\ ~Replied /\ ~Reporting /\ ~Composing
  BY <1>1, <1>2, WhatIsUnanswered DEF Single
<1>4. Matched'
  BY <1>1, <1>2, <1>3 DEF Matched, Composing, About
<1>5. Closing'
  <2>1. ~lost /\ server = "closed" => spc \in {"end", "done"}
    BY <1>1, <1>3, LeavingReplies DEF Closing
  <2>2. QED
    BY <1>2, <2>1 DEF Closing
<1>6. ASSUME server' = "open" PROVE Stages'
  <2>1. Stages /\ NumbersFree /\ SubsTaken /\ SubsAreGames
    BY <1>1, <1>2, <1>6 DEF Stages
  <2>2. GamesAreSubs' /\ SubsAreGames' /\ NumbersFree'
    BY <1>2, <2>1 DEF Stages, GamesAreSubs, SubsAreGames, Held, ExitAsked, NumbersFree, About, Asked
  <2>3. SubsFree'
    <3>1. subId \in Nat /\ \A s \in Ids : s \in Nat
      BY <1>1, IdsFacts DEF IInv, TypeOK, NumbersType
    <3>2. QED
      BY <1>2, <2>1, <3>1 DEF SubsFree, SubsTaken
  <2>4. /\ kpc' # "send" /\ Len(toServer') = 0
        /\ \A i \in 1 .. Len(toClient') : toClient'[i].cmd = "MESSAGE"
    BY <1>2, <1>3 DEF Composing, Reporting, Replied
  <2>5. QED
    BY <1>2, <2>2, <2>3, <2>4 DEF Stages, Level
<1>7. QED
  BY <1>4, <1>5, <1>6 DEF Patient

(* The server takes the first frame, and answers it or does not.            *)
LEMMA ServePatient ==
  ASSUME CInv, Calm, Serve, [Next]_vars
  PROVE  Patient'
<1>1. IInv /\ Matched /\ (server = "open" => Stages) /\ Single /\ Alone'
  BY ServeAlone DEF CInv, RInv, Patient, Calm, Alone
<1>2. /\ server = "open" /\ toServer # <<>>
      /\ UNCHANGED <<kpc, spc, msg, shouldTerminate, hurried, lost>>
      /\ UNCHANGED protocol
  BY ServeFacts DEF task, history
<1>3. PICK f : f = Head(toServer)
  OBVIOUS
<1>4. /\ Len(toServer) \in Nat \ {0} /\ Len(toServer') = Len(toServer) - 1
      /\ f = toServer[1] /\ f \in Asking
      /\ \A i \in 1 .. Len(toServer') :
           i + 1 \in 2 .. Len(toServer) /\ toServer'[i] = toServer[i + 1]
      /\ Len(toServer) = 1 => toServer' = <<>>
  BY <1>1, <1>3, ServedFacts
<1>5. Stages
  BY <1>1, <1>2
<1>6. InHand(f)
  <2>1. 1 \in 1 .. Len(toServer)
    BY <1>4
  <2>2. InHand(toServer[1])
    BY <1>5, <2>1 DEF Stages
  <2>3. QED
    BY <1>4, <2>2
<1>7. ~Replied /\ spc # "count" /\ ~Composing
  BY <1>1, <1>2, WhatIsUnanswered DEF Single, OneReply, Replied
<1>8. \A i \in 1 .. Len(toServer') : \E d : toServer'[i] = d /\ InHand(d)
  <2> TAKE i \in 1 .. Len(toServer')
  <2>1. i + 1 \in 1 .. Len(toServer) /\ toServer'[i] = toServer[i + 1]
    BY <1>4
  <2>2. QED
    BY <1>5, <2>1, StagesByName
<1>9. f.cmd # "SEND" => toServer' = <<>> /\ ~Reporting
  BY <1>1, <1>2, <1>4 DEF Single, AllReports, Reporting
<1>10. /\ Reporting' = Reporting /\ Ready' = Ready
       /\ ~(kpc' = "send" /\ msg'.cmd # "SEND")
  BY <1>2, <1>7 DEF Reporting, Ready, Composing
<1>11. Matched'
  BY <1>1, <1>2 DEF Matched, Dated, About, protocol
<1>12. CASE f.cmd = "SEND" /\ UNCHANGED <<toClient, serverSide>>
  <2>1. Level /\ UNCHANGED subs /\ server' = "open"
    BY <1>2, <1>6, <1>12 DEF InHand, Confirmed, serverSide
  <2>2. Stages'
    BY <1>2, <1>5, <1>7, <1>8, <1>10, <1>12, <2>1, StagesByName, KeepStages
  <2>3. QED
    BY <1>11, <2>1, <2>2 DEF Patient, Closing
<1>13. ASSUME NEW cmd \in {"CONNECTED", "MESSAGE", "ERROR", "RECEIPT"}, NEW q \in {None, f.receipt},
              Answered(f, cmd, q)
       PROVE  Patient'
  <2>1. PICK e : e = Frame(cmd, None, q, None)
    OBVIOUS
  <2>2. e.cmd = cmd /\ e.receipt = q /\ toClient' = Append(toClient, e)
    BY <1>13, <2>1 DEF Frame, Answered, Answer
  <2>3. /\ Len(toClient) \in Nat /\ Len(toClient') = Len(toClient) + 1
        /\ toClient'[Len(toClient) + 1] = e
        /\ \A i \in 1 .. Len(toClient) : toClient'[i] = toClient[i] /\ toClient[i].cmd = "MESSAGE"
        /\ \A i \in 1 .. Len(toClient') : i \in 1 .. Len(toClient) \/ i = Len(toClient) + 1
    BY <1>1, <1>7, <2>2, BehindFacts DEF Replied
  <2>4. Closing'
    <3> SUFFICES ASSUME server' = "closed"
                 PROVE  /\ \E i \in 1 .. Len(toClient') : Leaving(toClient[i])'
                        /\ toServer' # <<>> => msg'.cmd = "SEND"
      BY DEF Closing
    <3>1. cmd = "ERROR" \/ (cmd = "RECEIPT" /\ f.cmd = "DISCONNECT" /\ q = f.receipt)
      BY <1>2, <1>13 DEF Answered, serverSide, Confirmed
    <3>2. receipts' = receipts
      BY <1>2 DEF protocol
    <3>3. cmd = "RECEIPT" => receipts[q] = "DISCONNECT"
      BY <1>6, <3>1 DEF InHand, Confirmed
    <3>4. Len(toClient) + 1 \in 1 .. Len(toClient')
      BY <2>3
    <3>5. \/ Leaving(toClient[Len(toClient) + 1])'
          \/ \E i \in 1 .. Len(toClient') : Leaving(toClient[i])'
      BY <2>2, <2>3, <3>1, <3>2, <3>3, <3>4 DEF Leaving
    <3>6. toServer' # <<>> => msg'.cmd = "SEND"
      BY <1>1, <1>2, <1>4 DEF Single
    <3>7. QED
      BY <2>2, <2>3, <3>1, <3>2, <3>3, <3>4, <3>6 DEF Leaving
  <2>5. ASSUME server' = "open" PROVE Stages'
    <3>1. cmd # "ERROR" /\ f.cmd # "DISCONNECT"
      BY <1>13, <2>5 DEF Answered, Disconnect, Confirmed
    <3>2. CASE cmd \in {"CONNECTED", "MESSAGE"}
      <4>1. Level /\ UNCHANGED subs
        BY <1>6, <1>13, <3>2 DEF InHand, Answered, Confirmed, serverSide
      <4>2. Returned(e)
        BY <2>2, <3>2, <4>1 DEF Returned
      <4>3. \A i \in 1 .. Len(toClient') :
              \E d : toClient'[i] = d /\ (d.cmd # "MESSAGE" => Returned(d))
        BY <2>3, <4>2
      <4>4. QED
        BY <1>2, <1>5, <1>7, <1>8, <1>10, <4>1, <4>3, KeepStages
    <3>3. CASE cmd = "RECEIPT" /\ f.cmd = "UNSUBSCRIBE"
      <4>1. UNCHANGED subs /\ q = f.receipt /\ q = receiptId /\ receipts[receiptId] = "UNSUBSCRIBE"
            /\ SubsFree /\ SubsAreGames
        BY <1>6, <1>13, <3>3 DEF InHand, Answered, Confirmed, serverSide
      <4>2. Returned(e)
        BY <2>2, <3>3, <4>1 DEF Returned, OfGame
      <4>3. \A i \in 1 .. Len(toClient') :
              \E d : toClient'[i] = d /\ (d.cmd # "MESSAGE" => Returned(d))
        BY <2>3, <4>2
      <4>4. Unanswered'
        <5>1. /\ Len(toClient) + 1 \in 1 .. Len(toClient')
              /\ toClient'[Len(toClient) + 1].cmd # "MESSAGE"
          BY <2>2, <2>3, <3>3
        <5>2. QED
          BY <5>1 DEF Unanswered
      <4>5. ~Reporting'
        BY <1>9, <1>10, <3>3
      <4>6. QED
        BY <1>2, <1>5, <1>7, <1>8, <1>10, <4>1, <4>3, <4>4, <4>5, KeepStages
    <3>4. CASE cmd = "RECEIPT" /\ f.cmd = "SUBSCRIBE"
      <4>1. /\ subs' = [subs EXCEPT ![subId] = f.game] /\ f.sub = subId /\ f.game \in Games
            /\ q = receiptId /\ receipts[receiptId] = "SUBSCRIBE"
            /\ About(receiptId) = [sub |-> f.sub, game |-> f.game]
            /\ SubsFree /\ SubsAreGames
        BY <1>6, <1>13, <3>4 DEF InHand, Answered, Confirmed, OfGame
      <4>2. /\ subId \in Nat /\ subId \in Ids /\ \A s \in Ids : s \in Nat
            /\ DOMAIN subs = Ids /\ None \notin Games
            /\ UNCHANGED <<receiptId, subId, receipts, gamesBeforeReceipts, games>>
        BY <1>1, <1>2, IdsFacts, NoneAssumption
        DEF IInv, TypeOK, NumbersType, NetworkType, protocol
      <4>3. ~(subId < subId)
        BY <4>2
      <4>4. GamesAreSubs'
        <5>1. GamesAreSubs
          BY <1>5 DEF Stages
        <5>2. games[subId] = None
          BY <4>1, <4>2, <4>3, <5>1 DEF GamesAreSubs, SubsFree
        <5>3. \A s \in Ids : games'[s] = games[s] /\ (s # subId => subs'[s] = subs[s])
          BY <4>1, <4>2
        <5>4. ASSUME NEW s \in Ids, games'[s] # None PROVE subs'[s] = games'[s]
          <6>1. s # subId
            BY <5>2, <5>3, <5>4
          <6>2. subs[s] = games[s]
            BY <5>1, <5>3, <5>4 DEF GamesAreSubs
          <6>3. QED
            BY <5>3, <6>1, <6>2
        <5>5. QED
          BY <5>4 DEF GamesAreSubs
      <4>5. SubsTaken'
        <5>1. ASSUME NEW s \in Ids, subs'[s] # None PROVE s <= subId
          <6>1. CASE s = subId
            BY <4>2, <6>1
          <6>2. CASE s # subId
            <7>1. subs[s] # None
              BY <4>1, <4>2, <5>1, <6>2
            <7>2. s < subId
              BY <4>1, <7>1 DEF SubsFree
            <7>3. QED
              BY <4>2, <7>2
          <6>3. QED
            BY <6>1, <6>2
        <5>2. QED
          BY <4>2, <5>1 DEF SubsTaken
      <4>6. \A s \in Ids \ {subId} : Held(s)'
        BY <1>1, <4>1, <4>2, HeldStays DEF SubsAreGames
      <4>7. subs'[subId] = f.game /\ About(receiptId)' = About(receiptId)
        BY <4>1, <4>2 DEF About
      <4>8. About(receiptId).sub = subId /\ About(receiptId).game = f.game /\ f.game # None
        BY <4>1, <4>2
      <4>9. Returned(e)'
        <5>1. \A s \in Ids \ {subId'} : Held(s)'
          BY <4>2, <4>6
        <5>2. /\ e.cmd = "RECEIPT" /\ e.receipt = receiptId'
              /\ receipts'[receiptId'] = "SUBSCRIBE" /\ "SUBSCRIBE" \in OfGame
          BY <2>2, <3>4, <4>1, <4>2 DEF OfGame
        <5>3. /\ About(receiptId)'.sub = subId' /\ About(receiptId)'.game # None
              /\ subs'[subId'] = About(receiptId)'.game
          BY <4>2, <4>7, <4>8
        <5>4. QED
          BY <4>5, <5>1, <5>2, <5>3 DEF Returned
      <4>10. \A i \in 1 .. Len(toClient') : toClient'[i].cmd # "MESSAGE" => toClient'[i] = e
        BY <2>3
      <4>11. ASSUME NEW i \in 1 .. Len(toClient'), toClient'[i].cmd # "MESSAGE"
             PROVE  Returned(toClient[i])'
        BY <4>9, <4>10, <4>11 DEF Returned
      <4>12. Unanswered'
        <5>1. /\ Len(toClient) + 1 \in 1 .. Len(toClient')
              /\ toClient'[Len(toClient) + 1].cmd # "MESSAGE"
          BY <2>2, <2>3, <3>4
        <5>2. QED
          BY <5>1 DEF Unanswered
      <4>13. toServer' = <<>> /\ ~Reporting' /\ spc' # "count"
        BY <1>2, <1>7, <1>9, <1>10, <3>4
      <4>14. QED
        BY <1>10, <4>4, <4>11, <4>12, <4>13 DEF Stages
    <3>5. QED
      BY <1>13, <3>1, <3>2, <3>3, <3>4 DEF Answered, Confirmed
  <2>6. QED
    BY <1>11, <2>4, <2>5 DEF Patient
<1>14. QED
  BY <1>3, <1>12, <1>13, ServeFacts

LEMMA NextCInv == CInv /\ [Next]_vars => CInv'
<1> SUFFICES ASSUME CInv, [Next]_vars PROVE CInv'
  OBVIOUS
<1>1. IInv /\ TypeOK
  BY DEF CInv, RInv, IInv
<1>2. RInv' /\ Connection' /\ EntriesUpTo' /\ Alone'
  BY <1>1, NextRInv, NextConnection, NextEntries, NextAlone DEF CInv
<1>3. ASSUME Calm' PROVE Patient'
  <2>1. Calm
    BY <1>1, <1>3, CalmBefore
  <2>2. CASE Quiet \/ UNCHANGED vars
    BY <1>3, <2>1, <2>2, QuietPatient
  <2>3. CASE ComposeAny \/ Told
    BY <1>3, <2>1, <2>3, ComposePatient, ToldPatient
  <2>4. CASE Login \/ Send \/ SendEvent \/ Record
    BY <2>1, <2>4, SendPatient, RecordPatient
  <2>5. CASE TakeStep \/ CountSub
    BY <1>3, <2>1, <2>5, TakePatient, CountPatient
  <2>6. CASE Serve
    BY <2>1, <2>6, ServePatient
  <2>7. QED
    BY <1>1, <2>2, <2>3, <2>4, <2>5, <2>6, Steps
<1>4. QED
  BY <1>2, <1>3 DEF CInv, Patient

(* A patient user, at rest: the client and the server agree on the games of *)
(* the subscriptions, but for those the client was asked to leave, and the  *)
(* next numbers are free, for every number of games and of commands.        *)
THEOREM ClientKnowsGames == Spec => []ClientKnowsItsGames
<1>1. CInv => ClientKnowsItsGames
  <2> SUFFICES ASSUME CInv, Calm, kpc = "line", ~Unanswered, server = "open"
               PROVE  /\ \A s \in Ids : games[s] # None => subs[s] = games[s]
                      /\ \A s \in Ids : subs[s] # None => games[s] = subs[s] \/ ExitAsked(s)
                      /\ receipts[receiptId] = None
                      /\ subs[subId] = None
    BY DEF ClientKnowsItsGames, Calm
  <2>1. GamesAreSubs /\ Level
    BY DEF CInv, Patient, Stages, Ready
  <2>2. subId \in Ids /\ ~(subId < subId)
    BY IdsFacts DEF CInv, RInv, IInv, TypeOK, NumbersType
  <2>3. QED
    BY <2>1, <2>2 DEF GamesAreSubs, Level, SubsFree, SubsAreGames, Held, NumbersFree
<1>2. QED
  BY <1>1, InitCInv, NextCInv, PTL DEF Spec

(* Only a read that fails or a receipt that is unknown raises in the socket *)
(* thread.  With a patient user and a connection that lasts the latter does *)
(* not happen, and the former only to a report the server did not read out. *)
LEMMA NextSurvives ==
  ASSUME CInv, PatientUserSurvives, [Next]_vars
  PROVE  PatientUserSurvives'
<1>1. CASE ReadFails /\ crashed = "no"
  <2> SUFFICES ASSUME ~hurried, ~lost PROVE (crashed = "read" /\ msg.cmd = "SEND" /\ Reset)'
    BY <1>1 DEF PatientUserSurvives, ReadFails, history
  <2>1. Closing /\ Connection
    BY <1>1 DEF CInv, Patient, Calm
  <2>2. socket = "open"
    BY <1>1, <2>1 DEF Connection, ReadFails
  <2>3. server = "closed" /\ (toClient = <<>> \/ toServer # <<>>)
    BY <1>1, <2>2 DEF ReadFails, Reset
  <2>4. toClient # <<>> /\ (toServer # <<>> => msg.cmd = "SEND")
    BY <1>1, <2>1, <2>3 DEF Closing, ReadFails
  <2>5. /\ UNCHANGED <<msg, toServer, server>> /\ crashed' = "read"
    BY <1>1 DEF ReadFails, Crash, network, serverSide
  <2>6. QED
    BY <2>3, <2>4, <2>5 DEF Reset
<1>2. CASE ReceiptUnknown /\ crashed = "no"
  <2> SUFFICES ASSUME ~hurried PROVE FALSE
    BY <1>2 DEF ReceiptUnknown, Take, history, PatientUserSurvives
  <2>1. /\ Head(toClient) \in Answers /\ toClient # <<>> /\ Head(toClient).cmd = "RECEIPT"
    BY <1>2, TakeFacts DEF CInv, RInv, ReceiptUnknown
  <2>2. Matched
    BY <1>2 DEF CInv, Patient, Calm
  <2>3. QED
    BY <1>2, <2>1, <2>2 DEF ReceiptUnknown, Matched, Answers, Entered, Asked, OfGame
<1>3. CASE crashed # "no"
  <2>1. \/ Serve \/ Told \/ Fail \/ UNCHANGED vars \/ \E g \in Games : OtherJoins(g)
    BY <1>3 DEF Next, Keyboard, Socket, Others, Told
  <2>2. /\ UNCHANGED <<crashed, msg, hurried>> /\ (lost => lost')
    BY <2>1, ServeFacts, ToldStep DEF Fail, OtherJoins, vars, task, history, CInv, RInv
  <2>3. Reset => Reset'
    <3>1. CASE Serve
      BY <3>1, ServeFacts DEF Reset
    <3>2. CASE Told
      BY <3>2, ToldStep DEF Reset, serverSide, CInv, RInv
    <3>3. CASE Fail \/ UNCHANGED vars \/ \E g \in Games : OtherJoins(g)
      BY <3>3 DEF Reset, Fail, OtherJoins, vars, network, serverSide
    <3>4. QED
      BY <2>1, <3>1, <3>2, <3>3
  <2>4. QED
    BY <2>2, <2>3 DEF PatientUserSurvives
<1>4. CASE crashed = "no" /\ ~ReadFails /\ ~ReceiptUnknown
  <2>1. crashed' \in {"no", "line"}
    <3>1. CASE Keyboard
      BY <1>4, <3>1 DEF Keyboard, NotLogin, Connect, NoName, Login, Loop, Stop, Record, Send,
                        SendEvent,
                        AllSent, Leave, Crash
    <3>2. CASE User
      BY <1>4, <3>2 DEF User, BadLine, Logout, Join, Exit, Report, Compose, Crash
    <3>3. CASE Socket
      BY <1>4, <3>3 DEF Socket, Spin, Check, End, TakeConnectedOrMessage, TakeError, Joined,
                        CountSub,
                        Exited, LoggedOut
    <3>4. CASE Serve \/ Others \/ Fail \/ UNCHANGED vars
      BY <1>4, <3>4 DEF Serve, Others, OtherJoins, OtherSends, Fail, vars, task
    <3>5. QED
      BY <3>1, <3>2, <3>3, <3>4 DEF Next
  <2>2. QED
    BY <2>1 DEF PatientUserSurvives
<1>5. QED
  BY <1>1, <1>2, <1>3, <1>4

(* No exception ends the client of a patient user whose connection lasts,   *)
(* but one: the server refused an event of a report with others unread.     *)
THEOREM PatientSurvives == Spec => []PatientUserSurvives
<1>1. Init => PatientUserSurvives
  BY DEF Init, PatientUserSurvives
<1>2. CInv /\ PatientUserSurvives /\ [Next]_vars => CInv' /\ PatientUserSurvives'
  BY NextCInv, NextSurvives
<1>3. QED
  BY <1>1, <1>2, InitCInv, PTL DEF Spec
=============================================================================

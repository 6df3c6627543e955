--------------------------- MODULE ReactorProofs ---------------------------
(* Theorems about Reactor, for every number of connections and frames.      *)
EXTENDS Reactor, TLAPS

(* The facts about finite sequences the proofs rest on.                     *)
LEMMA TailFacts ==
  ASSUME NEW S, NEW q \in Seq(S), q # <<>>
  PROVE  /\ Head(q) \in S /\ Tail(q) \in Seq(S)
         /\ Len(q) \in Nat \ {0} /\ Len(Tail(q)) = Len(q) - 1 /\ Head(q) = q[1]
         /\ \A i \in 1 .. Len(q) - 1 : Tail(q)[i] = q[i + 1]
OBVIOUS

LEMMA AppendFacts ==
  ASSUME NEW S, NEW q \in Seq(S), NEW e \in S
  PROVE  /\ Append(q, e) \in Seq(S) /\ Append(q, e) # <<>>
         /\ Len(q) \in Nat /\ Len(Append(q, e)) = Len(q) + 1
         /\ \A i \in 1 .. Len(q) : Append(q, e)[i] = q[i]
         /\ Append(q, e)[Len(q) + 1] = e
OBVIOUS

LEMMA PrependType ==
  ASSUME NEW S, NEW q \in Seq(S), NEW e \in S
  PROVE  <<e>> \o q \in Seq(S)
OBVIOUS

-----------------------------------------------------------------------------
(* Types.                                                                   *)

LEMMA InitTypes == Init => TypeOK
<1> SUFFICES ASSUME Init PROVE TypeOK
  OBVIOUS
<1>1. selectorTasks \in Seq(Conns) /\ inbox \in [Conns -> Seq(Kinds)]
      /\ buffers \in [Conns -> Seq(Seq(Kinds) \ {<<>>})] /\ writeQueue \in [Conns -> Seq(Nat)]
  BY DEF Init
<1>2. asked \in 0 .. MaxFrames
  BY BoundsAssumption DEF Init
<1>3. QED
  BY <1>1, <1>2 DEF Init, TypeOK

LEMMA ClientTypes ==
  ASSUME TypeOK, NEW c \in Conns, Client(c)
  PROVE  TypeOK'
<1>1. CASE ClientGone(c)
  BY <1>1 DEF ClientGone, TypeOK, keys, pool, output
<1>2. ASSUME NEW k \in Kinds, ClientSend(c, k)
      PROVE  TypeOK'
  <2>1. inbox' \in [Conns -> Seq(Kinds)]
    BY <1>2, AppendFacts DEF ClientSend, TypeOK
  <2>2. asked' \in 0 .. MaxFrames
    BY <1>2, BoundsAssumption DEF ClientSend, TypeOK
  <2>3. QED
    BY <1>2, <2>1, <2>2 DEF ClientSend, TypeOK, keys, pool, output
<1>3. QED
  BY <1>1, <1>2 DEF Client

LEMMA SelectorTypes ==
  ASSUME TypeOK, Selector
  PROVE  TypeOK'
<1>1. CASE Select
  <2>1. ready' \in [Conns -> SUBSET {"A", "R", "W"}]
    BY <1>1 DEF Select, ReadyOps
  <2>2. QED
    BY <1>1, <2>1 DEF Select, TypeOK, client, pool, output
<1>2. CASE RunTask
  <2>1. selectorTasks' \in Seq(Conns)
    BY <1>2, TailFacts DEF RunTask, TypeOK
  <2>2. ops' \in [Conns -> SUBSET {"R", "W"}]
    BY <1>2 DEF RunTask, TypeOK
  <2>3. QED
    BY <1>2, <2>1, <2>2 DEF RunTask, TypeOK, client, pool, output
<1>3. CASE TasksDone \/ KeysDone
  BY <1>3 DEF TasksDone, KeysDone, TypeOK, keys, client, pool, output
<1>4. ASSUME NEW c \in Conns, HandleAccept(c)
      PROVE  TypeOK'
  <2>1. ready' \in [Conns -> SUBSET {"A", "R", "W"}]
    BY <1>4 DEF HandleAccept, TypeOK
  <2>2. QED
    BY <1>4, <2>1 DEF HandleAccept, TypeOK, client, pool, output
<1>5. ASSUME NEW c \in Conns, HandleKey(c)
      PROVE  TypeOK'
  <2>1. buffers' \in [Conns -> Seq(Seq(Kinds) \ {<<>>})]
    <3>1. CASE inbox[c] = <<>>
      BY <1>5, <3>1 DEF HandleKey, TypeOK
    <3>2. CASE inbox[c] # <<>>
      <4>1. inbox[c] \in Seq(Kinds) \ {<<>>}
        BY <3>2 DEF TypeOK
      <4>2. Append(buffers[c], inbox[c]) \in Seq(Seq(Kinds) \ {<<>>})
        BY <4>1, AppendFacts DEF TypeOK
      <4>3. QED
        BY <1>5, <4>2 DEF HandleKey, TypeOK
    <3>3. QED
      BY <3>1, <3>2
  <2>2. inbox' \in [Conns -> Seq(Kinds)] /\ chan' \in [Conns -> {"arriving", "open", "closed"}]
        /\ ready' \in [Conns -> SUBSET {"A", "R", "W"}]
    BY <1>5 DEF HandleKey, TypeOK
  <2>3. QED
    BY <1>5, <2>1, <2>2 DEF HandleKey, TypeOK, output
<1>6. CASE Write
  <2>1. Tail(writeQueue[cur]) \in Seq(Nat) /\ cur \in Conns
    BY <1>6, TailFacts DEF Write, TypeOK
  <2>2. writeQueue' = writeQueue \/ writeQueue' = [writeQueue EXCEPT ![cur] = Tail(@)]
    BY <1>6 DEF Write
  <2>3. writeQueue' \in [Conns -> Seq(Nat)]
    BY <2>1, <2>2 DEF TypeOK
  <2>4. written' = written \/ written' = [written EXCEPT ![cur] = @ + 1]
    BY <1>6 DEF Write
  <2>5. written' \in [Conns -> Nat]
    <3>1. written \in [Conns -> Nat]
      BY DEF TypeOK
    <3>2. cur \in Conns
      BY <2>1
    <3>3. written[cur] + 1 \in Nat
      BY <3>1, <3>2
    <3>4. QED
      BY <2>4, <3>1, <3>2, <3>3
  <2>6. QED
    BY <1>6, <2>1, <2>3, <2>5 DEF Write, TypeOK, keys, client, pool
<1>7. CASE WriteFails \/ WriteDone \/ IsEmpty \/ AskTerminate
  BY <1>7 DEF WriteFails, WriteDone, IsEmpty, AskTerminate, TypeOK, keys, client, pool, output
<1>8. CASE Disarm
  BY <1>8 DEF Disarm, TypeOK, client, pool, output
<1>9. QED
  BY <1>1, <1>2, <1>3, <1>4, <1>5, <1>6, <1>7, <1>8 DEF Selector

LEMMA WorkerTypes ==
  ASSUME TypeOK, NEW c \in Conns, Worker(c)
  PROVE  TypeOK'
<1>1. CASE Process(c)
  <2> DEFINE chunk == Head(buffers[c])
  <2>1. chunk \in Seq(Kinds) /\ chunk # <<>> /\ Tail(buffers[c]) \in Seq(Seq(Kinds) \ {<<>>})
    BY <1>1, TailFacts DEF Process, TypeOK
  <2>2. Head(chunk) \in Kinds /\ Tail(chunk) \in Seq(Kinds)
    BY <2>1, TailFacts
  <2>3. Tail(chunk) # <<>> => <<Tail(chunk)>> \o Tail(buffers[c]) \in Seq(Seq(Kinds) \ {<<>>})
    BY <2>1, <2>2, PrependType
  <2>4. buffers' \in [Conns -> Seq(Seq(Kinds) \ {<<>>})]
    BY <1>1, <2>1, <2>3 DEF Process, TypeOK
  <2>5. /\ frame' \in [Conns -> Kinds \cup {None}]
        /\ wpc' \in [Conns -> {"idle", "send", "arm"}]
        /\ \A d \in Conns : wpc'[d] = "arm" => wpc[d] = "arm"
    BY <1>1, <2>2 DEF Process, TypeOK
  <2>6. targets' \in [Conns -> SUBSET Conns]
    BY <1>1 DEF Process, TypeOK, Connections
  <2>7. QED
    BY <1>1, <2>4, <2>5, <2>6 DEF Process, TypeOK, keys, client, output
<1>2. ASSUME NEW d \in Conns, Send(c, d)
      PROVE  TypeOK'
  <2>1. added[d] + 1 \in Nat /\ Append(writeQueue[d], added[d] + 1) \in Seq(Nat)
    BY AppendFacts DEF TypeOK
  <2>2. targets' = [targets EXCEPT ![c] = @ \ {d}]
    BY <1>2 DEF Send
  <2>3. targets' \in [Conns -> SUBSET Conns]
    BY <2>2 DEF TypeOK
  <2>4. CASE d \in Connections
    <3>1. /\ writeQueue' = [writeQueue EXCEPT ![d] = Append(@, added[d] + 1)]
          /\ added' = [added EXCEPT ![d] = @ + 1]
          /\ to' = [to EXCEPT ![c] = d]
          /\ wpc' = [wpc EXCEPT ![c] = "arm"]
      BY <1>2, <2>4 DEF Send
    <3>2. writeQueue' \in [Conns -> Seq(Nat)] /\ added' \in [Conns -> Nat]
      BY <2>1, <3>1 DEF TypeOK
    <3>3. /\ to' \in [Conns -> Conns \cup {None}]
          /\ wpc' \in [Conns -> {"idle", "send", "arm"}]
          /\ \A w \in Conns : wpc'[w] = "arm" => to'[w] \in Conns
      BY <3>1 DEF TypeOK
    <3>4. QED
      BY <1>2, <2>3, <3>2, <3>3 DEF Send, TypeOK, keys, client
  <2>5. CASE d \notin Connections
    BY <1>2, <2>3, <2>5 DEF Send, TypeOK, keys, client
  <2>6. QED
    BY <2>4, <2>5
<1>3. CASE Arm(c)
  <2>1. selectorTasks' \in Seq(Conns)
    BY <1>3, AppendFacts DEF Arm, TypeOK
  <2>2. QED
    BY <1>3, <2>1 DEF Arm, TypeOK, client, output
<1>4. CASE Return(c)
  BY <1>4 DEF Return, TypeOK, keys, client, output
<1>5. QED
  BY <1>1, <1>2, <1>3, <1>4 DEF Worker

LEMMA NextTypes == TypeOK /\ [Next]_vars => TypeOK'
<1> SUFFICES ASSUME TypeOK, [Next]_vars PROVE TypeOK'
  OBVIOUS
<1>1. CASE UNCHANGED vars
  BY <1>1 DEF vars, keys, client, pool, output, TypeOK
<1>2. QED
  BY <1>1, ClientTypes, SelectorTypes, WorkerTypes DEF Next

(* Every variable keeps its type.                                           *)
THEOREM ReactorTypeCorrect == Spec => []TypeOK
BY InitTypes, NextTypes, PTL DEF Spec
-----------------------------------------------------------------------------
(* The write queues.                                                        *)

(* A queue of consecutive numbers that start after n: what taking its head  *)
(* and adding the next number at its end leave of that.                     *)
LEMMA TailInOrder ==
  ASSUME NEW q \in Seq(Nat), q # <<>>, NEW n \in Nat, NEW a \in Nat, n + Len(q) = a,
         \A i \in 1 .. Len(q) : q[i] = n + i
  PROVE  /\ (n + 1) + Len(Tail(q)) = a
         /\ \A i \in 1 .. Len(Tail(q)) : Tail(q)[i] = (n + 1) + i
<1>1. /\ Len(q) \in Nat \ {0} /\ Len(Tail(q)) = Len(q) - 1
      /\ \A i \in 1 .. Len(q) - 1 : Tail(q)[i] = q[i + 1]
  BY TailFacts
<1>2. (n + 1) + Len(Tail(q)) = a
  BY <1>1
<1>3. ASSUME NEW i \in 1 .. Len(Tail(q)) PROVE Tail(q)[i] = (n + 1) + i
  <2>1. i \in 1 .. Len(q) - 1 /\ i + 1 \in 1 .. Len(q)
    BY <1>1
  <2>2. Tail(q)[i] = q[i + 1]
    BY <1>1, <2>1
  <2>3. q[i + 1] = n + (i + 1)
    BY <2>1
  <2>4. QED
    BY <2>1, <2>2, <2>3
<1>4. QED
  BY <1>2, <1>3

LEMMA AppendInOrder ==
  ASSUME NEW q \in Seq(Nat), NEW n \in Nat, NEW a \in Nat, n + Len(q) = a,
         \A i \in 1 .. Len(q) : q[i] = n + i
  PROVE  /\ n + Len(Append(q, a + 1)) = a + 1
         /\ \A i \in 1 .. Len(Append(q, a + 1)) : Append(q, a + 1)[i] = n + i
BY AppendFacts

OrderOf(c) ==
  /\ written[c] + Len(writeQueue[c]) = added[c]
  /\ \A i \in 1 .. Len(writeQueue[c]) : writeQueue[c][i] = written[c] + i

LEMMA SameOrder ==
  ASSUME NEW c \in Conns, OrderOf(c), writeQueue'[c] = writeQueue[c],
         added'[c] = added[c], written'[c] = written[c]
  PROVE  OrderOf(c)'
BY DEF OrderOf

LEMMA WriteInOrder ==
  ASSUME TypeOK, InOrder, Write
  PROVE  InOrder'
<1>1. /\ cur \in Conns /\ written[cur] \in Nat /\ added[cur] \in Nat
      /\ writeQueue[cur] \in Seq(Nat) /\ writeQueue[cur] # <<>>
  BY DEF Write, TypeOK
<1>2. \A c \in Conns : OrderOf(c)
  BY DEF InOrder, OrderOf
<1>3. ASSUME NEW c \in Conns PROVE OrderOf(c)'
  <2>1. added'[c] = added[c]
    BY DEF Write
  <2>2. CASE writeQueue'[c] = writeQueue[c] /\ written'[c] = written[c]
    BY <1>2, <2>1, <2>2, SameOrder
  <2>3. CASE c = cur /\ writeQueue'[c] = Tail(writeQueue[c]) /\ written'[c] = written[c] + 1
    <3>1. written[c] + Len(writeQueue[c]) = added[c]
          /\ \A i \in 1 .. Len(writeQueue[c]) : writeQueue[c][i] = written[c] + i
      BY <1>2 DEF OrderOf
    <3>2. /\ (written[c] + 1) + Len(Tail(writeQueue[c])) = added[c]
          /\ \A i \in 1 .. Len(Tail(writeQueue[c])) :
               Tail(writeQueue[c])[i] = (written[c] + 1) + i
      BY <1>1, <2>3, <3>1, TailInOrder
    <3>3. QED
      BY <2>1, <2>3, <3>2, Zenon DEF OrderOf
  <2>4. \/ writeQueue' = writeQueue /\ written' = written
        \/ /\ writeQueue' = [writeQueue EXCEPT ![cur] = Tail(@)]
           /\ written' = [written EXCEPT ![cur] = @ + 1]
    BY DEF Write
  <2>5. writeQueue \in [Conns -> Seq(Nat)] /\ written \in [Conns -> Nat]
    BY DEF TypeOK
  <2>6. QED
    BY <2>2, <2>3, <2>4, <2>5
<1>4. QED
  BY <1>3 DEF InOrder, OrderOf

LEMMA SendInOrder ==
  ASSUME TypeOK, InOrder, NEW c \in Conns, NEW d \in Conns, Send(c, d)
  PROVE  InOrder'
<1>1. written[d] \in Nat /\ added[d] \in Nat /\ writeQueue[d] \in Seq(Nat)
  BY DEF TypeOK
<1>2. \A e \in Conns : OrderOf(e)
  BY DEF InOrder, OrderOf
<1>3. ASSUME NEW e \in Conns PROVE OrderOf(e)'
  <2>1. written'[e] = written[e]
    BY DEF Send
  <2>2. CASE writeQueue'[e] = writeQueue[e] /\ added'[e] = added[e]
    BY <1>2, <2>1, <2>2, SameOrder
  <2>3. CASE e = d /\ writeQueue'[e] = Append(writeQueue[e], added[e] + 1)
             /\ added'[e] = added[e] + 1
    <3>1. written[e] + Len(writeQueue[e]) = added[e]
          /\ \A i \in 1 .. Len(writeQueue[e]) : writeQueue[e][i] = written[e] + i
      BY <1>2 DEF OrderOf
    <3>2. /\ written[e] + Len(Append(writeQueue[e], added[e] + 1)) = added[e] + 1
          /\ \A i \in 1 .. Len(Append(writeQueue[e], added[e] + 1)) :
               Append(writeQueue[e], added[e] + 1)[i] = written[e] + i
      BY <1>1, <2>3, <3>1, AppendInOrder
    <3>3. QED
      BY <2>1, <2>3, <3>2, Zenon DEF OrderOf
  <2>4. \/ writeQueue' = writeQueue /\ added' = added
        \/ /\ writeQueue' = [writeQueue EXCEPT ![d] = Append(@, added[d] + 1)]
           /\ added' = [added EXCEPT ![d] = @ + 1]
    BY DEF Send
  <2>5. writeQueue \in [Conns -> Seq(Nat)] /\ added \in [Conns -> Nat]
    BY DEF TypeOK
  <2>6. QED
    BY <2>2, <2>3, <2>4, <2>5
<1>4. QED
  BY <1>3 DEF InOrder, OrderOf

LEMMA NextInOrder == TypeOK /\ InOrder /\ [Next]_vars => InOrder'
<1> SUFFICES ASSUME TypeOK, InOrder, [Next]_vars PROVE InOrder'
  OBVIOUS
<1>1. CASE UNCHANGED <<writeQueue, added, written>>
  BY <1>1 DEF InOrder
<1>2. CASE UNCHANGED vars
  BY <1>1, <1>2 DEF vars, output
<1>3. CASE Write
  BY <1>3, WriteInOrder
<1>4. ASSUME Selector, ~Write PROVE InOrder'
  BY <1>1, <1>4 DEF Selector, Select, RunTask, TasksDone, KeysDone, HandleAccept, HandleKey,
     WriteFails, WriteDone, IsEmpty, AskTerminate, Disarm, output
<1>5. ASSUME NEW c \in Conns, Client(c) PROVE InOrder'
  BY <1>1, <1>5 DEF Client, ClientGone, ClientSend, output
<1>6. ASSUME NEW c \in Conns, Worker(c) PROVE InOrder'
  BY <1>1, <1>6, SendInOrder DEF Worker, Process, Arm, Return, output
<1>7. QED
  BY <1>2, <1>3, <1>4, <1>5, <1>6 DEF Next

(* What waits in a write queue is, in order, what was sent and is not yet   *)
(* written, whichever threads send and however much the socket takes.       *)
THEOREM ReactorInOrder == Spec => []InOrder
<1>1. Init => InOrder
  BY DEF Init, InOrder
<1>2. QED
  BY <1>1, NextInOrder, ReactorTypeCorrect, PTL DEF Spec
-----------------------------------------------------------------------------
(* No lost wake-up.                                                         *)

(* A task that is queued after the selector thread has run the tasks wakes  *)
(* it up when it next sleeps.                                               *)
Awake == sel \notin {"tasks", "dead"} /\ selectorTasks # <<>> => wakeup

(* A connection is written to, and its key is read or written, only once it *)
(* was accepted.                                                            *)
Accepted ==
  /\ \A c \in Conns :
       /\ chan[c] = "arriving" => writeQueue[c] = <<>>
       /\ "A" \in ready[c] => chan[c] = "arriving"
       /\ ready[c] \cap {"R", "W"} # {} => chan[c] # "arriving"
  /\ sel \in {"write", "empty", "ask", "disarm"} => chan[cur] # "arriving"

Waiting(c) == chan[c] = "open" /\ writeQueue[c] # <<>>

Served(c) ==
  \/ "W" \in ops[c] /\ ~(cur = c /\ sel \in {"ask", "disarm"})
  \/ \E w \in Conns : wpc[w] = "arm" /\ to[w] = c
  \/ \E i \in 1 .. Len(selectorTasks) : selectorTasks[i] = c
  \/ sel = "dead"

AllServed == \A c \in Conns : Waiting(c) => Served(c)

LEMMA InitWakeup == Init => Awake /\ Accepted /\ AllServed
BY DEF Init, Awake, Accepted, AllServed, Waiting

LEMMA NextAwake == TypeOK /\ Awake /\ [Next]_vars => Awake'
<1> SUFFICES ASSUME TypeOK, Awake, [Next]_vars PROVE Awake'
  OBVIOUS
<1>1. CASE Selector
  BY <1>1 DEF Awake, Selector, Select, RunTask, TasksDone, KeysDone, HandleAccept, HandleKey,
     Write, WriteFails, WriteDone, IsEmpty, AskTerminate, Disarm, keys
<1>2. ASSUME NEW c \in Conns, Client(c) \/ Worker(c) PROVE Awake'
  BY <1>2 DEF Awake, Client, ClientGone, ClientSend, Worker, Process, Send, Arm, Return, keys
<1>3. CASE UNCHANGED vars
  BY <1>3 DEF Awake, vars, keys
<1>4. QED
  BY <1>1, <1>2, <1>3 DEF Next

LEMMA NextAccepted == TypeOK /\ Accepted /\ [Next]_vars => Accepted'
<1> SUFFICES ASSUME TypeOK, Accepted, [Next]_vars PROVE Accepted'
  OBVIOUS
<1>1. CASE Select
  BY <1>1 DEF Select, ReadyOps, Accepted, output
<1>2. CASE RunTask \/ TasksDone \/ KeysDone \/ WriteDone \/ IsEmpty \/ Disarm
  BY <1>2 DEF RunTask, TasksDone, KeysDone, WriteDone, IsEmpty, Disarm, Accepted, keys, output
<1>3. ASSUME NEW c \in Conns, HandleAccept(c) PROVE Accepted'
  BY <1>3 DEF HandleAccept, Accepted, TypeOK, output
<1>4. ASSUME NEW c \in Conns, HandleKey(c) PROVE Accepted'
  BY <1>4 DEF HandleKey, Accepted, TypeOK, output
<1>5. CASE Write
  BY <1>5 DEF Write, Accepted, TypeOK, keys
<1>6. CASE WriteFails \/ AskTerminate
  BY <1>6 DEF WriteFails, AskTerminate, Accepted, TypeOK, keys, output
<1>7. ASSUME NEW c \in Conns, Client(c) \/ Process(c) \/ Arm(c) \/ Return(c) PROVE Accepted'
  BY <1>7 DEF Client, ClientGone, ClientSend, Process, Arm, Return, Accepted, keys, output
<1>8. ASSUME NEW c \in Conns, NEW d \in Conns, Send(c, d) PROVE Accepted'
  <2>1. ready' = ready /\ sel' = sel /\ cur' = cur /\ chan' = chan
    BY <1>8 DEF Send, keys
  <2>2. ASSUME NEW e \in Conns, chan[e] = "arriving" PROVE writeQueue'[e] = writeQueue[e]
    <3>1. e \notin Connections
      BY <2>2 DEF Connections
    <3>2. writeQueue \in [Conns -> Seq(Nat)]
      BY DEF TypeOK
    <3>3. QED
      BY <1>8, <3>1, <3>2 DEF Send
  <2>3. QED
    BY <2>1, <2>2 DEF Accepted
<1>9. CASE UNCHANGED vars
  BY <1>9 DEF Accepted, vars, keys, output
<1>10. QED
  BY <1>1, <1>2, <1>3, <1>4, <1>5, <1>6, <1>7, <1>8, <1>9 DEF Next, Selector, Worker

LEMMA StillServed ==
  ASSUME NEW c \in Conns, Served(c),
         selectorTasks' = selectorTasks, ops'[c] = ops[c], sel = "dead" => sel' = "dead",
         cur' = c /\ sel' \in {"ask", "disarm"} => cur = c /\ sel \in {"ask", "disarm"},
         \A w \in Conns : wpc[w] = "arm" /\ to[w] = c => wpc'[w] = "arm" /\ to'[w] = c
  PROVE  Served(c)'
BY DEF Served

LEMMA SelectorServes ==
  ASSUME TypeOK, Accepted, AllServed, Selector
  PROVE  AllServed'
<1> SUFFICES ASSUME NEW c \in Conns, Waiting(c)' PROVE Served(c)'
  BY DEF AllServed
<1>1. CASE Select \/ TasksDone \/ KeysDone \/ WriteDone
  BY <1>1 DEF Select, TasksDone, KeysDone, WriteDone, AllServed, Waiting, Served, keys, pool, output
<1>2. CASE RunTask
  <2>1. Waiting(c) /\ to' = to /\ wpc' = wpc /\ cur' = cur
    BY <1>2 DEF RunTask, Waiting, pool, output
  <2>2. CASE sel' = "dead"
    BY <2>2 DEF Served
  <2>3. CASE ops' = [ops EXCEPT ![Head(selectorTasks)] = {"R", "W"}] /\ sel' = "tasks"
    <3>1. CASE c = Head(selectorTasks)
      BY <2>3, <3>1 DEF Served, TypeOK
    <3>2. CASE c # Head(selectorTasks)
      <4>1. ops'[c] = ops[c]
        BY <2>3, <3>2 DEF TypeOK
      <4>2. CASE \E i \in 1 .. Len(selectorTasks) : selectorTasks[i] = c
        <5>1. PICK i \in 1 .. Len(selectorTasks) : selectorTasks[i] = c
          BY <4>2
        <5>2. /\ selectorTasks' = Tail(selectorTasks) /\ Head(selectorTasks) = selectorTasks[1]
              /\ Len(selectorTasks) \in Nat \ {0}
              /\ Len(selectorTasks') = Len(selectorTasks) - 1
              /\ \A j \in 1 .. Len(selectorTasks) - 1 : selectorTasks'[j] = selectorTasks[j + 1]
          BY <1>2, TailFacts DEF RunTask, TypeOK
        <5>3. i # 1
          BY <3>2, <5>1, <5>2
        <5>4. i - 1 \in 1 .. Len(selectorTasks) - 1 /\ (i - 1) + 1 = i
          BY <5>2, <5>3
        <5>5. selectorTasks'[i - 1] = c /\ i - 1 \in 1 .. Len(selectorTasks')
          BY <5>1, <5>2, <5>4
        <5>6. QED
          BY <5>5 DEF Served
      <4>3. QED
        BY <1>2, <2>1, <2>3, <4>1, <4>2 DEF RunTask, AllServed, Served
    <3>3. QED
      BY <3>1, <3>2
  <2>4. QED
    BY <1>2, <2>2, <2>3 DEF RunTask
<1>3. ASSUME NEW d \in Conns, HandleAccept(d) PROVE Served(c)'
  BY <1>3 DEF HandleAccept, AllServed, Waiting, Served, Accepted, TypeOK, pool, output
<1>4. ASSUME NEW d \in Conns, HandleKey(d) PROVE Served(c)'
  <2>1. /\ ops' = ops /\ selectorTasks' = selectorTasks /\ wpc' = wpc /\ to' = to
        /\ writeQueue' = writeQueue /\ sel = "keys" /\ sel' \in {"keys", "write"}
    BY <1>4 DEF HandleKey, output
  <2>2. chan \in [Conns -> {"arriving", "open", "closed"}]
    BY DEF TypeOK
  <2>3. chan'[c] = "open" => chan[c] = "open"
    BY <1>4, <2>2 DEF HandleKey
  <2>4. Served(c)
    BY <2>1, <2>3 DEF AllServed, Waiting
  <2>5. QED
    BY <2>1, <2>4, StillServed
<1>5. CASE Write
  BY <1>5 DEF Write, AllServed, Waiting, Served, TypeOK, keys, pool
<1>6. CASE WriteFails \/ AskTerminate
  <2>1. /\ ops' = ops /\ selectorTasks' = selectorTasks /\ wpc' = wpc /\ to' = to
        /\ cur' = cur /\ writeQueue' = writeQueue /\ cur \in Conns
        /\ sel \in {"write", "ask"}
    BY <1>6 DEF WriteFails, AskTerminate, TypeOK, keys, pool, output
  <2>2. chan \in [Conns -> {"arriving", "open", "closed"}]
    BY DEF TypeOK
  <2>3. chan'[c] = "open" => chan[c] = "open"
    BY <1>6, <2>1, <2>2 DEF WriteFails, AskTerminate
  <2>4. Served(c)
    BY <2>1, <2>3 DEF AllServed, Waiting
  <2>5. sel' \in {"ask", "disarm"} => sel = "ask"
    BY <1>6 DEF WriteFails, AskTerminate
  <2>6. QED
    BY <2>1, <2>4, <2>5, StillServed
<1>7. CASE IsEmpty
  BY <1>7 DEF IsEmpty, AllServed, Waiting, Served, keys, pool, output
<1>8. CASE Disarm
  BY <1>8 DEF Disarm, AllServed, Waiting, Served, TypeOK, pool, output
<1>9. QED
  BY <1>1, <1>2, <1>3, <1>4, <1>5, <1>6, <1>7, <1>8 DEF Selector

LEMMA WorkerServes ==
  ASSUME TypeOK, AllServed, NEW w \in Conns, Worker(w)
  PROVE  AllServed'
<1> SUFFICES ASSUME NEW c \in Conns, Waiting(c)' PROVE Served(c)'
  BY DEF AllServed
<1>1. CASE Process(w) \/ Return(w)
  <2>1. /\ ops' = ops /\ selectorTasks' = selectorTasks /\ cur' = cur /\ sel' = sel
        /\ chan' = chan /\ writeQueue' = writeQueue /\ to' = to
    BY <1>1 DEF Process, Return, keys, output
  <2>2. wpc \in [Conns -> {"idle", "send", "arm"}] /\ wpc[w] # "arm"
    BY <1>1 DEF Process, Return, TypeOK
  <2>3. \A v \in Conns : wpc[v] = "arm" => wpc'[v] = "arm"
    BY <1>1, <2>2 DEF Process, Return
  <2>4. Served(c)
    BY <2>1 DEF AllServed, Waiting
  <2>5. QED
    BY <2>1, <2>3, <2>4, StillServed
<1>2. ASSUME NEW d \in Conns, Send(w, d) PROVE Served(c)'
  <2>1. CASE c = d /\ to'[w] = d /\ wpc'[w] = "arm"
    BY <2>1 DEF Served
  <2>2. CASE writeQueue'[c] = writeQueue[c]
    <3>1. /\ ops' = ops /\ selectorTasks' = selectorTasks /\ cur' = cur /\ sel' = sel
          /\ chan' = chan /\ wpc[w] # "arm"
      BY <1>2 DEF Send, keys
    <3>2. wpc \in [Conns -> {"idle", "send", "arm"}] /\ to \in [Conns -> Conns \cup {None}]
      BY DEF TypeOK
    <3>3. \A v \in Conns : v # w => wpc'[v] = wpc[v] /\ to'[v] = to[v]
      BY <1>2, <3>2 DEF Send
    <3>4. Served(c)
      BY <2>2, <3>1 DEF AllServed, Waiting
    <3>5. QED
      BY <3>1, <3>3, <3>4, StillServed
  <2>3. QED
    <3>1. /\ writeQueue \in [Conns -> Seq(Nat)] /\ wpc \in [Conns -> {"idle", "send", "arm"}]
          /\ to \in [Conns -> Conns \cup {None}]
      BY DEF TypeOK
    <3>2. QED
      BY <1>2, <2>1, <2>2, <3>1 DEF Send
<1>3. CASE Arm(w)
  <2>1. Waiting(c) /\ sel' = sel /\ cur' = cur /\ ops' = ops
    BY <1>3 DEF Arm, Waiting, output
  <2>2. /\ Len(selectorTasks) \in Nat /\ to[w] \in Conns
        /\ Len(selectorTasks') = Len(selectorTasks) + 1
        /\ \A i \in 1 .. Len(selectorTasks) : selectorTasks'[i] = selectorTasks[i]
        /\ selectorTasks'[Len(selectorTasks) + 1] = to[w]
    BY <1>3, AppendFacts DEF Arm, TypeOK
  <2>3. CASE to[w] = c
    BY <2>2, <2>3 DEF Served
  <2>4. CASE \E i \in 1 .. Len(selectorTasks) : selectorTasks[i] = c
    BY <2>2, <2>4 DEF Served
  <2>5. CASE \E v \in Conns \ {w} : wpc[v] = "arm" /\ to[v] = c
    BY <1>3, <2>5 DEF Arm, Served, TypeOK
  <2>6. QED
    BY <2>1, <2>3, <2>4, <2>5 DEF AllServed, Served
<1>4. QED
  BY <1>1, <1>2, <1>3 DEF Worker

LEMMA NextServes == TypeOK /\ Accepted /\ AllServed /\ [Next]_vars => AllServed'
<1> SUFFICES ASSUME TypeOK, Accepted, AllServed, [Next]_vars PROVE AllServed'
  OBVIOUS
<1>1. ASSUME NEW c \in Conns, Client(c) PROVE AllServed'
  BY <1>1 DEF Client, ClientGone, ClientSend, AllServed, Waiting, Served, keys, pool, output
<1>2. CASE UNCHANGED vars
  BY <1>2 DEF AllServed, Waiting, Served, vars, keys, pool, output
<1>3. QED
  BY <1>1, <1>2, SelectorServes, WorkerServes DEF Next

(* While a message waits for an open channel, somebody is about to write    *)
(* it, and the selector thread does not sleep over a task.                  *)
THEOREM ReactorNoLostWakeup == Spec => []NothingForgotten
<1>1. TypeOK /\ Awake /\ AllServed => NothingForgotten
  BY DEF Awake, AllServed, Waiting, Served, NothingForgotten
<1>2. QED
  BY <1>1, InitWakeup, NextAwake, NextAccepted, NextServes, ReactorTypeCorrect, PTL DEF Spec
=============================================================================

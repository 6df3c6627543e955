------------------------------ MODULE Reactor ------------------------------
(* The reactor: one selector thread accepts, reads and writes; pool threads *)
(* process the frames it has read and queue the answers.  They meet in the  *)
(* write queue of each handler, in the queue of selector tasks, in the      *)
(* interest set of each key, and in shouldTerminate.                        *)
(*                                                                          *)
(* The pool is what ActorQueues promises: the buffers of one connection are *)
(* processed in order, one at a time.  What process() does is reduced to    *)
(* whom it sends to and whether it ends the connection.                     *)
EXTENDS Naturals, Sequences, FiniteSets

CONSTANTS
  Conns,      \* connections, with their handlers
  Kinds,      \* the kinds of frames clients send, among FrameKinds
  MaxFrames,  \* how many frames the clients send (a bound)
  MaxGone,    \* how many clients go away (a bound)
  None        \* no connection

(* answer: to its own connection.  broadcast: to every connection the       *)
(* controller knows.  refuse: an ERROR, and the end.  raise: an exception.  *)
FrameKinds == {"answer", "broadcast", "refuse", "raise"}

ASSUME KindsAssumption == Kinds \subseteq FrameKinds
ASSUME BoundsAssumption == MaxFrames \in Nat /\ MaxGone \in Nat
ASSUME NoneAssumption == None \notin Conns

VARIABLES
  chan,            \* "arriving" before the accept, "open", "closed"
  ops,             \* the interest set of each key
  ready,           \* the selected keys, each with its ready set
  selectorTasks,   \* updates of interest sets, for the selector thread
  wakeup,          \* select() is to return at once
  sel,             \* what the selector thread does next
  cur,             \* the handler it is writing for
  inbox,           \* frames that have arrived and were not read yet
  asked,           \* how many frames the clients have sent
  gone,            \* clients that have closed or reset their connection
  buffers,         \* the frames read, one sequence for each read
  wpc,             \* what the pool thread of each connection does next
  frame,           \* the frame it processes
  targets,         \* connections it has yet to send to
  to,              \* the connection it is sending to
  shouldTerminate, \* connections whose protocol object was told to stop
  writeQueue,      \* the messages, numbered, that wait for the socket
  added,           \* how many messages were queued
  written,         \* how many were written to the socket
  partial          \* handlers the head of whose queue is partly written

keys == <<ops, ready, selectorTasks, wakeup>>
client == <<inbox, asked, gone>>
pool == <<buffers, wpc, frame, targets, to, shouldTerminate>>
output == <<writeQueue, added, written, partial>>
vars == <<chan, keys, sel, cur, client, pool, output>>

Init ==
  /\ chan = [c \in Conns |-> "arriving"]
  /\ ops = [c \in Conns |-> {}]
  /\ ready = [c \in Conns |-> {}]
  /\ selectorTasks = <<>>
  /\ wakeup = FALSE
  /\ sel = "select"
  /\ cur = None
  /\ inbox = [c \in Conns |-> <<>>]
  /\ asked = 0
  /\ gone = {}
  /\ buffers = [c \in Conns |-> <<>>]
  /\ wpc = [c \in Conns |-> "idle"]
  /\ frame = [c \in Conns |-> None]
  /\ targets = [c \in Conns |-> {}]
  /\ to = [c \in Conns |-> None]
  /\ shouldTerminate = {}
  /\ writeQueue = [c \in Conns |-> <<>>]
  /\ added = [c \in Conns |-> 0]
  /\ written = [c \in Conns |-> 0]
  /\ partial = {}

(* The handlers the controller has: from the accept to a refusal.           *)
Connections == {c \in Conns : chan[c] # "arriving"} \ shouldTerminate

-----------------------------------------------------------------------------
(* The clients.                                                             *)

ClientSend(c, k) ==
  /\ chan[c] = "open" /\ c \notin gone
  /\ asked < MaxFrames
  /\ asked' = asked + 1
  /\ inbox' = [inbox EXCEPT ![c] = Append(@, k)]
  /\ UNCHANGED <<gone, chan, keys, sel, cur, pool, output>>

ClientGone(c) ==
  /\ chan[c] = "open" /\ c \notin gone
  /\ Cardinality(gone) < MaxGone
  /\ gone' = gone \cup {c}
  /\ UNCHANGED <<inbox, asked, chan, keys, sel, cur, pool, output>>

-----------------------------------------------------------------------------
(* The selector thread: serve().                                            *)

ReadyOps(c) ==
  (IF chan[c] = "arriving" THEN {"A"} ELSE {}) \cup
  (IF chan[c] = "open" /\ "R" \in ops[c] /\ (inbox[c] # <<>> \/ c \in gone)
   THEN {"R"} ELSE {}) \cup
  (IF chan[c] = "open" /\ "W" \in ops[c] THEN {"W"} ELSE {})

(* select() sleeps until a key is ready or it was woken up.                 *)
Select ==
  /\ sel = "select"
  /\ wakeup \/ \E c \in Conns : ReadyOps(c) # {}
  /\ wakeup' = FALSE
  /\ ready' = [c \in Conns |-> ReadyOps(c)]
  /\ sel' = "tasks"
  /\ UNCHANGED <<chan, ops, selectorTasks, cur, client, pool, output>>

(* runSelectionThreadTasks.  The key of a channel that is closed by now is  *)
(* cancelled, or, if it was so already when the task was made, null: the    *)
(* task raises, nothing catches it, and serve() ends.                       *)
RunTask ==
  /\ sel = "tasks"
  /\ selectorTasks # <<>>
  /\ selectorTasks' = Tail(selectorTasks)
  /\ LET c == Head(selectorTasks)
     IN \/ /\ chan[c] = "open"
           /\ ops' = [ops EXCEPT ![c] = {"R", "W"}]
           /\ UNCHANGED sel
        \/ /\ chan[c] = "closed"
           /\ sel' = "dead"
           /\ UNCHANGED ops
  /\ UNCHANGED <<ready, wakeup, chan, cur, client, pool, output>>

TasksDone ==
  /\ sel = "tasks"
  /\ selectorTasks = <<>>
  /\ sel' = "keys"
  /\ UNCHANGED <<chan, keys, cur, client, pool, output>>

(* handleAccept: one connection for each time the server's key is selected. *)
(* Nobody sends to a handler before its channel is registered: its client   *)
(* has not logged in.                                                       *)
HandleAccept(c) ==
  /\ sel = "keys"
  /\ "A" \in ready[c]
  /\ chan' = [chan EXCEPT ![c] = "open"]
  /\ ops' = [ops EXCEPT ![c] = {"R"}]
  /\ ready' = [d \in Conns |-> ready[d] \ {"A"}]
  /\ UNCHANGED <<selectorTasks, wakeup, sel, cur, client, pool, output>>

(* Mutant: the end of the stream is taken for a read of nothing.            *)
HandleKeyNoEnd(c) ==
  /\ sel = "keys"
  /\ ready[c] \cap {"R", "W"} # {}
  /\ ready' = [ready EXCEPT ![c] = {}]
  /\ buffers' = IF "R" \in ready[c] THEN [buffers EXCEPT ![c] = Append(@, inbox[c])] ELSE buffers
  /\ inbox' = IF "R" \in ready[c] THEN [inbox EXCEPT ![c] = <<>>] ELSE inbox
  /\ sel' = IF "W" \in ready[c] THEN "write" ELSE sel
  /\ cur' = IF "W" \in ready[c] THEN c ELSE cur
  /\ UNCHANGED <<ops, selectorTasks, wakeup, asked, gone, chan,
                 wpc, frame, targets, to, shouldTerminate, output>>

(* handleReadWrite: continueRead hands what has arrived to the pool, or     *)
(* closes the channel of a client that is gone, at the end of the stream or *)
(* when a reset fails the read; then continueWrite, if the key is valid.    *)
HandleKey(c) ==
  /\ sel = "keys"
  /\ ready[c] \cap {"R", "W"} # {}
  /\ ready' = [ready EXCEPT ![c] = {}]
  /\ \E ended \in BOOLEAN :
       LET reads == "R" \in ready[c]
           writes == "W" \in ready[c] /\ ~ended
       IN /\ ended => reads /\ c \in gone
          /\ reads /\ inbox[c] = <<>> => ended
          /\ chan' = IF ended THEN [chan EXCEPT ![c] = "closed"] ELSE chan
          /\ buffers' = IF reads /\ ~ended THEN [buffers EXCEPT ![c] = Append(@, inbox[c])]
                        ELSE buffers
          /\ inbox' = IF reads THEN [inbox EXCEPT ![c] = <<>>] ELSE inbox
          /\ sel' = IF writes THEN "write" ELSE sel
          /\ cur' = IF writes THEN c ELSE cur
  /\ UNCHANGED <<ops, selectorTasks, wakeup, asked, gone,
                 wpc, frame, targets, to, shouldTerminate, output>>

KeysDone ==
  /\ sel = "keys"
  /\ \A c \in Conns : ready[c] = {}
  /\ sel' = "select"
  /\ UNCHANGED <<chan, keys, cur, client, pool, output>>

(* Mutant: the message is taken off the queue before it is written, and put *)
(* back when it was not written entirely.                                   *)
WritePutsBack ==
  /\ sel = "write"
  /\ writeQueue[cur] # <<>>
  /\ chan[cur] = "open"
  /\ \/ /\ cur \notin partial
        /\ partial' = partial \cup {cur}
        /\ writeQueue' = [writeQueue EXCEPT ![cur] = Append(Tail(@), Head(@))]
        /\ sel' = "keys"
        /\ UNCHANGED written
     \/ /\ partial' = partial \ {cur}
        /\ writeQueue' = [writeQueue EXCEPT ![cur] = Tail(@)]
        /\ written' = [written EXCEPT ![cur] = @ + 1]
        /\ UNCHANGED sel
  /\ UNCHANGED <<added, chan, keys, cur, client, pool>>

(* One turn of continueWrite's loop.  The socket takes a part of the head   *)
(* at first (once: a bound), or all that is left of it.                     *)
Write ==
  /\ sel = "write"
  /\ writeQueue[cur] # <<>>
  /\ chan[cur] = "open"
  /\ \/ /\ cur \notin partial
        /\ partial' = partial \cup {cur}
        /\ sel' = "keys"
        /\ UNCHANGED <<writeQueue, written>>
     \/ /\ partial' = partial \ {cur}
        /\ writeQueue' = [writeQueue EXCEPT ![cur] = Tail(@)]
        /\ written' = [written EXCEPT ![cur] = @ + 1]
        /\ UNCHANGED sel
  /\ UNCHANGED <<added, chan, keys, cur, client, pool>>

(* The write fails: the channel is closed, and the loop goes on with a      *)
(* queue that nothing empties any more.                                     *)
WriteFails ==
  /\ sel = "write"
  /\ writeQueue[cur] # <<>>
  /\ chan[cur] = "open"
  /\ cur \in gone
  /\ chan' = [chan EXCEPT ![cur] = "closed"]
  /\ UNCHANGED <<keys, sel, cur, client, pool, output>>

(* The loop ends, and the queue is looked at once more.                     *)
WriteDone ==
  /\ sel = "write"
  /\ writeQueue[cur] = <<>>
  /\ sel' = "empty"
  /\ UNCHANGED <<chan, keys, cur, client, pool, output>>

IsEmpty ==
  /\ sel = "empty"
  /\ sel' = IF writeQueue[cur] = <<>> THEN "ask" ELSE "keys"
  /\ UNCHANGED <<chan, keys, cur, client, pool, output>>

AskTerminate ==
  /\ sel = "ask"
  /\ \/ /\ cur \in shouldTerminate
        /\ chan' = [chan EXCEPT ![cur] = "closed"]
        /\ sel' = "keys"
     \/ /\ cur \notin shouldTerminate
        /\ sel' = "disarm"
        /\ UNCHANGED chan
  /\ UNCHANGED <<keys, cur, client, pool, output>>

Disarm ==
  /\ sel = "disarm"
  /\ ops' = [ops EXCEPT ![cur] = {"R"}]
  /\ sel' = "keys"
  /\ UNCHANGED <<ready, selectorTasks, wakeup, chan, cur, client, pool, output>>

-----------------------------------------------------------------------------
(* The pool thread that works for a connection.                             *)

(* The next frame of the buffer.  An exception ends the task: the frames    *)
(* behind this one are lost with the buffer.                                *)
Process(c) ==
  /\ wpc[c] = "idle"
  /\ buffers[c] # <<>>
  /\ LET chunk == Head(buffers[c])
         rest == Tail(chunk)
     IN /\ buffers' = [buffers EXCEPT ![c] =
                         IF rest = <<>> \/ Head(chunk) = "raise" THEN Tail(@)
                         ELSE <<rest>> \o Tail(@)]
        /\ frame' = [frame EXCEPT ![c] = IF Head(chunk) = "raise" THEN None ELSE Head(chunk)]
        /\ wpc' = [wpc EXCEPT ![c] = IF Head(chunk) = "raise" THEN @ ELSE "send"]
        /\ targets' = [targets EXCEPT ![c] =
                         CASE Head(chunk) = "broadcast" -> Connections
                           [] Head(chunk) \in {"answer", "refuse"} -> {c}
                           [] OTHER -> {}]
  /\ UNCHANGED <<to, shouldTerminate, chan, keys, sel, cur, client, output>>

(* connections.send(d, msg), first half: the message is queued, if the      *)
(* controller still has the handler.                                        *)
Send(c, d) ==
  /\ wpc[c] = "send"
  /\ d \in targets[c]
  /\ targets' = [targets EXCEPT ![c] = @ \ {d}]
  /\ \/ /\ d \in Connections
        /\ writeQueue' = [writeQueue EXCEPT ![d] = Append(@, added[d] + 1)]
        /\ added' = [added EXCEPT ![d] = @ + 1]
        /\ to' = [to EXCEPT ![c] = d]
        /\ wpc' = [wpc EXCEPT ![c] = "arm"]
     \/ /\ d \notin Connections
        /\ UNCHANGED <<writeQueue, added, to, wpc>>
  /\ UNCHANGED <<buffers, frame, shouldTerminate, written, partial, chan, keys, sel, cur,
                 client>>

(* Mutant: the pool thread changes the interest set itself.                 *)
ArmAtOnce(c) ==
  /\ wpc[c] = "arm"
  /\ ops' = [ops EXCEPT ![to[c]] = {"R", "W"}]
  /\ wpc' = [wpc EXCEPT ![c] = "send"]
  /\ to' = [to EXCEPT ![c] = None]
  /\ UNCHANGED <<ready, wakeup, selectorTasks, buffers, frame, targets, shouldTerminate,
                 chan, sel, cur, client, output>>

(* Mutant: the selector is not woken up.                                    *)
ArmQuietly(c) ==
  /\ wpc[c] = "arm"
  /\ selectorTasks' = Append(selectorTasks, to[c])
  /\ wpc' = [wpc EXCEPT ![c] = "send"]
  /\ to' = [to EXCEPT ![c] = None]
  /\ UNCHANGED <<ops, ready, wakeup, buffers, frame, targets, shouldTerminate, chan, sel, cur,
                 client, output>>

(* Second half: updateInterestedOps leaves the update to the selector.      *)
Arm(c) ==
  /\ wpc[c] = "arm"
  /\ selectorTasks' = Append(selectorTasks, to[c])
  /\ wakeup' = TRUE
  /\ wpc' = [wpc EXCEPT ![c] = "send"]
  /\ to' = [to EXCEPT ![c] = None]
  /\ UNCHANGED <<ops, ready, buffers, frame, targets, shouldTerminate, chan, sel, cur, client,
                 output>>

(* process() returns; after a refusal it has removed the handler from the   *)
(* controller and told itself to stop.                                      *)
Return(c) ==
  /\ wpc[c] = "send"
  /\ targets[c] = {}
  /\ wpc' = [wpc EXCEPT ![c] = "idle"]
  /\ frame' = [frame EXCEPT ![c] = None]
  /\ \/ /\ frame[c] = "refuse"
        /\ shouldTerminate' = shouldTerminate \cup {c}
     \/ /\ frame[c] # "refuse"
        /\ UNCHANGED shouldTerminate
  /\ UNCHANGED <<buffers, targets, to, chan, keys, sel, cur, client, output>>

-----------------------------------------------------------------------------
Selector ==
  \/ Select \/ RunTask \/ TasksDone \/ KeysDone
  \/ \E c \in Conns : HandleAccept(c) \/ HandleKey(c)
  \/ Write \/ WriteFails \/ WriteDone \/ IsEmpty \/ AskTerminate \/ Disarm

Worker(c) == Process(c) \/ (\E d \in Conns : Send(c, d)) \/ Arm(c) \/ Return(c)

Client(c) == ClientGone(c) \/ \E k \in Kinds : ClientSend(c, k)

Next == Selector \/ \E c \in Conns : Worker(c) \/ Client(c)

Spec == Init /\ [][Next]_vars

(* Both kinds of threads run on; clients do as they like, but read what is  *)
(* written to them while they are there.                                    *)
FairSpec == Spec /\ WF_vars(Selector) /\ \A c \in Conns : WF_vars(Worker(c))

-----------------------------------------------------------------------------
(* Every variable has its type, and what a thread is working on exists.     *)
TypeOK ==
  /\ chan \in [Conns -> {"arriving", "open", "closed"}]
  /\ ops \in [Conns -> SUBSET {"R", "W"}]
  /\ ready \in [Conns -> SUBSET {"A", "R", "W"}]
  /\ selectorTasks \in Seq(Conns)
  /\ wakeup \in BOOLEAN
  /\ sel \in {"select", "tasks", "keys", "write", "empty", "ask", "disarm", "dead"}
  /\ cur \in Conns \cup {None}
  /\ sel \in {"write", "empty", "ask", "disarm"} => cur \in Conns
  /\ inbox \in [Conns -> Seq(Kinds)]
  /\ asked \in 0 .. MaxFrames
  /\ gone \subseteq Conns
  /\ buffers \in [Conns -> Seq(Seq(Kinds) \ {<<>>})]
  /\ wpc \in [Conns -> {"idle", "send", "arm"}]
  /\ frame \in [Conns -> Kinds \cup {None}]
  /\ targets \in [Conns -> SUBSET Conns]
  /\ to \in [Conns -> Conns \cup {None}]
  /\ \A c \in Conns : wpc[c] = "arm" => to[c] \in Conns
  /\ shouldTerminate \subseteq Conns
  /\ writeQueue \in [Conns -> Seq(Nat)]
  /\ added \in [Conns -> Nat]
  /\ written \in [Conns -> Nat]
  /\ partial \subseteq Conns

(* The queue of a handler holds, in order, what was sent and is not yet     *)
(* written: no message is lost, doubled or overtaken, whichever threads     *)
(* send and whatever part of the head the socket has taken.                 *)
InOrder ==
  \A c \in Conns :
    /\ written[c] + Len(writeQueue[c]) = added[c]
    /\ \A i \in 1 .. Len(writeQueue[c]) : writeQueue[c][i] = written[c] + i

(* No lost wake-up: while a message waits for an open channel, the key is   *)
(* interested in writing and the selector is not about to change that, or a *)
(* task that makes it so is queued or about to be; and the selector does    *)
(* not sleep over a queued task.                                            *)
NothingForgotten ==
  /\ \A c \in Conns :
       chan[c] = "open" /\ writeQueue[c] # <<>> =>
         \/ "W" \in ops[c] /\ ~(cur = c /\ sel \in {"ask", "disarm"})
         \/ \E w \in Conns : wpc[w] = "arm" /\ to[w] = c
         \/ \E i \in 1 .. Len(selectorTasks) : selectorTasks[i] = c
         \/ sel = "dead"
  /\ sel = "select" /\ selectorTasks # <<>> => wakeup

(* The selector thread is in the loop of WriteFails for good.               *)
Spinning == sel = "write" /\ chan[cur] = "closed" /\ writeQueue[cur] # <<>>

(* A queued message is written in the end, unless its channel is closed or  *)
(* the selector thread is lost.                                             *)
EveryMessageWritten ==
  \A c \in Conns, n \in 1 .. MaxFrames :
    added[c] >= n ~> written[c] >= n \/ chan[c] = "closed" \/ sel = "dead" \/ Spinning

(* What the code does not do.                                               *)

(* serve() is the server's main loop: no client's departure ends it.        *)
SelectorSurvives == sel # "dead"

(* A connection whose protocol says it should be terminated is closed.      *)
TerminatedIsClosed ==
  \A c \in Conns :
    c \in shouldTerminate ~> chan[c] = "closed" \/ sel = "dead" \/ Spinning
=============================================================================

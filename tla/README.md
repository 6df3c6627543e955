# Verification of the World Cup community updates server

A STOMP server in Java, thread-per-client or reactor, on which users log in, join game channels, and
send one another reports of game events; and a client in C++. This directory holds TLA+ modules of the
server and of the client, the configurations that model-check them, and theorems about them with proofs for TLAPS.

## The system

| Part | State | Operations | Hard behaviour | What makes it correct |
|---|---|---|---|---|
| Protocol object, `StompMessagingProtocolImpl` (one per connection) | `shouldTerminate`, `headers`, message number | `start`, `process` (CONNECT, SEND, SUBSCRIBE, UNSUBSCRIBE, DISCONNECT) | check-then-act over a shared controller; checks that do not return; exceptions in the middle; headers kept over an exception | a login needs the passcode and no other session; each frame is answered or the connection ends; only complete frames act |
| `ConnectionController`, `UserController`, `User` (one, shared) | handlers, user-to-connection and connection-to-user maps, channels, accounts, subscriptions | the calls `process` makes; `addConnection` by the acceptor | no lock at all; iterators over maps others change | the maps agree with one another; a session ends with nothing left; a broadcast reaches every subscriber; an UNSUBSCRIBE unsubscribes |
| `BaseServer`, `BlockingConnectionHandler` | socket, streams | accept, reading loop, `send`, `close` | sends by other threads; end of stream; exceptions | a refused client is disconnected; a client that is gone is logged out |
| `Reactor`, `NonBlockingConnectionHandler` | selector, interest ops, write queue, buffers | accept, `continueRead`, `continueWrite`, `send`, selector tasks | three kinds of threads on one handler; frames processed after the close | what is sent is written, in order; a terminated connection is closed; the selector lives |
| `ActorThreadPool` | `playingNow`, pending queues, executor queue | `submit`, `complete`, `shutdown` | the last task completing while another is submitted; shutdown | tasks of a connection run one at a time, in order, none lost |
| `LineMessageEncoderDecoder` | bytes so far | `decodeNextByte`, `encode` | buffer growth, frames cut by reads | frames come out as they went in |
| Client: `UserTask` (two threads), `StompProtocol` | flags, receipt and subscription ids, pending receipts, games | keyboard commands, incoming frames | unsynchronised threads; ids that advance only on a RECEIPT | a RECEIPT confirms the command it was sent for |
| Client: `Summary`, `event` | map of summaries | report, MESSAGE, `summary` | one map for two threads; lines found by number | what was reported is what the summary says |

The parts interact by calls: the acceptor or the selector thread makes handlers and registers them; a
client's thread, or a pool thread, decodes frames and calls `process`; `process` calls the controller;
the controller calls `send` of its own handler and, in a broadcast, of other connections' handlers.
Client and server exchange frames over one socket each. `PROJECT.json` lists every component and
every hazard, at its line.

## Modules

| Module | What it is |
|---|---|
| `Membership` | the abstract promise: accounts, at most one session per user, channels joined and left from within a session |
| `StompServer` | controller, protocol objects and their workers; the core of the project |
| `StompBroadcast` | `StompServer` with a history variable: whom each broadcast owes its MESSAGE |
| `ActorQueues` | the abstract promise of the pool: one FIFO queue per actor |
| `ActorPool` | `ActorThreadPool` |
| `Reactor` | selector thread, interest sets, selector tasks, write queues |
| `BlockingHandler` | one connection of the thread-per-client server byte by byte: the decoder, the reading loop, `send` |
| `Summaries` | reports, the lines of their frames, and the map of summaries the client's two threads share |
| `StompClient` | the client's two threads and its protocol object, with the server as one connection meets it |
| `MCStompServer`, `MCStompBroadcast`, `MCActorPool`, `MCReactor`, `MCBlockingHandler`, `MCStompClient`, `MCSummaries` | instances for TLC |
| `StompServerProofs`, `StompSerialProofs` | theorems about `StompServer`: in any interleaving, and when frames come one at a time |
| `StompBroadcastProofs` | theorems about `StompBroadcast` |
| `ActorPoolProofs` | theorems about `ActorPool` |
| `ReactorProofs` | theorems about `Reactor` |
| `BlockingHandlerProofs` | theorems about `BlockingHandler` |
| `StompClientProofs` | theorems about `StompClient` |
| `SummariesProofs` | theorems about `Summaries` |

### StompServer

`connections`, `userToConnection`, `connectionToUser` and `channels` are the controller's fields,
`password` and `subscriptions` those of its `User` objects; `Null` stands for an absent key.
`shouldTerminate` and `headers` belong to the protocol object of each connection, `sock` to its
handler. The rest is what a thread in the middle of `process` has on its stack: `pc` names the next
call, `frame` is the frame in hand, `resume` where `process` goes on after an ERROR that does not
return. A broadcast has two iterators: `todo` is what the one over the logged-in users has still to come
to, and `stale` the workers another thread has invalidated it for; `target` is the user it is at, `values`
the iterator over the values of that user's subscriptions (`Look`) with what has been done to their map since.
`reply` and `delivered` record what was sent.

*Steps.* One call of the controller is one step, and so is what a thread does on its own data between two
calls. Three calls are longer: `send(channel, msg)` makes a step for each user it visits, one for each
subscription of that user it looks at, and one for the post; `createUser` is a test, a put and `logging`;
`disconnect` clears the subscriptions in one step and the maps in another. An answer to the worker's own
connection is a step with the assignment of `shouldTerminate` that follows, which no other thread of the
thread-per-client server reads. What two threads can do to one another inside a single call of a `HashMap` (a
lost entry, a broken bucket) is not modelled, except for the iterators, which really are used over many calls.
So the properties that fail in these models fail without the help of such a race. `getSubscriptionId`, which
iterates over the sender's own subscriptions, is one step: only a second session of the same user could change
them meanwhile. An iterator over a user's subscriptions is invalidated by a SUBSCRIBE with a new id and by the
clearing in `disconnect` (`Changed`); a second `createUser` leaves it the map of the old `User` object, which
nobody changes any more (`Replaced`). An iterator that has come to its end does not notice.

*Frames.* A frame says which known headers it has, not what they look like. `broken` is a frame with a
line on which the header loop fails. The code looks for fixed lines (`lines[3]`, `lines[4]`) and not
for the headers it has found: `Lines` and `Complete` say when these are missing, and `Junk` is the
"channel" that comes out when line 1 is not the destination. Subscription ids are numbers. The number
of MESSAGEs and the text of frames are left out.

*Exceptions* are steps (`Raise`): in the thread-per-client server they end the thread and close the
socket, in the reactor they end the task, the connection staying as it is. In both the controller's
maps, and the header map, are left where they were.

*Two constants choose the server.* `Mode` is the second argument of the program. `Parallel` is FALSE
for a reactor whose pool has one thread (`StompServer.main` makes it as large as the number of
processors): frames are then processed one after another. This is where the code does what it means
to, and what the theorems of `StompSerialProofs` are about; the other runs show
what is left of it when threads run in parallel.

### ActorPool

`submit` and `complete` are synchronised on the actor, so each is an action; `ready` is the queue of
the `ExecutorService`, and a thread goes from `Take` through `Run` to `Complete`. `Shutdown` may come
at any time: it is the selector thread's last act, so nothing is submitted after it.

### Reactor

`sel` is where the selector thread is: asleep in `select`, running the queued tasks, going through the
selected keys, or at one of the lines of `continueWrite` (`write`, `empty`, `ask`, `disarm`) for the
handler `cur`. `ops` and `ready` are the interest and ready sets of the keys, `chan` the state of the
channels, `wakeup` the selector's flag. `wpc` is where the pool thread of a connection is: between two
frames, sending, or between the two halves of `send`, `writeQueue.add` and `updateInterestedOps`.
Messages are numbered for each handler as they are queued (`added`), so that a queue says what it has
lost, doubled or swapped.

*Steps.* A step is what one thread does between two looks at something another thread changes: the four
tests at the end of `continueWrite` are four steps, the two halves of `send` are two. The removal of a
refused client's handler and the assignment of `shouldTerminate` after it are one (`Return`), the
accept and the registration of a handler are one. A task for a closed channel raises whether its key is
cancelled or, being deregistered by the time the task was made, null; the model does not tell these
apart. `shouldTerminate` is not volatile, so the selector thread might see its old value longer than
the model says.

*What is reduced.* The pool is what `ActorQueues` promises: the buffers of a connection are processed in
order, one at a time, which `ActorPool` is shown to implement. The controller's handlers are derived
(`Connections`): those accepted and not refused. `process` is the set of connections it sends to
(`answer`, `broadcast`), and whether it ends the connection (`refuse`) or raises (`raise`); a broadcast
goes to any connection, where the code takes the subscribers'. A frame lies in one buffer. The socket
takes a part of a message at most once.

### BlockingHandler

`bytes` and `len` are the decoder's array and its fill, `out` is the handler's field, `shouldTerminate` the
protocol's. `lens`, `at` and `cpc` say what the client has written (`sendFrameAscii`), `wire` what of it is
under way, `decoded` what was handed to `process`. `pc`, `sends` and `stream` are the stacks of the threads in
`send`, `buffer` is what each stream holds, `toClient` what has gone to the socket. `met` and `failed`
record which sends met another one and which raised.

*Steps.* The reading loop takes one byte at a time. A byte is what it is a part of, the number of its frame
and its place there, so that a frame put together says where each of its bytes came from; `grown` is the
array after the doubling in `pushByte`. `send` reads the field `out` three times, to set it, to write and to
flush, and each is a step; the field is not volatile, so a thread may still have its own stream the second
time (`Pick`).

*What is reduced.* A stream holds 8192 bytes before it writes by itself; frames are smaller, so a frame
reaches the socket by a flush, whole. Writing to one stream and flushing it lock the stream. `close()` is
called by nobody, so `connected` stays as it is. Other threads send only to a connection whose user has
logged in, so after its first frame; what `process` does besides is in `StompServer`. The socket may cut the
stream of bytes anywhere, which taking it byte by byte already says.

### StompClient

`connected` and `shouldTerminate` are the flags of `UserTask`, `kpc` and `spc` say where its keyboard and
its socket thread are, `msg` is the frame the keyboard thread has composed. `receiptId`, `subId`,
`receipts`, `gamesBeforeReceipts` and `games` are the fields of `StompProtocol`. `toServer` and `toClient`
are the two directions of the socket. `typed`, `hurried` and `lost` record how many commands were typed,
whether one was typed before the last was answered, and whether the connection failed.

*Steps.* Neither thread holds a lock, so a step ends wherever the other thread can change what comes
next. `processToServer` reads the numbers twice, for the frame (`Join`, `Exit`, `Logout`) and for the
maps (`Record`); the frame is sent in a third step, and a logout sets the flags in a fourth (`Leave`).
The socket thread looks at the flag (`Check`) and waits for a frame. The RECEIPT of a join
moves `receiptId` and `subId` on one after the other (`Joined`, `CountSub`). A race inside one call of a
`std::map` is not modelled.

*The server* is `process` as this connection meets it (`Serve`): it takes the frames in order, confirms a
join and a logout, refuses an exit from an id the user has no subscription under, a report of a game nobody has
a channel for (not of one the user has not joined, which it passes on to those who have) and, for any reason, a
login, and closes after an ERROR or a DISCONNECT. It removes the subscription at no UNSUBSCRIBE. Others join games
(`OtherJoins`), so that channels appear, and report on the games this user follows (`OtherSends`), so that a
MESSAGE may come between any two answers. A socket that the server closed with frames unread may be reset
under answers the client has not read yet, so these may be lost (`Reset`); this is what ends the client of a
user who reports several events of a game nobody has joined. The server itself, with all its threads, is
`StompServer`; here it is reduced to what one client can tell.

*A report* is one SEND for each event of its file, `events` of them still to come; the flag is looked at again
after the last.

*What is reduced.* What a MESSAGE does to the summaries, and the `summary` command, are in `Summaries`, which
shares no variable with this module. The flag `write`, which only the keyboard thread uses, is left out.

### Summaries

`summaries` is the map of `StompProtocol`; its keys are pairs of a user and a game, given by their places in
alphabetical order, since `isSummaryExisted` looks at the first key of the map alone. `message` is the frame the
socket thread has in hand and `spc` the call it makes next; `wanted`, `copy` and `kpc` are the keyboard
thread's, `file` is the summary file last written. `arrived` and `known` record which reports were taken in, and
how many when the user asked.

*Steps.* `SendFrame` is the frame `processToServerEvent` composes, as lines split at their colons, and
`MessageFrame` what the server makes of it; `KeyOf`, `EventOf` and `Statistics` find lines where `clientResult`
does, by numbers counted from the front and from the end. The socket thread adds the summary, then the event,
then each of the three parts of the statistics; the keyboard thread copies the summary member by member and
writes it. Neither holds a lock, so these are all steps of their own. `Raises` is the exception of `at(1)`
on a line without a colon, which ends the program.

*What is reduced.* What two threads can do to one another inside one call of a `std::map` is left out, so
what the run shows holds at best between calls. User names and values have no colon, and descriptions are not
empty. Of the JSON file a report is read from only its result is kept (`ReportType`): the statistics it has, its
name, and the lines of its description, all made of pieces of `Text`, which stands for what has neither a colon
nor a line break in it. Two reports come one after the other, as frames do; the file
may fail to open, of which the program takes no notice.

## Runs

Passing runs:

| Run | Instance | Shows |
|---|---|---|
| `server_serial` | 2 connections, 2 users, 2 passwords, 1 channel, one frame at a time | types; one session per user; subscriptions only in a session; no login without the passcode; the server implements `Membership` |
| `server_tpc` | 3 connections, 2 users, all interleavings, from two beginnings: nobody is known, frames lack headers; or two have joined and the third logs in | only complete frames subscribe; frames are answered or the socket closes; `process` ends; an ERROR ends the connection; a logout ends the session; a broadcast that ends has reached all who were subscribed throughout; one that is given up had users log in or out, or one of them change its subscriptions, meanwhile |
| `actor_pool` | 3 connections, 2 threads, 3 tasks each, a shutdown | tasks run one at a time, in order, none forgotten |
| `reactor` | 2 connections, 2 frames, 1 client that goes | types; queues in order; no lost wake-up; every message is written in the end |
| `blocking` | 2 other threads, an array of 1 byte, frames of 1 and 3, 4 bytes and sends in all | types; frames are put together whole; no frame is sent twice; a send that met no other has arrived; what the client has sent is processed |
| `client` | 2 games, 3 commands, reports of up to 2 events, MESSAGEs of others, a connection that may fail | types; every RECEIPT has its entry, and it is a sound one; a user who waits has the games the server has, but for those it was asked to leave, and meets no exception but that of a refused report; the socket thread ends |
| `summaries` | 2 users, 3 keys, 9 kinds of report, 3 reports, 1 command | types; a summary says what was reported last; what is written has not been overtaken; only descriptions of several lines end the client |

Runs that TLC refutes, each a disagreement of the code with what it or its documentation says:

| Run | Property | Why it fails |
|---|---|---|
| `violation_ghost` | `GhostLoginEnds` | nobody calls `disconnect` when a client goes away |
| `violation_double_login` | `OneSessionPerUser` | the session check and the login are separate calls |
| `violation_unsubscribe` | `UnsubscribeLeaves` | `unsubscribeFromChannel` removes nothing, and the RECEIPT is sent |
| `violation_selector` | `SelectorSurvives` | a queued update of a closed channel's key raises on the selector thread |
| `violation_terminate` | `TerminatedIsClosed` | `shouldTerminate` is read before it is set, and never again |

Three more things that one should know of the code, for which no line of the repository promises better, or
which no run is about:

- A broadcast is given up in the middle, by the exception of an iterator, only if other threads change what it
  iterates over while it runs: the logged-in users, by a login or a logout, or the subscriptions of the user it is
  looking at, by a SUBSCRIBE with a new id or by the clearing in `disconnect` (`GivenUpOnlyByChange`). The sender's
  thread ends with it.
- A report of several events of a game that nobody has joined is refused at its first. The client sends the rest
  all the same, and the reset these cause may lose the ERROR; the answer that never came is then used, and an
  exception ends the client, also that of a user who waits for each answer. `PatientUserSurvives` says that there
  is no other way.
- `isSummaryExisted` looks at the first key of the map only, so a summary that is there is reported missing once
  another one sorts before it. `Summaries` has this as it is, and no property is about it.

The client's view of its games follows the server's but for one thing: after an exit it prints "Exit succeeded" and
forgets the game, and the server keeps the subscription. `ClientKnowsItsGames` excepts the games the client was
asked to leave and no others; `violation_unsubscribe` shows the same bug where it is, in the server.

*Bounds.* Two connections suffice for every race of two workers; the broadcast needs a third, which logs in
while the first sends to the second, and the second sends, leaves or joins once more. `server_tpc` starts from
both (`Fresh`, `Joined`): the state where two have joined is one the server comes to, with an id of each
user's own, and to start there keeps the three small. `Role` says who sends what. Two users tell a user's own
session from another's; two passwords a right one from a wrong one, and they are only needed where passcodes
are looked at. One channel suffices because no code relates two of them; the second channel is `Junk`. Of
subscription ids there is one in the serial runs and two in `server_tpc`, where a user who has one joins with
another and so invalidates an iterator. A connection id is used once, and a run ends when they are used up.
The frames are representatives: every command complete, a wrong passcode, one with a line that raises and
leaves its headers behind, and, in `server_tpc`, a SUBSCRIBE without its destination, which goes on to its
body. The theorems hold for all frames. In the reactor two frames are two broadcasts to both handlers, so that
two pool threads send to the queue the selector thread is writing, or two frames in one buffer; one client
goes so that the other's messages meet a closed channel. Three tasks per actor put one in a thread's hand, one
in `pending` and one behind it. In `blocking` the array starts with one byte, so that a frame of three makes
it grow twice, and the frame after it finds a used array; two other threads let a third send come between the
write and the flush of one and the write of the other. In `summaries` three reports let one be taken in
before, one during and one after a command, on the same key or on keys before and behind it; the kinds of
report are each way to have or lack a statistic, a name a colon cuts, and descriptions of one, two and three
lines, since the last lines of a frame are found from its end. For the client three commands let the answer of
the first move the numbers on between the two readings of them for the second, and leave a third to meet what
that left behind; two games tell an entry of one from an entry of the other. Two events are the least of which
one can be refused and another left unread; two answers or MESSAGEs unread (`MaxUnread`, a bound on what
others send) let a MESSAGE come before and behind the client's own answer. The numbers stay within `Ids`,
which is shown, not assumed.

`OnlyCompleteFramesSubscribe` is checked of the thread-per-client server. It does not hold in the
reactor, where the headers of a frame that ended in an exception satisfy the checks of the next one;
the hazard at `StompMessagingProtocolImpl.java:40` is about this.

`CHECK_DEADLOCK FALSE` is set where the system may really stop: all connections closed, or all tasks
run. In the reactor frames are still processed on a closed connection, and `server_serial` checks for
deadlock.

*Fairness* is assumed of threads that the machine runs and that wait for nobody. In `StompServer` a worker
goes on with the frame it has (`WF(~Writing(c) /\ Worker(c))`) and a thread that has left its loop closes its
socket (`WF(Close)`). Nothing is assumed of the acceptor or of the clients, and a client that does not read is
one: in the thread-per-client server each answer and each MESSAGE is a blocking write to a socket, without a
timeout (`BlockingConnectionHandler.java:56-57`), so that a subscriber who stops reading holds the sender's
thread for ever. A worker about to write (`Writing`) is therefore not assumed to go on. `EveryFrameEnds` says
that this is the only way a frame never ends; `ErrorEndsConnection` and `LogoutEnds` are about workers that
have done their writing. In `BlockingHandler` the handler's thread takes the bytes that have arrived, and
neither `process` nor a send is assumed to return; `SentIsDecoded` is about a handler that is again and again
done with `process`. In `ActorPool` a pool thread with something to do does it. In `Reactor` the selector
thread and the pool threads go on, whose sends are entries in a queue (`WF(Selector)`, `WF(Worker)`), and the
clients read what is written to them: a socket is writable again in the end. `EveryMessageWritten` makes three
exceptions: the channel is closed; the selector thread is dead (`violation_selector`); it spins in
`continueWrite` after a write that failed (`Spinning`), which the code allows and nothing in the repository
denies. In `StompClient` both threads go on, the keyboard thread with a command that was typed, and the server
takes the frames of this client or fails (`WF(Serve)`); this is an assumption about the server, which the
other clients can break as said above. The user need not type, and others need not send. `ShutsDown` excepts a
socket thread that never saw a connection: it spins for ever (`UserTask.cpp:18`).

*Mutants.* The operators marked `Mutant:` in the modules are those definitions with a bug in them;
`PROJECT.json` says which property each of them breaks. They are used in no run.

## Theorems

All are proved for every value of the constants that meets the named assumptions (`Null` is no user,
password, connection, channel or frame; `Junk` is no channel; the frames are frames; `None` is no task, number,
game, entry or summary; `Self` is not among `Others`; arrays and frames have a byte at least; a report is a
report). TLC evaluates these assumptions in the runs.

The server:

- `TypeCorrect` (`StompServerProofs`): the type invariant, inductive as it stands; its last two parts,
  a worker in the middle of a frame has one, are what the steps of `process` need.
- `CompleteFramesSubscribe` (`StompServerProofs`), for the thread-per-client server with any
  interleaving. The code goes on with the body of a SUBSCRIBE after it answered with an ERROR; the
  invariant says why this does no harm: the header map is empty between frames, a frame is either
  complete or the connection has lost its user, and no other thread can log this connection in.
- `EveryFrameAnswered` (`StompServerProofs`), for the same server. An answer is only sent to a connection whose
  handler is still there, and another call may have removed it. The invariant (`AnswerOf`) says that a
  connection without a handler has been told to stop, that the frame it has in hand had its answer before, and that
  `disconnect` runs only behind an answer.
- `SerialOneSession`, `SerialSubscriptions`, `SerialPassword` (`StompSerialProofs`), when `Parallel` is
  FALSE. The invariant says that at most one worker is in the middle of a frame, and for each place in
  `process` what has been checked on the way: at `logging` the user has no session and the passcode
  was right, and so on. Without it the step `Logging` could break each of the three.
- `SerialRefinement` (`StompSerialProofs`): under the same assumption every step of the server is a step
  of `Membership` or changes nothing it knows of. `Accounts` are the passwords, sessions are
  `userToConnection`, memberships the values of the subscription map.
- `CompletedReachesAll`, `GivenUpByChange` (`StompBroadcastProofs`), in both modes and with any interleaving.
  `OwedIsAhead`: who is owed the MESSAGE has it, or is the one it is being sent to, or is still ahead of the
  iterator over the users, or is the one looked at, with the subscription in question still ahead of the second
  iterator. `AheadIsLoggedIn`: whom a valid iterator over the users has ahead of it are users with a session, so that
  the connection it then looks up is there and `send` does not raise.

The pool and the reactor:

- `PoolTypeCorrect`, `PoolMutualExclusion` (`ActorPoolProofs`): each actor has at most one token, a
  task in the executor's queue or in a thread's hand, and has it only while it is in `playingNow`.
- `PoolRefinement` (`ActorPoolProofs`): the pool implements `ActorQueues`. An actor's abstract queue is its task
  in the executor's queue, if it has one, followed by `pending`; that there is at most one, and none while one
  runs, is the invariant of the first two theorems.
- `ReactorTypeCorrect`, `ReactorInOrder`, `ReactorNoLostWakeup` (`ReactorProofs`): the order of the queues
  is inductive with the types. The wake-up needs two more facts. `Awake`: once the tasks have been run,
  a queued task comes with a wake-up. `Accepted`: nothing is queued for, and nothing read from, a
  connection before its accept, which sets the interest set anew.

A handler of the thread-per-client server:

- `BlockingTypeCorrect`, `BlockingFramesWhole` (`BlockingHandlerProofs`). Three parts: `Writer`, what the client
  has written; `Wire`, the bytes under way are the next ones of the frames, in order; `Reader`, the first
  `len` bytes of the array are the beginning of the frame in hand. The last needs an array only as
  large as `len`, which is why the doubling is enough at every size.
- `BlockingAtMostOnce`, by `OnePlace`: a frame is in one place at most, in one stream or in the socket, and in
  neither before it is written. `BlockingAloneArrives`, by `AloneStream`: while a thread is alone in `send`, the
  field holds its stream, so that it flushes what it wrote to. Both for any number of threads.

The client:

- `ClientTypeCorrect`, `ClientReceiptsAsked` (`StompClientProofs`). `UnderWay` says that every frame under
  way that asks for a RECEIPT, and every RECEIPT, carries a number that is entered in `receipts`, and what
  the keyboard thread has composed is entered before it is sent; entries are only added. `Paid` counts: the
  answers counted, the frames and answers under way that a command pays for (not the SENDs of a report, nor the
  MESSAGEs), and the one in hand are no more than the commands typed. Without it nothing bounds `receiptId`.
- `ClientNoReceiptFails` (`StompClientProofs`): an exit from a game never joined enters a subscription of
  none, under the current number, which an exit or a join that was composed earlier may have as well.
  `Numbered` says that numbers are entered up to the current one only, and the current one with what it is
  about. `NoneFails` says why no RECEIPT comes for such an entry: none is under way, and either the
  server is closed, or the exit it refuses is in front of every frame with that number, or is about to be sent,
  or can no longer be (`Blocked`).
- `ClientKnowsGames`, `PatientSurvives` (`StompClientProofs`), for a user who waits for each answer. One command
  at a time is composed, under way, answered or being counted (`Alone`); the frames of a report are many, and end in
  no answer or in an ERROR, and the MESSAGEs of others come in between. `Patient` says, for each stage a
  command can be at, how the client's numbers and maps and the server's subscriptions differ at that stage
  (`Stages`): a join the server has made and the client has not yet heard of, a number counted and the other not. At
  rest they agree, but for the exits asked for, and the next numbers are free (`GamesAreSubs`, `Level`). `Closing`
  says of a connection the server has closed that the client has, or has still to read, the answer it ends on, and
  that only frames of a report are left unread.
- `TypeCorrect`, `SummariesAreRight`, `SingleLinesAreSafe`, `FilesAreUpToDate`
  (`SummariesProofs`), for every set of reports and any number of them. The first half of the module is about
  frames: which statistics a report has shifts every line behind it, and the lemmas up to `HeadOfMessage`
  say that the lines `clientResult` cuts out, by number and by marker, are the ones `processToServerEvent` put
  in (of a description with several lines, those of team b are followed by one that is no statistic's, or more).
  `ToldMore` and `EventsTellMore` say what one more report does to a summary. The invariant then counts for each
  part how many of the reports are in it (`Upto`): the part before the socket thread's place has the report in hand,
  the one behind it does not, and each tells what the reports up to there say (`SummariesTell`). For the file,
  `CopyTells` says the same of each member the keyboard thread has copied so far, between the command and now, in
  the order the members are copied.

Only model-checked: the runs TLC refutes (`OneSessionPerUser` is a theorem when frames come one at a time, and
`violation_double_login` shows that it is false otherwise), and all liveness (`EveryFrameEnds`,
`ErrorEndsConnection`, `LogoutEnds`, `EveryTaskRuns`, `EveryMessageWritten`, `SentIsDecoded`, `ShutsDown`), which the
prover does not do. Every other property of the passing runs is a theorem.

## What is not modelled

- The pool of buffers of the reactor, and frames cut by the end of a buffer there: the decoder is the one
  `BlockingHandler` models, but not together with tasks that an exception ends in the middle of a buffer. The
  run `reactor` has no room for it: its two frames already make half a million states.
- The client's reading of a frame from its socket is one step of `StompClient`: it is the loop of the
  decoder without an array.
- Several clients and the server with all its threads, over channels of frames. Each is modelled with what the
  other does to it; `StompClient` has the server as one connection meets it, its commands one step each.
- The parsing of arguments and of host and port; the text of what is printed.
- The sample programs (`echo`, `newsfeed`, `rci`, the Java demo client).
- `json.hpp`, a vendored library: it is 24640 of the repository's 26064 lines of implementation, so that
  what is modelled, most of the rest, is a small share of all lines.

What is left of the plan: the composition of client and server, for a client that has its logout's RECEIPT and
logs in again.

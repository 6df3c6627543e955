-------------------------- MODULE BlockingHandler --------------------------
(* One connection of the thread-per-client server, byte by byte: the client *)
(* writes frames into its socket, the handler's thread puts them together   *)
(* and has them processed; answers and broadcasts are sent by whichever     *)
(* thread has one, through a stream that each send replaces.                *)
EXTENDS Naturals, Sequences, Functions

CONSTANTS
  Others,     \* the threads of other connections that send to this one
  Self,       \* the thread of this connection
  Capacity,   \* the size the decoder's array starts with
  Lengths,    \* how long the client's frames may be
  MaxWork     \* how many bytes the client sends and frames it is sent (a bound)

ASSUME ThreadsAssumption == Self \notin Others
ASSUME CapacityAssumption == Capacity \in Nat \ {0}
ASSUME LengthsAssumption == Lengths \subseteq Nat \ {0}
ASSUME WorkAssumption == MaxWork \in Nat

Threads == Others \cup {Self}

(* A byte is what it is a part of: the number of a frame and a place in it. *)
(* The byte at place 0 is the delimiter, which no frame has in it; Zero is  *)
(* what Java puts into a new array.                                         *)
Bytes == Nat \X Nat
Zero == <<0, 0>>
IsNul(b) == b[2] = 0

(* A frame to the client: the k-th that thread t sends.                     *)
SendIds == Threads \X (0 .. MaxWork)

VARIABLES
  (* the client *)
  lens,     \* the lengths of the frames it has begun to send
  at,       \* how many bytes of the last one it has written
  cpc,      \* "idle", "frame", "nul", "gone"
  wire,     \* the bytes under way to the server
  (* LineMessageEncoderDecoder *)
  bytes,
  len,
  (* BlockingConnectionHandler *)
  hpc,              \* "read", "process", "closed"
  shouldTerminate,  \* of the protocol object
  decoded,          \* the frames handed to process
  out,              \* the current stream, named for the send that made it
  (* send, on each thread's stack *)
  pc,       \* "idle", "pick", "write", "pickFlush", "flush"
  sends,    \* how many sends it has begun
  stream,   \* the stream it has read from the field out
  (* the streams and the socket *)
  buffer,   \* what was written to a stream and not flushed
  toClient, \* the frames written to the socket
  (* history *)
  met,      \* the sends during which another thread was sending
  failed    \* the sends that ended in an IOException

client == <<lens, at, cpc>>
decoder == <<bytes, len>>
handler == <<hpc, shouldTerminate, decoded>>
senders == <<out, pc, sends, stream, buffer, toClient, met, failed>>
vars == <<client, wire, decoder, handler, senders>>

Init ==
  /\ lens = <<>> /\ at = 0 /\ cpc = "idle"
  /\ wire = <<>>
  /\ bytes = [i \in 1 .. Capacity |-> Zero] /\ len = 0
  /\ hpc = "read" /\ shouldTerminate = FALSE /\ decoded = <<>>
  /\ out = <<Self, 0>>
  /\ pc = [t \in Threads |-> "idle"]
  /\ sends = [t \in Threads |-> 0]
  /\ stream = [t \in Threads |-> <<Self, 0>>]
  /\ buffer = [s \in SendIds |-> <<>>]
  /\ toClient = <<>>
  /\ met = {} /\ failed = {}

(* What has been sent so far, in both directions.                           *)
Work == FoldFunction(+, 0, lens) + FoldFunction(+, 0, sends)

-----------------------------------------------------------------------------
(* The client: sendFrameAscii, a frame and then its delimiter.              *)

NewFrame(n) ==
  /\ cpc = "idle"
  /\ Work + n <= MaxWork
  /\ lens' = Append(lens, n)
  /\ at' = 0
  /\ cpc' = "frame"
  /\ UNCHANGED <<wire, decoder, handler, senders>>

(* write_some takes one byte at least; what it takes at once is as many     *)
(* steps here, and looks the same to the other end.                         *)
WriteSome ==
  /\ cpc = "frame"
  /\ wire' = Append(wire, <<Len(lens), at + 1>>)
  /\ at' = at + 1
  /\ cpc' = IF at + 1 = lens[Len(lens)] THEN "nul" ELSE "frame"
  /\ UNCHANGED <<lens, decoder, handler, senders>>

WriteNul ==
  /\ cpc = "nul"
  /\ wire' = Append(wire, <<Len(lens), 0>>)
  /\ cpc' = "idle"
  /\ UNCHANGED <<lens, at, decoder, handler, senders>>

(* The client ends, or its connection does: of what is under way any first  *)
(* part still arrives.                                                      *)
Gone ==
  /\ cpc # "gone"
  /\ cpc' = "gone"
  /\ \E k \in 0 .. Len(wire) : wire' = SubSeq(wire, 1, k)
  /\ UNCHANGED <<lens, at, decoder, handler, senders>>

-----------------------------------------------------------------------------
(* The handler's thread: run.                                               *)

(* The loop's condition fails.  Its other flag, connected, is never         *)
(* cleared: nobody calls close().                                           *)
LoopEnds ==
  /\ hpc = "read"
  /\ shouldTerminate
  /\ hpc' = "closed"
  /\ UNCHANGED <<client, wire, decoder, shouldTerminate, decoded, senders>>

(* read() is -1, or raises.                                                 *)
ReadEnds ==
  /\ hpc = "read"
  /\ cpc = "gone" /\ wire = <<>>
  /\ hpc' = "closed"
  /\ UNCHANGED <<client, wire, decoder, shouldTerminate, decoded, senders>>

Take ==
  /\ hpc = "read"
  /\ ~shouldTerminate
  /\ wire # <<>>
  /\ wire' = Tail(wire)
  /\ UNCHANGED <<client, shouldTerminate, senders>>

(* Mutant: the array is as full as it can be only one byte later.           *)
PushLate ==
  /\ Take
  /\ ~IsNul(Head(wire))
  /\ LET grown == IF len > Len(bytes) THEN bytes \o [i \in 1 .. len |-> Zero] ELSE bytes
     IN bytes' = [grown EXCEPT ![len + 1] = Head(wire)]
  /\ len' = len + 1
  /\ UNCHANGED <<hpc, decoded>>

(* decodeNextByte and pushByte: a full array is first copied into one of    *)
(* twice the size.                                                          *)
Push ==
  /\ Take
  /\ ~IsNul(Head(wire))
  /\ LET grown == IF len >= Len(bytes) THEN bytes \o [i \in 1 .. len |-> Zero] ELSE bytes
     IN bytes' = [grown EXCEPT ![len + 1] = Head(wire)]
  /\ len' = len + 1
  /\ UNCHANGED <<hpc, decoded>>

(* Mutant: the delimiter ends the reading, not the frame.                   *)
PopForgets ==
  /\ Take
  /\ IsNul(Head(wire))
  /\ len' = 0
  /\ UNCHANGED <<bytes, hpc, decoded>>

(* Mutant: the next frame is put behind this one.                           *)
PopKeeps ==
  /\ Take
  /\ IsNul(Head(wire))
  /\ decoded' = Append(decoded, SubSeq(bytes, 1, len))
  /\ len' = len
  /\ hpc' = "process"
  /\ UNCHANGED bytes

(* decodeNextByte and popString: the frame is what was pushed since the     *)
(* last one, and what stays in the array counts no more.                    *)
Pop ==
  /\ Take
  /\ IsNul(Head(wire))
  /\ decoded' = Append(decoded, SubSeq(bytes, 1, len))
  /\ len' = 0
  /\ hpc' = "process"
  /\ UNCHANGED bytes

(* process returns, having set shouldTerminate or not.                      *)
Processed ==
  /\ hpc = "process"
  /\ pc[Self] = "idle"
  /\ hpc' = "read"
  /\ \/ shouldTerminate' = TRUE
     \/ UNCHANGED shouldTerminate
  /\ UNCHANGED <<client, wire, decoder, decoded, senders>>

(* It raises: the thread ends, and closes the socket as it does.            *)
Raise ==
  /\ hpc = "process"
  /\ pc[Self] = "idle"
  /\ hpc' = "closed"
  /\ UNCHANGED <<client, wire, decoder, shouldTerminate, decoded, senders>>

-----------------------------------------------------------------------------
(* send, by the handler's own thread or by another.                         *)

Frame(t) == <<t, sends[t]>>
Sending == {t \in Threads : pc[t] # "idle"}

(* The handler's own thread sends while it processes; another one sends to  *)
(* a connection whose user has logged in on it.                             *)
MaySend(t) == IF t = Self THEN hpc = "process" ELSE decoded # <<>>

(* A new stream is made and becomes the stream of the handler, whatever is  *)
(* still in the old one.  A closed socket has none to give.                 *)
NewStream(t) ==
  /\ pc[t] = "idle"
  /\ MaySend(t)
  /\ Work < MaxWork /\ sends[t] < MaxWork
  /\ sends' = [sends EXCEPT ![t] = @ + 1]
  /\ LET f == <<t, sends[t] + 1>>
     IN \/ /\ hpc # "closed"
           /\ out' = f
           /\ pc' = [pc EXCEPT ![t] = "pick"]
           /\ met' = IF Sending = {} THEN met
                     ELSE met \cup {f} \cup {Frame(u) : u \in Sending}
           /\ UNCHANGED failed
        \/ /\ hpc = "closed"
           /\ failed' = failed \cup {f}
           /\ UNCHANGED <<out, pc, met>>
  /\ UNCHANGED <<client, wire, decoder, handler, stream, buffer, toClient>>

(* The field is read again.  It is not volatile: a thread may go on with    *)
(* the value it has just written.                                           *)
Pick(t) ==
  /\ pc[t] = "pick"
  /\ \E s \in {out, Frame(t)} : stream' = [stream EXCEPT ![t] = s]
  /\ pc' = [pc EXCEPT ![t] = "write"]
  /\ UNCHANGED <<client, wire, decoder, handler, out, sends, buffer, toClient, met, failed>>

Return(t) ==
  /\ pc' = [pc EXCEPT ![t] = "idle"]
  /\ stream' = [stream EXCEPT ![t] = <<Self, 0>>]

(* Mutant: what is written is not flushed.                                  *)
WriteOnly(t) ==
  /\ pc[t] = "write"
  /\ buffer' = [buffer EXCEPT ![stream[t]] = Append(@, Frame(t))]
  /\ Return(t)
  /\ UNCHANGED <<client, wire, decoder, handler, out, sends, toClient, met, failed>>

Write(t) ==
  /\ pc[t] = "write"
  /\ buffer' = [buffer EXCEPT ![stream[t]] = Append(@, Frame(t))]
  /\ pc' = [pc EXCEPT ![t] = "pickFlush"]
  /\ UNCHANGED <<client, wire, decoder, handler, out, sends, stream, toClient, met, failed>>

(* And once more: what is flushed need not be what was written to.          *)
PickFlush(t) ==
  /\ pc[t] = "pickFlush"
  /\ stream' = [stream EXCEPT ![t] = out]
  /\ pc' = [pc EXCEPT ![t] = "flush"]
  /\ UNCHANGED <<client, wire, decoder, handler, out, sends, buffer, toClient, met, failed>>

(* Mutant: the stream is not emptied by a flush.                            *)
FlushTwice(t) ==
  /\ pc[t] = "flush"
  /\ hpc # "closed"
  /\ toClient' = toClient \o buffer[stream[t]]
  /\ buffer' = buffer
  /\ Return(t)
  /\ UNCHANGED <<client, wire, decoder, handler, out, sends, met, failed>>

(* The socket takes all that is in the stream, which is locked meanwhile.   *)
Flush(t) ==
  /\ pc[t] = "flush"
  /\ hpc # "closed"
  /\ toClient' = toClient \o buffer[stream[t]]
  /\ buffer' = [buffer EXCEPT ![stream[t]] = <<>>]
  /\ Return(t)
  /\ UNCHANGED <<client, wire, decoder, handler, out, sends, met, failed>>

(* The socket is closed, or the client has gone; an empty stream flushes    *)
(* all the same.                                                            *)
FlushFails(t) ==
  /\ pc[t] = "flush"
  /\ hpc = "closed" \/ cpc = "gone"
  /\ Return(t)
  /\ failed' = IF buffer[stream[t]] = <<>> THEN failed ELSE failed \cup {Frame(t)}
  /\ UNCHANGED <<client, wire, decoder, handler, out, sends, buffer, toClient, met>>

-----------------------------------------------------------------------------
Client ==
  \/ \E n \in Lengths : NewFrame(n)
  \/ WriteSome
  \/ WriteNul
  \/ Gone

Handler == LoopEnds \/ ReadEnds \/ Push \/ Pop \/ Processed \/ Raise

Send(t) == NewStream(t) \/ Pick(t) \/ Write(t) \/ PickFlush(t) \/ Flush(t) \/ FlushFails(t)

Next == Client \/ Handler \/ \E t \in Threads : Send(t)

Spec == Init /\ [][Next]_vars

(* The handler's thread takes what has arrived when it reads.  Its sends    *)
(* are writes to the socket, which have no timeout and wait for a client    *)
(* that does not read: that process() ever returns is not assumed.          *)
FairSpec == Spec /\ WF_vars(LoopEnds \/ ReadEnds \/ Push \/ Pop)
-----------------------------------------------------------------------------
Sent == Threads \X (1 .. MaxWork)

ClientType ==
  /\ lens \in Seq(Lengths)
  /\ at \in Nat
  /\ cpc \in {"idle", "frame", "nul", "gone"}
  /\ wire \in Seq(Bytes)

DecoderType ==
  /\ bytes \in Seq(Bytes) /\ Len(bytes) >= Capacity
  /\ len \in 0 .. Len(bytes)

HandlerType ==
  /\ hpc \in {"read", "process", "closed"}
  /\ shouldTerminate \in BOOLEAN
  /\ decoded \in Seq(Seq(Bytes))

SenderType ==
  /\ out \in SendIds
  /\ pc \in [Threads -> {"idle", "pick", "write", "pickFlush", "flush"}]
  /\ sends \in [Threads -> 0 .. MaxWork]
  /\ stream \in [Threads -> SendIds]
  /\ buffer \in [SendIds -> Seq(Sent)]
  /\ toClient \in Seq(Sent)
  /\ met \subseteq Sent /\ failed \subseteq Sent

(* Every variable has its type; the decoder never counts past its array.    *)
TypeOK == ClientType /\ DecoderType /\ HandlerType /\ SenderType

(* The frames handed to process are those the client sent, in order, each   *)
(* whole and alone: however the bytes were cut on the way, whatever an      *)
(* earlier frame left in the array, and however often it had to grow.       *)
FramesWhole ==
  /\ Len(decoded) <= Len(lens)
  /\ \A i \in 1 .. Len(decoded) : decoded[i] = [j \in 1 .. lens[i] |-> <<i, j>>]

(* No frame is written to the client twice, though two threads may flush    *)
(* one stream, and one flush may write another thread's frame.              *)
AtMostOnce ==
  \A i, j \in 1 .. Len(toClient) : toClient[i] = toClient[j] => i = j

(* A send that has returned.                                                *)
Returned(f) == f[2] < sends[f[1]] \/ (f[2] = sends[f[1]] /\ pc[f[1]] = "idle")

(* A frame is lost only if its send met another one, or failed: the answers *)
(* of a connection nobody sends to meanwhile arrive, the last one before    *)
(* the close included.  A send that met another may leave its frame in a    *)
(* stream nobody will flush.                                                *)
AloneArrives ==
  \A f \in Sent :
    Returned(f) /\ f \notin met \cup failed => \E i \in 1 .. Len(toClient) : toClient[i] = f

(* Unless process() of some frame never returns, every frame the client has *)
(* sent is handed to it in the end, or the connection is over: nothing is   *)
(* left in the decoder, however the bytes were cut on the way.              *)
SentIsDecoded ==
  []<>(hpc # "process") =>
    \A i \in 1 .. MaxWork :
      Len(lens) > i \/ (Len(lens) = i /\ cpc = "idle")
        ~> Len(decoded) >= i \/ hpc = "closed" \/ cpc = "gone"
=============================================================================

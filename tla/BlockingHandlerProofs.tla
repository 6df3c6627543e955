----------------------- MODULE BlockingHandlerProofs -----------------------
(* Theorems about BlockingHandler, for all lengths of frames, every         *)
(* capacity of the array, and any threads.                                  *)
EXTENDS BlockingHandler, TLAPS

(* The facts about sequences the proofs rest on.                            *)
LEMMA TailFacts ==
  ASSUME NEW S, NEW q \in Seq(S), q # <<>>
  PROVE  /\ Head(q) \in S /\ Head(q) = q[1]
         /\ Tail(q) \in Seq(S)
         /\ Len(q) \in Nat \ {0} /\ Len(Tail(q)) = Len(q) - 1
         /\ \A i \in 1 .. Len(q) - 1 : Tail(q)[i] = q[i + 1]
OBVIOUS

LEMMA AppendFacts ==
  ASSUME NEW S, NEW q \in Seq(S), NEW e \in S
  PROVE  /\ Append(q, e) \in Seq(S) /\ Append(q, e) # <<>>
         /\ Len(q) \in Nat /\ Len(Append(q, e)) = Len(q) + 1
         /\ \A i \in 1 .. Len(q) : Append(q, e)[i] = q[i]
         /\ Append(q, e)[Len(q) + 1] = e
OBVIOUS

LEMMA ConcatFacts ==
  ASSUME NEW S, NEW p \in Seq(S), NEW q \in Seq(S)
  PROVE  /\ p \o q \in Seq(S)
         /\ Len(p) \in Nat /\ Len(q) \in Nat /\ Len(p \o q) = Len(p) + Len(q)
         /\ \A i \in 1 .. Len(p) : (p \o q)[i] = p[i]
         /\ \A i \in 1 .. Len(q) : (p \o q)[Len(p) + i] = q[i]
         /\ \A i \in 1 .. Len(p \o q) : i > Len(p) => (p \o q)[i] = q[i - Len(p)]
OBVIOUS

LEMMA PrefixFacts ==
  ASSUME NEW S, NEW q \in Seq(S), NEW k \in 0 .. Len(q)
  PROVE  /\ SubSeq(q, 1, k) \in Seq(S) /\ Len(SubSeq(q, 1, k)) = k
         /\ \A i \in 1 .. k : SubSeq(q, 1, k)[i] = q[i]
OBVIOUS

LEMMA ByteFacts == Zero \in Bytes
BY DEF Zero, Bytes

(* The array after pushByte: it has room for the byte, and what was in it   *)
(* stays.                                                                   *)
Grown(q, n) == IF n >= Len(q) THEN q \o [i \in 1 .. n |-> Zero] ELSE q

Pushed(q, n, b) == [Grown(q, n) EXCEPT ![n + 1] = b]

LEMMA PushFacts ==
  ASSUME NEW q \in Seq(Bytes), NEW n \in 0 .. Len(q), Len(q) >= Capacity, NEW b \in Bytes
  PROVE  /\ Pushed(q, n, b) \in Seq(Bytes)
         /\ Len(Pushed(q, n, b)) >= Capacity
         /\ n + 1 \in 0 .. Len(Pushed(q, n, b))
         /\ \A i \in 1 .. n : Pushed(q, n, b)[i] = q[i]
         /\ Pushed(q, n, b)[n + 1] = b
<1> DEFINE g == Grown(q, n)
<1>1. [i \in 1 .. n |-> Zero] \in Seq(Bytes) /\ Len([i \in 1 .. n |-> Zero]) = n
  BY ByteFacts
<1>2. g \in Seq(Bytes) /\ Len(g) > n /\ Len(g) >= Capacity /\ \A i \in 1 .. n : g[i] = q[i]
  <2>1. CASE n >= Len(q)
    <3>1. n = Len(q) /\ n \in Nat \ {0} /\ g = q \o [i \in 1 .. n |-> Zero]
      BY <2>1, CapacityAssumption DEF Grown
    <3>2. QED
      BY <1>1, <3>1, ConcatFacts, CapacityAssumption
  <2>2. CASE ~ (n >= Len(q))
    BY <2>2 DEF Grown
  <2>3. QED
    BY <2>1, <2>2
<1>3. n \in Nat /\ n + 1 \in 1 .. Len(g) /\ DOMAIN g = 1 .. Len(g) /\ Len(g) \in Nat
  BY <1>2
<1> HIDE DEF g
<1> DEFINE h == [g EXCEPT ![n + 1] = b]
<1>4. h \in Seq(Bytes) /\ Len(h) = Len(g)
  BY <1>2, <1>3
<1>5. h[n + 1] = b
  BY <1>3
<1>6. ASSUME NEW i \in 1 .. n PROVE h[i] = q[i]
  <2>1. i \in DOMAIN g /\ i # n + 1
    BY <1>2, <1>3
  <2>2. QED
    BY <1>2, <2>1
<1> HIDE DEF h
<1>7. n + 1 \in 0 .. Len(h) /\ Len(h) >= Capacity
  BY <1>2, <1>3, <1>4
<1>8. QED
  BY <1>4, <1>5, <1>6, <1>7 DEF h, g, Pushed

-----------------------------------------------------------------------------
(* Types.  A thread in a send has begun one.                                *)

Begun == \A t \in Threads : pc[t] # "idle" => sends[t] >= 1
TInv == TypeOK /\ Begun

LEMMA InitTypes == Init => TInv
<1> SUFFICES ASSUME Init PROVE TInv
  OBVIOUS
<1> USE DEF Init
<1>1. ClientType
  BY DEF ClientType
<1>2. DecoderType
  <2>1. bytes \in Seq(Bytes) /\ Len(bytes) = Capacity
    BY ByteFacts, CapacityAssumption
  <2>2. QED
    BY <2>1, CapacityAssumption DEF DecoderType
<1>3. HandlerType
  <2>1. <<>> \in Seq(Seq(Bytes))
    OBVIOUS
  <2>2. QED
    BY <2>1 DEF HandlerType
<1>4. <<Self, 0>> \in SendIds
  BY WorkAssumption DEF SendIds, Threads
<1>5. SenderType
  BY <1>4, WorkAssumption DEF SenderType
<1>6. QED
  BY <1>1, <1>2, <1>3, <1>5 DEF TInv, TypeOK, Begun

LEMMA ClientTypes ==
  ASSUME TInv, Client
  PROVE  TInv'
<1> USE DEF TInv, TypeOK
<1>1. DecoderType' /\ HandlerType' /\ SenderType' /\ Begun'
  <2>1. UNCHANGED <<decoder, handler, senders>>
    BY DEF Client, NewFrame, WriteSome, WriteNul, Gone
  <2>2. QED
    BY <2>1 DEF decoder, handler, senders, DecoderType, HandlerType, SenderType, Begun
<1>2. ClientType'
  <2>1. ASSUME NEW n \in Lengths, NewFrame(n) PROVE ClientType'
    BY <2>1 DEF NewFrame, ClientType
  <2>2. CASE WriteSome
    <3>1. <<Len(lens), at + 1>> \in Bytes
      BY DEF ClientType, Bytes
    <3>2. QED
      BY <2>2, <3>1 DEF WriteSome, ClientType
  <2>3. CASE WriteNul
    <3>1. <<Len(lens), 0>> \in Bytes
      BY DEF ClientType, Bytes
    <3>2. QED
      BY <2>3, <3>1 DEF WriteNul, ClientType
  <2>4. CASE Gone
    BY <2>4, PrefixFacts DEF Gone, ClientType
  <2>5. QED
    BY <2>1, <2>2, <2>3, <2>4 DEF Client
<1>3. QED
  BY <1>1, <1>2

LEMMA HandlerTypes ==
  ASSUME TInv, Handler
  PROVE  TInv'
<1> USE DEF TInv, TypeOK
<1>1. SenderType' /\ Begun'
  <2>1. UNCHANGED senders
    BY DEF Handler, LoopEnds, ReadEnds, Push, Pop, Take, Processed, Raise
  <2>2. QED
    BY <2>1 DEF senders, SenderType, Begun
<1>2. CASE LoopEnds \/ ReadEnds \/ Processed \/ Raise
  BY <1>1, <1>2 DEF LoopEnds, ReadEnds, Processed, Raise, client, decoder, ClientType, DecoderType,
                    HandlerType
<1>3. ASSUME Take PROVE ClientType' /\ Head(wire) \in Bytes
  BY <1>3, TailFacts DEF Take, client, ClientType
<1>4. CASE Push
  <2>1. DecoderType'
    <3>1. Take /\ bytes' = Pushed(bytes, len, Head(wire)) /\ len' = len + 1
      BY <1>4 DEF Push, Pushed, Grown
    <3>2. QED
      BY <1>3, <3>1, PushFacts DEF DecoderType
  <2>2. HandlerType'
    BY <1>4 DEF Push, Take, HandlerType
  <2>3. QED
    BY <1>1, <1>3, <1>4, <2>1, <2>2 DEF Push
<1>5. CASE Pop
  <2>1. SubSeq(bytes, 1, len) \in Seq(Bytes)
    BY PrefixFacts DEF DecoderType
  <2>2. HandlerType'
    BY <1>5, <2>1 DEF Pop, Take, HandlerType
  <2>3. DecoderType'
    BY <1>5 DEF Pop, DecoderType
  <2>4. QED
    BY <1>1, <1>3, <1>5, <2>2, <2>3 DEF Pop
<1>6. QED
  BY <1>2, <1>4, <1>5 DEF Handler

LEMMA SendTypes ==
  ASSUME TInv, NEW t \in Threads, Send(t)
  PROVE  TInv'
<1> USE DEF TInv, TypeOK
<1>1. ClientType' /\ DecoderType' /\ HandlerType'
  <2>1. UNCHANGED <<client, wire, decoder, handler>>
    BY DEF Send, NewStream, Pick, Write, PickFlush, Flush, FlushFails
  <2>2. QED
    BY <2>1 DEF client, decoder, handler, ClientType, DecoderType, HandlerType
<1>2. /\ \A u \in Threads : pc[u] # "idle" => Frame(u) \in Sent
      /\ Sent \subseteq SendIds
      /\ <<Self, 0>> \in SendIds
  BY WorkAssumption DEF Frame, Sent, SendIds, SenderType, Begun, Threads
<1>3. CASE NewStream(t)
  <2>1. sends[t] + 1 \in 1 .. MaxWork /\ <<t, sends[t] + 1>> \in Sent
    BY <1>3, WorkAssumption DEF NewStream, SenderType, Sent
  <2>2. {Frame(u) : u \in Sending} \subseteq Sent
    BY <1>2 DEF Sending
  <2>3. sends' \in [Threads -> 0 .. MaxWork]
    BY <1>3, <2>1, WorkAssumption DEF NewStream, SenderType
  <2>4. Begun'
    BY <1>3, <2>1 DEF NewStream, SenderType, Begun
  <2>5. met' \subseteq Sent /\ failed' \subseteq Sent /\ out' \in SendIds
    BY <1>2, <1>3, <2>1, <2>2 DEF NewStream, SenderType
  <2>6. SenderType'
    BY <1>3, <2>3, <2>5 DEF NewStream, SenderType
  <2>7. QED
    BY <1>1, <2>4, <2>6
<1>4. CASE Pick(t) \/ PickFlush(t)
  <2>1. stream' \in [Threads -> SendIds]
    <3>1. Frame(t) \in SendIds /\ out \in SendIds
      BY <1>2, <1>4 DEF Pick, PickFlush, SenderType
    <3>2. PICK f \in SendIds : stream' = [stream EXCEPT ![t] = f]
      BY <1>4, <3>1 DEF Pick, PickFlush
    <3>3. QED
      BY <3>2 DEF SenderType
  <2>2. pc' \in [Threads -> {"idle", "pick", "write", "pickFlush", "flush"}]
    BY <1>4 DEF Pick, PickFlush, SenderType
  <2>3. SenderType'
    BY <1>4, <2>1, <2>2 DEF Pick, PickFlush, SenderType
  <2>4. Begun'
    BY <1>4 DEF Pick, PickFlush, SenderType, Begun
  <2>5. QED
    BY <1>1, <2>3, <2>4
<1>5. CASE Write(t)
  <2>1. Append(buffer[stream[t]], Frame(t)) \in Seq(Sent)
    BY <1>2, <1>5, AppendFacts DEF Write, SenderType
  <2>2. SenderType'
    BY <1>5, <2>1 DEF Write, SenderType
  <2>3. Begun'
    BY <1>5 DEF Write, SenderType, Begun
  <2>4. QED
    BY <1>1, <2>2, <2>3
<1>6. CASE Flush(t) \/ FlushFails(t)
  <2>1. toClient \o buffer[stream[t]] \in Seq(Sent)
    BY ConcatFacts DEF SenderType
  <2>2. pc' \in [Threads -> {"idle", "pick", "write", "pickFlush", "flush"}]
        /\ stream' \in [Threads -> SendIds]
    <3>1. PICK f \in SendIds : stream' = [stream EXCEPT ![t] = f]
      BY <1>2, <1>6 DEF Flush, FlushFails, Return
    <3>2. pc' = [pc EXCEPT ![t] = "idle"]
      BY <1>6 DEF Flush, FlushFails, Return
    <3>3. QED
      BY <3>1, <3>2 DEF SenderType
  <2>3. buffer' \in [SendIds -> Seq(Sent)] /\ toClient' \in Seq(Sent)
    <3>1. <<>> \in Seq(Sent)
      OBVIOUS
    <3>2. \/ UNCHANGED <<buffer, toClient>>
          \/ /\ buffer' = [buffer EXCEPT ![stream[t]] = <<>>]
             /\ toClient' = toClient \o buffer[stream[t]]
      BY <1>6 DEF Flush, FlushFails
    <3>3. toClient' \in Seq(Sent)
      BY <2>1, <3>2 DEF SenderType
    <3>4. ASSUME NEW e \in Seq(Sent), buffer' = [buffer EXCEPT ![stream[t]] = e]
          PROVE  buffer' \in [SendIds -> Seq(Sent)]
      BY <3>4 DEF SenderType
    <3>5. QED
      BY <3>1, <3>2, <3>3, <3>4 DEF SenderType
  <2>4. failed' \subseteq Sent
    BY <1>2, <1>6 DEF Flush, FlushFails, SenderType
  <2>5. SenderType'
    BY <1>6, <2>2, <2>3, <2>4 DEF Flush, FlushFails, SenderType
  <2>6. Begun'
    BY <1>6 DEF Flush, FlushFails, Return, SenderType, Begun
  <2>7. QED
    BY <1>1, <2>5, <2>6
<1>7. QED
  BY <1>3, <1>4, <1>5, <1>6 DEF Send

LEMMA NextTypes == TInv /\ [Next]_vars => TInv'
<1> SUFFICES ASSUME TInv, [Next]_vars PROVE TInv'
  OBVIOUS
<1>1. CASE UNCHANGED vars
  BY <1>1 DEF vars, client, decoder, handler, senders, TInv, TypeOK, ClientType, DecoderType,
              HandlerType, SenderType, Begun
<1>2. QED
  BY <1>1, ClientTypes, HandlerTypes, SendTypes DEF Next

LEMMA TypesHold == Spec => []TInv
<1>1. QED
  BY InitTypes, NextTypes, PTL DEF Spec

(* Every variable keeps its type, and the decoder never counts past the end *)
(* of its array (pushByte doubles it in time).                              *)
THEOREM BlockingTypeCorrect == Spec => []TypeOK
<1>1. TInv => TypeOK
  BY DEF TInv
<1>2. QED
  BY <1>1, TypesHold, PTL

-----------------------------------------------------------------------------
(* The bytes.  They follow one another: what the decoder has read last, the *)
(* bytes under way, and what the client wrote last are one piece of the     *)
(* sequence of all frames.                                                  *)

(* The byte after b; Zero stands before the first.                          *)
Successor(b) ==
  IF b[2] = 0 THEN <<b[1] + 1, 1>>
  ELSE IF b[2] = lens[b[1]] THEN <<b[1], 0>> ELSE <<b[1], b[2] + 1>>

Written(b) == b[1] \in 1 .. Len(lens) /\ b[2] <= lens[b[1]]

LastRead == IF len = 0 THEN <<Len(decoded), 0>> ELSE <<Len(decoded) + 1, len>>

BeforeOnWire(k) == IF k = 1 THEN LastRead ELSE wire[k - 1]

LastSent == IF wire = <<>> THEN LastRead ELSE wire[Len(wire)]

LastWritten ==
  IF cpc = "idle" THEN <<Len(lens), 0>>
  ELSE IF at = 0 THEN <<Len(lens) - 1, 0>> ELSE <<Len(lens), at>>

Reader ==
  /\ len > 0 => Len(decoded) < Len(lens) /\ len <= lens[Len(decoded) + 1]
  /\ \A j \in 1 .. len : bytes[j] = <<Len(decoded) + 1, j>>

Wire ==
  \A k \in 1 .. Len(wire) : Written(wire[k]) /\ wire[k] = Successor(BeforeOnWire(k))

Writer ==
  /\ cpc # "gone" => LastSent = LastWritten
  /\ cpc = "frame" => Len(lens) > 0 /\ at < lens[Len(lens)]
  /\ cpc = "nul" => Len(lens) > 0 /\ at = lens[Len(lens)]

BInv == TInv /\ Reader /\ Wire /\ Writer /\ FramesWhole

LEMMA LensFacts ==
  ASSUME TInv
  PROVE  /\ Len(lens) \in Nat /\ Len(wire) \in Nat /\ Len(decoded) \in Nat /\ len \in Nat
         /\ \A i \in 1 .. Len(lens) : lens[i] \in Nat \ {0}
         /\ \A k \in 1 .. Len(wire) : wire[k] \in Nat \X Nat
<1>1. \A i \in 1 .. Len(lens) : lens[i] \in Lengths
  BY DEF TInv, TypeOK, ClientType
<1>2. Len(lens) \in Nat /\ Len(wire) \in Nat
  BY DEF TInv, TypeOK, ClientType
<1>3. Len(decoded) \in Nat /\ len \in Nat
  BY DEF TInv, TypeOK, DecoderType, HandlerType
<1>4. \A k \in 1 .. Len(wire) : wire[k] \in Nat \X Nat
  <2>1. wire \in Seq(Nat \X Nat)
    BY DEF TInv, TypeOK, ClientType, Bytes
  <2>2. QED
    BY <2>1
<1>5. QED
  BY <1>1, <1>2, <1>3, <1>4, LengthsAssumption

LEMMA LastReadType ==
  ASSUME TInv
  PROVE  LastRead \in Nat \X Nat
BY LensFacts DEF LastRead

LEMMA InitBytes == Init => BInv
<1> SUFFICES ASSUME Init PROVE BInv
  OBVIOUS
<1>1. TInv
  BY InitTypes
<1>2. lens = <<>> /\ wire = <<>> /\ decoded = <<>> /\ len = 0 /\ cpc = "idle"
  BY DEF Init
<1>3. QED
  BY <1>1, <1>2 DEF BInv, Reader, Wire, Writer, FramesWhole, LastSent, LastRead, LastWritten

LEMMA NewFrameBytes ==
  ASSUME BInv, TInv', NEW n \in Lengths, NewFrame(n)
  PROVE  BInv'
<1> USE DEF BInv
<1>1. /\ Len(lens') = Len(lens) + 1
      /\ \A i \in 1 .. Len(lens) : lens'[i] = lens[i]
      /\ lens'[Len(lens) + 1] = n /\ n \in Nat \ {0}
  BY AppendFacts, LengthsAssumption DEF NewFrame, TInv, TypeOK, ClientType
<1>2. UNCHANGED <<wire, bytes, len, decoded>> /\ cpc = "idle" /\ cpc' = "frame" /\ at' = 0
  BY DEF NewFrame, decoder, handler
<1>3. Reader'
  BY <1>1, <1>2, LensFacts DEF Reader, FramesWhole
<1>4. FramesWhole'
  BY <1>1, <1>2, LensFacts DEF FramesWhole
<1>5. LastRead' = LastRead
  BY <1>2 DEF LastRead
<1>6. Wire'
  <2> SUFFICES ASSUME NEW k \in 1 .. Len(wire)
               PROVE  Written(wire[k])' /\ wire[k] = Successor(BeforeOnWire(k))'
    BY <1>2 DEF Wire
  <2> DEFINE b == BeforeOnWire(k)
  <2>1. b[2] = 0 \/ b[1] \in 1 .. Len(lens)
    BY LensFacts DEF BeforeOnWire, LastRead, Reader, Wire, Written
  <2>2. BeforeOnWire(k)' = b
    BY <1>2, <1>5 DEF BeforeOnWire
  <2>3. Successor(BeforeOnWire(k))' = Successor(b)
    BY <1>1, <2>1, <2>2 DEF Successor
  <2>4. Written(wire[k])'
    BY <1>1, <1>2, LensFacts DEF Wire, Written
  <2>5. QED
    BY <2>3, <2>4 DEF Wire
<1>7. Writer'
  BY <1>1, <1>2, <1>5, LensFacts DEF Writer, LastSent, LastWritten
<1>8. QED
  BY <1>3, <1>4, <1>6, <1>7

(* The client appends the byte after the last one.                          *)
LEMMA AppendBytes ==
  ASSUME BInv, TInv', NEW b \in Nat \X Nat, wire' = Append(wire, b),
         UNCHANGED <<lens, bytes, len, decoded>>,
         Written(b), b = Successor(LastSent), b = LastWritten',
         cpc' = "frame" => Len(lens) > 0 /\ at' < lens[Len(lens)],
         cpc' = "nul" => Len(lens) > 0 /\ at' = lens[Len(lens)]
  PROVE  BInv'
<1> USE DEF BInv
<1>1. /\ Len(wire') = Len(wire) + 1 /\ wire' # <<>> /\ Len(wire) \in Nat
      /\ \A k \in 1 .. Len(wire) : wire'[k] = wire[k]
      /\ wire'[Len(wire) + 1] = b
  <2>1. wire \in Seq(Nat \X Nat)
    BY DEF TInv, TypeOK, ClientType, Bytes
  <2>2. QED
    BY <2>1, AppendFacts
<1>2. Reader' /\ FramesWhole' /\ LastRead' = LastRead
  BY DEF Reader, FramesWhole, LastRead
<1>3. LastSent' = b
  BY <1>1 DEF LastSent
<1>4. Writer'
  BY <1>3 DEF Writer
<1>5. ASSUME NEW k \in 1 .. Len(wire')
      PROVE  Written(wire'[k]) /\ wire'[k] = Successor(BeforeOnWire(k)')
  <2>1. CASE k \in 1 .. Len(wire)
    <3>1. BeforeOnWire(k)' = BeforeOnWire(k)
      BY <1>1, <1>2, <2>1 DEF BeforeOnWire
    <3>2. QED
      BY <1>1, <2>1, <3>1 DEF Wire
  <2>2. CASE k = Len(wire) + 1
    <3>1. BeforeOnWire(k)' = LastSent
      BY <1>1, <1>2, <2>2, LensFacts DEF BeforeOnWire, LastSent, TInv, TypeOK, ClientType
    <3>2. QED
      BY <1>1, <2>2, <3>1
  <2>3. QED
    BY <1>1, <2>1, <2>2
<1>6. Wire'
  BY <1>5 DEF Wire, Written, Successor
<1>7. QED
  BY <1>2, <1>4, <1>6

LEMMA ClientBytes ==
  ASSUME BInv, TInv', Client
  PROVE  BInv'
<1> USE DEF BInv
<1>1. ASSUME NEW n \in Lengths, NewFrame(n) PROVE BInv'
  BY <1>1, NewFrameBytes
<1>2. CASE WriteSome
  <2> DEFINE b == <<Len(lens), at + 1>>
  <2>1. /\ at \in Nat /\ Len(lens) \in Nat \ {0} /\ at < lens[Len(lens)]
        /\ lens[Len(lens)] \in Nat /\ LastSent = LastWritten
    BY <1>2, LensFacts DEF WriteSome, Writer, TInv, TypeOK, ClientType
  <2>2. Written(b) /\ b \in Nat \X Nat
    BY <2>1 DEF Written
  <2>3. b = Successor(LastSent)
    BY <1>2, <2>1 DEF WriteSome, LastWritten, Successor
  <2>4. b = LastWritten'
    BY <1>2, <2>1 DEF WriteSome, LastWritten
  <2>5. wire' = Append(wire, b) /\ UNCHANGED <<lens, bytes, len, decoded>>
    BY <1>2 DEF WriteSome, decoder, handler
  <2>6. /\ cpc' = "frame" => Len(lens) > 0 /\ at' < lens[Len(lens)]
        /\ cpc' = "nul" => Len(lens) > 0 /\ at' = lens[Len(lens)]
    BY <1>2, <2>1 DEF WriteSome
  <2> HIDE DEF b
  <2>7. QED
    BY <2>2, <2>3, <2>4, <2>5, <2>6, AppendBytes
<1>3. CASE WriteNul
  <2> DEFINE b == <<Len(lens), 0>>
  <2>1. /\ at \in Nat /\ Len(lens) \in Nat \ {0} /\ at = lens[Len(lens)]
        /\ lens[Len(lens)] \in Nat \ {0} /\ LastSent = LastWritten
    BY <1>3, LensFacts DEF WriteNul, Writer, TInv, TypeOK, ClientType
  <2>2. Written(b) /\ b \in Nat \X Nat
    BY <2>1 DEF Written
  <2>3. b = Successor(LastSent)
    BY <1>3, <2>1 DEF WriteNul, LastWritten, Successor
  <2>4. b = LastWritten'
    BY <1>3, <2>1 DEF WriteNul, LastWritten
  <2>5. wire' = Append(wire, b) /\ UNCHANGED <<lens, bytes, len, decoded>> /\ cpc' = "idle"
    BY <1>3 DEF WriteNul, decoder, handler
  <2>6. QED
    BY <2>2, <2>3, <2>4, <2>5, AppendBytes
<1>4. CASE Gone
  <2>1. PICK n \in 0 .. Len(wire) : wire' = SubSeq(wire, 1, n)
    BY <1>4 DEF Gone
  <2>2. Len(wire') = n /\ \A k \in 1 .. n : wire'[k] = wire[k]
    BY <2>1, PrefixFacts DEF TInv, TypeOK, ClientType
  <2>3. UNCHANGED <<lens, bytes, len, decoded>> /\ cpc' = "gone"
    BY <1>4 DEF Gone, decoder, handler
  <2>4. Reader' /\ FramesWhole' /\ Writer' /\ LastRead' = LastRead
    BY <2>3 DEF Reader, FramesWhole, Writer, LastRead
  <2>5. ASSUME NEW k \in 1 .. n
        PROVE  Written(wire'[k]) /\ wire'[k] = Successor(BeforeOnWire(k)')
    <3>1. k \in 1 .. Len(wire) /\ (k # 1 => k - 1 \in 1 .. n)
      BY LensFacts
    <3>2. BeforeOnWire(k)' = BeforeOnWire(k)
      BY <2>2, <2>4, <3>1 DEF BeforeOnWire
    <3>3. QED
      BY <2>2, <3>1, <3>2 DEF Wire
  <2>6. Wire'
    BY <2>2, <2>3, <2>5 DEF Wire, Written, Successor
  <2>7. QED
    BY <2>4, <2>6
<1>5. QED
  BY <1>1, <1>2, <1>3, <1>4 DEF Client

(* The decoder takes the first byte: it is the byte it read last, now.      *)
LEMMA TakeBytes ==
  ASSUME BInv, wire # <<>>, wire' = Tail(wire), UNCHANGED <<lens, at, cpc>>,
         LastRead' = Head(wire)
  PROVE  Wire' /\ Writer'
<1> USE DEF BInv
<1>1. /\ Head(wire) = wire[1] /\ Len(wire) \in Nat \ {0} /\ Len(wire') = Len(wire) - 1
      /\ \A k \in 1 .. Len(wire) - 1 : wire'[k] = wire[k + 1]
  BY TailFacts DEF TInv, TypeOK, ClientType
<1>2. ASSUME NEW k \in 1 .. Len(wire')
      PROVE  Written(wire'[k]) /\ wire'[k] = Successor(BeforeOnWire(k)')
  <2>1. k + 1 \in 1 .. Len(wire) /\ k + 1 # 1 /\ wire'[k] = wire[k + 1]
        /\ (k # 1 => k - 1 \in 1 .. Len(wire) - 1)
    BY <1>1
  <2>2. BeforeOnWire(k)' = BeforeOnWire(k + 1)
    <3>1. CASE k = 1
      BY <1>1, <3>1 DEF BeforeOnWire
    <3>2. CASE k # 1
      <4>1. wire'[k - 1] = wire[(k - 1) + 1] /\ (k - 1) + 1 = k /\ (k + 1) - 1 = k
        BY <1>1, <2>1, <3>2
      <4>2. QED
        BY <2>1, <3>2, <4>1 DEF BeforeOnWire
    <3>3. QED
      BY <3>1, <3>2
  <2>3. QED
    BY <2>1, <2>2 DEF Wire
<1>3. Wire'
  BY <1>2 DEF Wire, Written, Successor
<1>4. LastSent' = LastSent
  <2>1. CASE Len(wire) = 1
    <3>1. wire' = <<>>
      BY <1>1, <2>1 DEF TInv, TypeOK, ClientType
    <3>2. QED
      BY <1>1, <2>1, <3>1 DEF LastSent
  <2>2. CASE Len(wire) # 1
    <3>1. wire' # <<>> /\ Len(wire') \in 1 .. Len(wire) - 1 /\ Len(wire') + 1 = Len(wire)
      BY <1>1, <2>2
    <3>2. wire'[Len(wire')] = wire[Len(wire)]
      BY <1>1, <3>1
    <3>3. QED
      BY <3>1, <3>2 DEF LastSent
  <2>3. QED
    BY <2>1, <2>2
<1>5. Writer'
  BY <1>4 DEF Writer, LastWritten
<1>6. QED
  BY <1>3, <1>5

LEMMA HandlerBytes ==
  ASSUME BInv, TInv', Handler
  PROVE  BInv'
<1> USE DEF BInv
<1>1. CASE LoopEnds \/ ReadEnds \/ Processed \/ Raise
  <2>1. UNCHANGED <<lens, at, cpc, wire, bytes, len, decoded>>
    BY <1>1 DEF LoopEnds, ReadEnds, Processed, Raise, client, decoder
  <2>2. QED
    BY <2>1 DEF Reader, Wire, Writer, FramesWhole, Written, Successor, BeforeOnWire, LastRead,
                LastSent, LastWritten
<1> DEFINE D == Len(decoded)
<1>2. ASSUME Take
      PROVE  /\ wire # <<>> /\ wire' = Tail(wire) /\ UNCHANGED <<lens, at, cpc>>
             /\ Head(wire) = Successor(LastRead) /\ Written(Head(wire))
             /\ Head(wire) \in Nat \X Nat
  <2>1. wire # <<>> /\ wire' = Tail(wire) /\ UNCHANGED <<lens, at, cpc>>
    BY <1>2 DEF Take, client
  <2>2. Head(wire) = wire[1] /\ 1 \in 1 .. Len(wire)
    BY <2>1, TailFacts DEF TInv, TypeOK, ClientType
  <2>3. QED
    BY <2>1, <2>2, LensFacts DEF Wire, BeforeOnWire
<1>3. CASE Push
  <2>1. Take /\ Head(wire)[2] # 0
    BY <1>3 DEF Push, IsNul
  <2>2. Head(wire) = <<D + 1, len + 1>>
    BY <1>2, <2>1, LensFacts DEF Successor, LastRead
  <2>3. len' = len + 1 /\ decoded' = decoded
    BY <1>3 DEF Push
  <2>4. LastRead' = Head(wire)
    BY <2>2, <2>3, LensFacts DEF LastRead
  <2>5. Wire' /\ Writer'
    BY <1>2, <2>1, <2>4, TakeBytes
  <2>6. bytes' = Pushed(bytes, len, Head(wire))
    BY <1>3 DEF Push, Pushed, Grown
  <2>7. (\A j \in 1 .. len : bytes'[j] = bytes[j]) /\ bytes'[len + 1] = Head(wire)
    <3>1. bytes \in Seq(Bytes) /\ len \in 0 .. Len(bytes) /\ Len(bytes) >= Capacity
          /\ Head(wire) \in Bytes
      BY <1>2, <2>1 DEF TInv, TypeOK, DecoderType, Bytes
    <3>2. QED
      BY <2>6, <3>1, PushFacts
  <2>8. Reader'
    <3>1. D < Len(lens) /\ len + 1 <= lens[D + 1]
      BY <1>2, <2>1, <2>2, LensFacts DEF Written
    <3>2. \A j \in 1 .. len + 1 : bytes'[j] = <<D + 1, j>>
      BY <2>2, <2>7, LensFacts DEF Reader
    <3>3. QED
      BY <1>2, <2>1, <2>3, <3>1, <3>2 DEF Reader
  <2>9. QED
    BY <1>2, <2>1, <2>3, <2>5, <2>8 DEF FramesWhole
<1>4. CASE Pop
  <2>1. Take /\ Head(wire)[2] = 0
    BY <1>4 DEF Pop, IsNul
  <2>2. len > 0 /\ D < Len(lens) /\ len = lens[D + 1] /\ Head(wire) = <<D + 1, 0>>
    <3>1. len # 0
      BY <1>2, <2>1, LensFacts DEF Successor, LastRead
    <3>2. LastRead = <<D + 1, len>> /\ len > 0
      BY <3>1, LensFacts DEF LastRead
    <3>3. len = lens[D + 1] /\ Head(wire) = <<D + 1, 0>>
      BY <1>2, <2>1, <3>2, LensFacts DEF Successor
    <3>4. QED
      BY <3>2, <3>3 DEF Reader
  <2>3. len' = 0 /\ decoded' = Append(decoded, SubSeq(bytes, 1, len))
    BY <1>4 DEF Pop
  <2>4. SubSeq(bytes, 1, len) \in Seq(Bytes) /\ Len(SubSeq(bytes, 1, len)) = len
        /\ \A j \in 1 .. len : SubSeq(bytes, 1, len)[j] = bytes[j]
    BY PrefixFacts DEF TInv, TypeOK, DecoderType
  <2>5. /\ Len(decoded') = D + 1 /\ D \in Nat
        /\ \A i \in 1 .. D : decoded'[i] = decoded[i]
        /\ decoded'[D + 1] = SubSeq(bytes, 1, len)
    BY <2>3, <2>4, AppendFacts DEF TInv, TypeOK, HandlerType
  <2>6. LastRead' = Head(wire)
    BY <2>2, <2>3, <2>5 DEF LastRead
  <2>7. Wire' /\ Writer'
    BY <1>2, <2>1, <2>6, TakeBytes
  <2>8. Reader'
    BY <2>3 DEF Reader
  <2>9. SubSeq(bytes, 1, len) = [j \in 1 .. lens[D + 1] |-> <<D + 1, j>>]
    <3>1. SubSeq(bytes, 1, len) = [j \in 1 .. len |-> SubSeq(bytes, 1, len)[j]]
      BY <2>4
    <3>2. \A j \in 1 .. len : SubSeq(bytes, 1, len)[j] = <<D + 1, j>>
      BY <2>4 DEF Reader
    <3>3. QED
      BY <2>2, <3>1, <3>2
  <2>10. FramesWhole'
    <3>1. lens' = lens /\ Len(lens) \in Nat
      BY <1>2, <2>1, LensFacts
    <3>2. ASSUME NEW i \in 1 .. D + 1
          PROVE  decoded'[i] = [j \in 1 .. lens[i] |-> <<i, j>>]
      <4>1. CASE i = D + 1
        BY <2>5, <2>9, <4>1
      <4>2. CASE i \in 1 .. D
        BY <2>5, <4>2 DEF FramesWhole
      <4>3. QED
        BY <2>5, <4>1, <4>2
    <3>3. QED
      BY <2>2, <2>5, <3>1, <3>2 DEF FramesWhole
  <2>11. QED
    BY <2>7, <2>8, <2>10
<1>5. QED
  BY <1>1, <1>3, <1>4 DEF Handler

LEMMA NextBytes == BInv /\ [Next]_vars => BInv'
<1> SUFFICES ASSUME BInv, [Next]_vars PROVE BInv'
  OBVIOUS
<1>1. TInv'
  BY NextTypes DEF BInv
<1>2. CASE UNCHANGED vars \/ \E t \in Threads : Send(t)
  <2>1. UNCHANGED <<lens, at, cpc, wire, bytes, len, decoded>>
    BY <1>2 DEF vars, client, decoder, handler, Send, NewStream, Pick, Write, PickFlush, Flush,
                FlushFails
  <2>2. QED
    BY <1>1, <2>1 DEF BInv, Reader, Wire, Writer, FramesWhole, Written, Successor, BeforeOnWire,
                      LastRead, LastSent, LastWritten
<1>3. QED
  BY <1>1, <1>2, ClientBytes, HandlerBytes DEF Next

(* The frames that are processed are the frames that were sent, each whole, *)
(* in order (decodeNextByte and sendFrameAscii), whatever their lengths and *)
(* the size of the array.                                                   *)
THEOREM BlockingFramesWhole == Spec => []FramesWhole
<1>1. BInv => FramesWhole
  BY DEF BInv
<1>2. QED
  BY <1>1, InitBytes, NextBytes, PTL DEF Spec

-----------------------------------------------------------------------------
(* The sends.  While a send is alone its stream is the stream of the        *)
(* handler, and its frame is in it once it is written.                      *)

In(f, q) == \E i \in 1 .. Len(q) : q[i] = f

Alone(t) == pc[t] # "idle" /\ Frame(t) \notin met

AloneStream ==
  \A t \in Threads : Alone(t) =>
    /\ Sending = {t}
    /\ out = Frame(t)
    /\ pc[t] \in {"write", "flush"} => stream[t] = Frame(t)
    /\ pc[t] \in {"pickFlush", "flush"} => In(Frame(t), buffer[Frame(t)])

AInv == TInv /\ AloneStream /\ AloneArrives

LEMMA InAppend ==
  ASSUME NEW S, NEW q \in Seq(S), NEW e \in S, NEW f
  PROVE  In(f, Append(q, e)) <=> In(f, q) \/ f = e
<1>1. Len(q) \in Nat /\ Len(Append(q, e)) = Len(q) + 1
  BY AppendFacts
<1>2. \A i \in 1 .. Len(q) : Append(q, e)[i] = q[i]
  BY AppendFacts
<1>3. Append(q, e)[Len(q) + 1] = e
  BY AppendFacts
<1>4. QED
  BY <1>1, <1>2, <1>3 DEF In

LEMMA InConcat ==
  ASSUME NEW S, NEW p \in Seq(S), NEW q \in Seq(S), NEW f
  PROVE  In(f, p \o q) <=> In(f, p) \/ In(f, q)
<1>1. Len(p) \in Nat /\ Len(q) \in Nat /\ Len(p \o q) = Len(p) + Len(q)
  BY ConcatFacts
<1>2. ASSUME In(f, p) PROVE In(f, p \o q)
  BY <1>1, <1>2, ConcatFacts DEF In
<1>3. ASSUME In(f, q) PROVE In(f, p \o q)
  <2>1. PICK i \in 1 .. Len(q) : q[i] = f
    BY <1>3 DEF In
  <2>2. Len(p) + i \in 1 .. Len(p \o q) /\ (p \o q)[Len(p) + i] = f
    BY <1>1, <2>1, ConcatFacts
  <2>3. QED
    BY <2>2 DEF In
<1>4. ASSUME In(f, p \o q) PROVE In(f, p) \/ In(f, q)
  <2>1. PICK i \in 1 .. Len(p \o q) : (p \o q)[i] = f
    BY <1>4 DEF In
  <2>2. CASE i \in 1 .. Len(p)
    BY <2>1, <2>2, ConcatFacts DEF In
  <2>3. CASE i > Len(p)
    <3>1. i - Len(p) \in 1 .. Len(q) /\ q[i - Len(p)] = f
      BY <1>1, <2>1, <2>3, ConcatFacts
    <3>2. QED
      BY <3>1 DEF In
  <2>4. QED
    BY <1>1, <2>2, <2>3
<1>5. QED
  BY <1>2, <1>3, <1>4

(* What the steps of another thread's send leave of one that is alone:      *)
(* nothing is there to be left.                                             *)
LEMMA AloneIsAlone ==
  ASSUME AInv, NEW t \in Threads, pc[t] # "idle", NEW u \in Threads, Alone(u)
  PROVE  u = t
BY DEF AInv, AloneStream, Sending

LEMMA InitAlone == Init => AInv
<1> SUFFICES ASSUME Init PROVE AInv
  OBVIOUS
<1>1. TInv
  BY InitTypes
<1>2. AloneStream
  BY DEF Init, AloneStream, Alone
<1>3. AloneArrives
  BY DEF Init, AloneArrives, Returned, Sent
<1>4. QED
  BY <1>1, <1>2, <1>3 DEF AInv

LEMMA NewStreamAlone ==
  ASSUME AInv, TInv', NEW t \in Threads, NewStream(t)
  PROVE  AInv'
<1> USE DEF AInv, TInv, TypeOK, SenderType
<1> DEFINE f == <<t, sends[t] + 1>>
<1>1. /\ pc[t] = "idle" /\ sends' = [sends EXCEPT ![t] = @ + 1]
      /\ UNCHANGED <<stream, buffer, toClient>> /\ met \subseteq met' /\ failed \subseteq failed'
  BY DEF NewStream
<1>2. \A u \in Threads \ {t} : sends'[u] = sends[u]
  BY <1>1
<1>3. sends'[t] = sends[t] + 1 /\ sends[t] \in Nat
  BY <1>1
<1>4. CASE /\ out' = f /\ pc' = [pc EXCEPT ![t] = "pick"] /\ UNCHANGED failed
           /\ met' = IF Sending = {} THEN met ELSE met \cup {f} \cup {Frame(u) : u \in Sending}
  <2>1. \A u \in Threads \ {t} : pc'[u] = pc[u] /\ Frame(u)' = Frame(u)
    BY <1>2, <1>4 DEF Frame
  <2>2. pc'[t] = "pick" /\ Frame(t)' = f
    BY <1>3, <1>4 DEF Frame
  <2>3. Sending' = Sending \cup {t}
    BY <2>1, <2>2 DEF Sending
  <2>4. AloneStream'
    <3>1. CASE Sending = {}
      <4>1. \A u \in Threads \ {t} : pc'[u] = "idle"
        BY <2>1, <3>1 DEF Sending
      <4>2. QED
        BY <1>4, <2>2, <2>3, <3>1, <4>1 DEF AloneStream, Alone
    <3>2. CASE Sending # {}
      <4>1. ASSUME NEW u \in Threads, pc'[u] # "idle" PROVE Frame(u)' \in met'
        <5>1. met' = met \cup {f} \cup {Frame(v) : v \in Sending}
          BY <1>4, <3>2
        <5>2. CASE u = t
          BY <2>2, <5>1, <5>2
        <5>3. CASE u # t
          <6>1. u \in Sending /\ Frame(u)' = Frame(u)
            BY <2>1, <4>1, <5>3 DEF Sending
          <6>2. Frame(u) \in {Frame(v) : v \in Sending}
            BY <6>1
          <6>3. QED
            BY <5>1, <6>1, <6>2
        <5>4. QED
          BY <5>2, <5>3
      <4>2. ASSUME NEW u \in Threads PROVE ~ Alone(u)'
        BY ONLY <4>1 DEF Alone
      <4>3. QED
        BY <4>2 DEF AloneStream
    <3>3. QED
      BY <3>1, <3>2
  <2>5. \A g \in Sent : Returned(g)' => Returned(g)
    BY <1>1, <1>2, <1>3, <2>1, <2>2 DEF Returned, Sent
  <2>6. AloneArrives'
    BY <1>1, <2>5 DEF AloneArrives
  <2>7. QED
    BY <2>4, <2>6
<1>5. CASE failed' = failed \cup {f} /\ UNCHANGED <<out, pc, met>>
  <2>1. \A u \in Threads : pc'[u] # "idle" => pc[u] # "idle" /\ u # t /\ Frame(u)' = Frame(u)
    BY <1>1, <1>2, <1>5 DEF Frame
  <2>2. Sending' = Sending
    BY <1>5 DEF Sending
  <2>3. AloneStream'
    BY <1>1, <1>5, <2>1, <2>2 DEF AloneStream, Alone
  <2>4. \A g \in Sent : Returned(g)' => Returned(g) \/ g = f
    <3> SUFFICES ASSUME NEW g \in Sent, Returned(g)' PROVE Returned(g) \/ g = f
      OBVIOUS
    <3>1. g[1] \in Threads /\ g[2] \in Nat /\ g = <<g[1], g[2]>>
      BY WorkAssumption DEF Sent
    <3>2. CASE g[1] # t
      BY <1>2, <1>5, <3>1, <3>2 DEF Returned
    <3>3. CASE g[1] = t
      BY <1>1, <1>3, <1>5, <3>1, <3>3 DEF Returned
    <3>4. QED
      BY <3>2, <3>3
  <2>5. AloneArrives'
    BY <1>1, <1>5, <2>4 DEF AloneArrives
  <2>6. QED
    BY <2>3, <2>5
<1>6. QED
  BY <1>4, <1>5 DEF NewStream

(* A send in its middle: it alone may be alone.                             *)
LEMMA MiddleAlone ==
  ASSUME AInv, TInv', NEW t \in Threads, Pick(t) \/ Write(t) \/ PickFlush(t)
  PROVE  AInv'
<1> USE DEF AInv, TInv, TypeOK, SenderType
<1>1. /\ pc[t] # "idle" /\ pc'[t] # "idle" /\ \A u \in Threads \ {t} : pc'[u] = pc[u]
      /\ UNCHANGED <<out, sends, toClient, met, failed>>
  BY DEF Pick, Write, PickFlush
<1>2. \A u \in Threads : Alone(u)' => u = t /\ Alone(t)
  BY <1>1, AloneIsAlone DEF Alone, Frame
<1>3. Sending' = Sending /\ Frame(t)' = Frame(t)
  BY <1>1 DEF Sending, Frame
<1>4. ASSUME Alone(t)
      PROVE  /\ pc'[t] \in {"write", "flush"} => stream'[t] = Frame(t)
             /\ pc'[t] \in {"pickFlush", "flush"} => In(Frame(t), buffer'[Frame(t)])
  <2>1. Sending = {t} /\ out = Frame(t) /\ Frame(t) \in SendIds
    BY <1>4 DEF AloneStream
  <2>2. CASE Pick(t)
    <3>1. stream' = [stream EXCEPT ![t] = Frame(t)] /\ pc' = [pc EXCEPT ![t] = "write"]
      BY <2>1, <2>2 DEF Pick
    <3>2. QED
      BY <3>1
  <2>3. CASE Write(t)
    <3>1. stream[t] = Frame(t) /\ pc' = [pc EXCEPT ![t] = "pickFlush"]
      BY <1>4, <2>3 DEF Write, AloneStream
    <3>2. buffer'[Frame(t)] = Append(buffer[Frame(t)], Frame(t))
      BY <2>1, <2>3, <3>1 DEF Write
    <3>3. Frame(t) \in Sent
      BY <1>1, WorkAssumption DEF Frame, Sent, Begun
    <3>4. In(Frame(t), buffer'[Frame(t)])
      BY <2>1, <3>2, <3>3, InAppend
    <3>5. QED
      BY <3>1, <3>4
  <2>4. CASE PickFlush(t)
    <3>1. /\ stream' = [stream EXCEPT ![t] = Frame(t)] /\ buffer' = buffer
          /\ In(Frame(t), buffer[Frame(t)])
      BY <1>4, <2>1, <2>4 DEF PickFlush, AloneStream
    <3>2. QED
      BY <3>1
  <2>5. QED
    BY <2>2, <2>3, <2>4
<1>5. AloneStream'
  <2> SUFFICES ASSUME NEW u \in Threads, Alone(u)'
               PROVE  /\ Sending' = {u} /\ out' = Frame(u)'
                      /\ pc'[u] \in {"write", "flush"} => stream'[u] = Frame(u)'
                      /\ pc'[u] \in {"pickFlush", "flush"} => In(Frame(u)', buffer'[Frame(u)'])
    BY DEF AloneStream, In
  <2>1. u = t /\ Alone(t)
    BY <1>2
  <2>2. QED
    BY <1>1, <1>3, <1>4, <2>1 DEF AloneStream
<1>6. AloneArrives'
  BY <1>1 DEF AloneArrives, Returned, Sent
<1>7. QED
  BY <1>5, <1>6

LEMMA FlushAlone ==
  ASSUME AInv, TInv', NEW t \in Threads, Flush(t) \/ FlushFails(t)
  PROVE  AInv'
<1> USE DEF AInv, TInv, TypeOK, SenderType
<1>1. /\ pc[t] = "flush" /\ pc'[t] = "idle" /\ \A u \in Threads \ {t} : pc'[u] = pc[u]
      /\ UNCHANGED <<sends, met>> /\ failed \subseteq failed'
  BY DEF Flush, FlushFails, Return
<1>2. AloneStream'
  <2>1. ASSUME NEW u \in Threads PROVE ~ Alone(u)'
    <3>1. CASE u = t
      BY <1>1, <3>1 DEF Alone
    <3>2. CASE u # t
      <4>1. Alone(u)' => Alone(u)
        BY <1>1, <3>2 DEF Alone, Frame
      <4>2. QED
        BY <1>1, <3>2, <4>1, AloneIsAlone
    <3>3. QED
      BY <3>1, <3>2
  <2>2. QED
    BY <2>1 DEF AloneStream
<1>3. buffer[stream[t]] \in Seq(Sent) /\ toClient \in Seq(Sent)
  OBVIOUS
<1>4. \A f \in Sent : In(f, toClient) => In(f, toClient')
  <2>1. CASE Flush(t)
    <3>1. toClient' = toClient \o buffer[stream[t]]
      BY <2>1 DEF Flush
    <3>2. QED
      BY <1>3, <3>1, InConcat
  <2>2. CASE FlushFails(t)
    BY <2>2 DEF FlushFails
  <2>3. QED
    BY <2>1, <2>2
<1>5. ASSUME Alone(t)
      PROVE  In(Frame(t), toClient') \/ Frame(t) \in failed'
  <2>1. In(Frame(t), buffer[stream[t]])
    BY <1>1, <1>5 DEF AloneStream
  <2>2. CASE Flush(t)
    BY <1>3, <2>1, <2>2, InConcat DEF Flush
  <2>3. CASE FlushFails(t)
    <3>1. buffer[stream[t]] # <<>>
      BY <2>1 DEF In
    <3>2. QED
      BY <2>3, <3>1 DEF FlushFails
  <2>4. QED
    BY <2>2, <2>3
<1>6. ASSUME NEW f \in Sent, Returned(f)', f \notin met \cup failed'
      PROVE  In(f, toClient')
  <2>1. f[1] \in Threads /\ f = <<f[1], f[2]>>
    BY DEF Sent
  <2>2. CASE Returned(f)
    <3>1. In(f, toClient)
      BY <1>1, <1>6, <2>2 DEF AloneArrives, In
    <3>2. QED
      BY <1>4, <3>1
  <2>3. CASE ~Returned(f)
    <3>1. f = Frame(t)
      BY <1>1, <1>6, <2>1, <2>3 DEF Returned, Frame
    <3>2. Alone(t)
      BY <1>1, <1>6, <3>1 DEF Alone
    <3>3. QED
      BY <1>5, <1>6, <3>1, <3>2
  <2>4. QED
    BY <2>2, <2>3
<1>7. AloneArrives'
  BY <1>1, <1>6 DEF AloneArrives, In
<1>8. QED
  BY <1>2, <1>7

LEMMA NextAlone == AInv /\ [Next]_vars => AInv'
<1> SUFFICES ASSUME AInv, [Next]_vars PROVE AInv'
  OBVIOUS
<1>1. TInv'
  BY NextTypes DEF AInv
<1>2. CASE UNCHANGED vars \/ Client \/ Handler
  <2>1. UNCHANGED senders
    BY <1>2 DEF vars, Client, NewFrame, WriteSome, WriteNul, Gone, Handler, LoopEnds, ReadEnds,
                Push, Pop, Take, Processed, Raise
  <2>2. QED
    BY <1>1, <2>1 DEF AInv, senders, AloneStream, Alone, AloneArrives, Returned, Frame, Sending, In
<1>3. QED
  BY <1>1, <1>2, NewStreamAlone, MiddleAlone, FlushAlone DEF Next, Send

(* A frame whose send met no other and did not fail is at the client when   *)
(* the send returns (send's three accesses to the stream), for any number   *)
(* of threads.                                                              *)
THEOREM BlockingAloneArrives == Spec => []AloneArrives
<1>1. AInv => AloneArrives
  BY DEF AInv
<1>2. QED
  BY <1>1, InitAlone, NextAlone, PTL DEF Spec

-----------------------------------------------------------------------------
(* A frame is in one place at most, and in none before it is written.       *)

Once(q) == \A i, j \in 1 .. Len(q) : q[i] = q[j] => i = j

Put(f) == f[2] < sends[f[1]] \/ (f[2] = sends[f[1]] /\ pc[f[1]] \notin {"pick", "write"})

OnePlace ==
  /\ Once(toClient)
  /\ \A s \in SendIds : Once(buffer[s])
  /\ \A f \in Sent :
       /\ In(f, toClient) => Put(f)
       /\ \A s \in SendIds : In(f, buffer[s]) =>
            /\ Put(f) /\ ~ In(f, toClient)
            /\ \A r \in SendIds : In(f, buffer[r]) => r = s

OInv == TInv /\ OnePlace

LEMMA OnceAppend ==
  ASSUME NEW S, NEW q \in Seq(S), NEW e \in S, Once(q), ~ In(e, q)
  PROVE  Once(Append(q, e))
<1>1. /\ Len(q) \in Nat /\ Len(Append(q, e)) = Len(q) + 1
      /\ \A i \in 1 .. Len(q) : Append(q, e)[i] = q[i]
      /\ Append(q, e)[Len(q) + 1] = e
  BY AppendFacts
<1>2. \A i \in 1 .. Len(q) : q[i] # e
  BY DEF In
<1>3. ASSUME NEW i \in 1 .. Len(q) + 1, NEW j \in 1 .. Len(q) + 1,
             Append(q, e)[i] = Append(q, e)[j]
      PROVE  i = j
  <2>1. CASE i \in 1 .. Len(q) /\ j \in 1 .. Len(q)
    BY <1>1, <1>3, <2>1 DEF Once
  <2>2. CASE i = Len(q) + 1 \/ j = Len(q) + 1
    BY <1>1, <1>2, <1>3, <2>2
  <2>3. QED
    BY <1>1, <2>1, <2>2
<1>4. QED
  BY <1>1, <1>3 DEF Once

LEMMA OnceConcat ==
  ASSUME NEW S, NEW p \in Seq(S), NEW q \in Seq(S), Once(p), Once(q),
         \A f \in S : ~ (In(f, p) /\ In(f, q))
  PROVE  Once(p \o q)
<1>1. /\ Len(p) \in Nat /\ Len(q) \in Nat /\ Len(p \o q) = Len(p) + Len(q)
      /\ \A i \in 1 .. Len(p) : (p \o q)[i] = p[i]
      /\ \A i \in 1 .. Len(p \o q) : i > Len(p) => (p \o q)[i] = q[i - Len(p)]
  BY ConcatFacts
<1>2. \A i \in 1 .. Len(p), j \in 1 .. Len(q) : p[i] # q[j]
  <2> SUFFICES ASSUME NEW i \in 1 .. Len(p), NEW j \in 1 .. Len(q), p[i] = q[j] PROVE FALSE
    OBVIOUS
  <2>1. p[i] \in S /\ In(p[i], p) /\ In(p[i], q)
    BY DEF In
  <2>2. QED
    BY <2>1
<1>3. ASSUME NEW i \in 1 .. Len(p) + Len(q), NEW j \in 1 .. Len(p) + Len(q),
             (p \o q)[i] = (p \o q)[j]
      PROVE  i = j
  <2>1. \A k \in 1 .. Len(p) + Len(q) : k > Len(p) => k - Len(p) \in 1 .. Len(q)
    BY <1>1
  <2>2. CASE i <= Len(p) /\ j <= Len(p)
    <3>1. i \in 1 .. Len(p) /\ j \in 1 .. Len(p)
      BY <1>1, <2>2
    <3>2. QED
      BY <1>1, <1>3, <3>1 DEF Once
  <2>3. CASE i > Len(p) /\ j > Len(p)
    <3>1. q[i - Len(p)] = q[j - Len(p)]
      BY <1>1, <1>3, <2>3
    <3>2. i - Len(p) = j - Len(p)
      BY <2>1, <2>3, <3>1 DEF Once
    <3>3. QED
      BY <1>1, <3>2
  <2>4. CASE i <= Len(p) /\ j > Len(p)
    <3>1. i \in 1 .. Len(p) /\ p[i] = q[j - Len(p)]
      BY <1>1, <1>3, <2>4
    <3>2. QED
      BY <1>2, <2>1, <2>4, <3>1
  <2>5. CASE i > Len(p) /\ j <= Len(p)
    <3>1. j \in 1 .. Len(p) /\ p[j] = q[i - Len(p)]
      BY <1>1, <1>3, <2>5
    <3>2. QED
      BY <1>2, <2>1, <2>5, <3>1
  <2>6. QED
    BY <1>1, <2>2, <2>3, <2>4, <2>5
<1>4. QED
  BY <1>1, <1>3 DEF Once

LEMMA InitPlaces == Init => OInv
<1> SUFFICES ASSUME Init PROVE OInv
  OBVIOUS
<1>1. TInv
  BY InitTypes
<1>2. toClient = <<>> /\ \A s \in SendIds : buffer[s] = <<>>
  BY DEF Init
<1>3. OnePlace
  BY <1>2 DEF OnePlace, Once, In
<1>4. QED
  BY <1>1, <1>3 DEF OInv

(* A frame that was put somewhere remains put.                              *)
LEMMA PutStays ==
  ASSUME TInv, NEW t \in Threads, Send(t), NEW f \in Sent, Put(f)
  PROVE  Put(f)'
<1> USE DEF TInv, TypeOK, SenderType
<1>1. f[1] \in Threads /\ f[2] \in Nat
  BY WorkAssumption DEF Sent
<1>2. CASE NewStream(t)
  <2>1. pc[t] = "idle" /\ sends[t] \in Nat /\ sends' = [sends EXCEPT ![t] = @ + 1]
        /\ \A u \in Threads \ {t} : pc'[u] = pc[u]
    BY <1>2 DEF NewStream
  <2>2. QED
    BY <1>1, <2>1 DEF Put
<1>3. CASE Pick(t) \/ Write(t) \/ PickFlush(t) \/ Flush(t) \/ FlushFails(t)
  <2>1. sends' = sends /\ \A u \in Threads \ {t} : pc'[u] = pc[u]
    BY <1>3 DEF Pick, Write, PickFlush, Flush, FlushFails, Return
  <2>2. pc[t] \in {"pick", "write"} \/ pc'[t] \notin {"pick", "write"}
    BY <1>3 DEF Pick, Write, PickFlush, Flush, FlushFails, Return
  <2>3. QED
    BY <1>1, <2>1, <2>2 DEF Put
<1>4. QED
  BY <1>2, <1>3 DEF Send

LEMMA WritePlaces ==
  ASSUME OInv, NEW t \in Threads, Write(t)
  PROVE  OnePlace'
<1> USE DEF OInv, TInv, TypeOK, SenderType
<1> DEFINE s == stream[t]  e == Frame(t)
<1>1. /\ pc[t] = "write" /\ pc' = [pc EXCEPT ![t] = "pickFlush"]
      /\ UNCHANGED <<sends, toClient>>
      /\ buffer' = [buffer EXCEPT ![s] = Append(@, e)] /\ s \in SendIds
  BY DEF Write
<1>2. e \in Sent /\ ~ Put(e) /\ \A f \in Sent : f = e => Put(f)'
  BY <1>1, WorkAssumption DEF Frame, Sent, Put, Begun
<1>3. /\ buffer'[s] = Append(buffer[s], e) /\ \A r \in SendIds \ {s} : buffer'[r] = buffer[r]
      /\ \A r \in SendIds : buffer[r] \in Seq(Sent)
  BY <1>1
<1>4. ~ In(e, toClient) /\ \A r \in SendIds : ~ In(e, buffer[r])
  BY <1>2 DEF OnePlace
<1> HIDE DEF s, e
<1>5. \A f \in Sent : In(f, buffer'[s]) <=> In(f, buffer[s]) \/ f = e
  BY <1>1, <1>2, <1>3, InAppend
<1>6. \A r \in SendIds : Once(buffer'[r])
  <2>1. Once(buffer'[s])
    BY <1>1, <1>2, <1>3, <1>4, OnceAppend DEF OnePlace
  <2>2. QED
    BY <1>3, <2>1 DEF OnePlace
<1>7. \A f \in Sent : Put(f) => Put(f)'
  BY PutStays DEF Send
<1>8. ASSUME NEW f \in Sent, NEW r \in SendIds, In(f, buffer'[r])
      PROVE  In(f, buffer[r]) \/ (f = e /\ r = s)
  BY <1>3, <1>5, <1>8
<1>9. ASSUME NEW f \in Sent, NEW r \in SendIds, In(f, buffer'[r])
      PROVE  /\ Put(f)' /\ ~ In(f, toClient')
             /\ \A q \in SendIds : In(f, buffer'[q]) => q = r
  <2>1. CASE f = e
    <3>1. \A q \in SendIds : In(f, buffer'[q]) => q = s
      BY <1>4, <1>8, <2>1
    <3>2. ~ In(f, toClient')
      BY <1>1, <1>4, <2>1
    <3>3. QED
      BY <1>2, <1>9, <2>1, <3>1, <3>2
  <2>2. CASE f # e
    BY <1>1, <1>7, <1>8, <1>9, <2>2 DEF OnePlace
  <2>3. QED
    BY <2>1, <2>2
<1>10. Once(toClient') /\ \A f \in Sent : In(f, toClient') => Put(f)'
  BY <1>1, <1>7 DEF OnePlace
<1>11. QED
  BY <1>6, <1>9, <1>10 DEF OnePlace, Once, In

LEMMA FlushPlaces ==
  ASSUME OInv, NEW t \in Threads, Flush(t)
  PROVE  OnePlace'
<1> USE DEF OInv, TInv, TypeOK, SenderType
<1> DEFINE s == stream[t]
<1>1. /\ s \in SendIds /\ toClient' = toClient \o buffer[s]
      /\ buffer' = [buffer EXCEPT ![s] = <<>>]
  BY DEF Flush
<1>2. /\ buffer'[s] = <<>> /\ \A r \in SendIds \ {s} : buffer'[r] = buffer[r]
      /\ buffer[s] \in Seq(Sent) /\ toClient \in Seq(Sent)
  BY <1>1
<1> HIDE DEF s
<1>3. \A f \in Sent : In(f, toClient') <=> In(f, toClient) \/ In(f, buffer[s])
  BY <1>1, <1>2, InConcat
<1>4. \A f \in Sent : ~ (In(f, toClient) /\ In(f, buffer[s]))
  BY <1>1 DEF OnePlace
<1>5. Once(toClient')
  BY <1>1, <1>2, <1>4, OnceConcat DEF OnePlace
<1>6. \A f \in Sent : Put(f) => Put(f)'
  BY PutStays DEF Send
<1>7. ASSUME NEW f \in Sent, NEW r \in SendIds, In(f, buffer'[r])
      PROVE  r # s /\ In(f, buffer[r])
  BY <1>2, <1>7 DEF In
<1>8. ASSUME NEW f \in Sent, NEW r \in SendIds, In(f, buffer'[r])
      PROVE  /\ Put(f)' /\ ~ In(f, toClient')
             /\ \A q \in SendIds : In(f, buffer'[q]) => q = r
  BY <1>1, <1>3, <1>6, <1>7, <1>8 DEF OnePlace
<1>9. \A f \in Sent : In(f, toClient') => Put(f)'
  BY <1>1, <1>3, <1>6 DEF OnePlace
<1>10. \A r \in SendIds : Once(buffer'[r])
  <2>1. Once(<<>>)
    BY DEF Once
  <2>2. QED
    BY <1>2, <2>1 DEF OnePlace
<1>11. QED
  BY <1>5, <1>8, <1>9, <1>10 DEF OnePlace, Once, In

LEMMA NextPlaces == OInv /\ [Next]_vars => OInv'
<1> SUFFICES ASSUME OInv, [Next]_vars PROVE OInv'
  OBVIOUS
<1>1. TInv'
  BY NextTypes DEF OInv
<1>2. CASE UNCHANGED vars \/ Client \/ Handler
  <2>1. UNCHANGED senders
    BY <1>2 DEF vars, Client, NewFrame, WriteSome, WriteNul, Gone, Handler, LoopEnds, ReadEnds,
                Push, Pop, Take, Processed, Raise
  <2>2. QED
    BY <1>1, <2>1 DEF OInv, senders, OnePlace, Once, In, Put
<1>3. ASSUME NEW t \in Threads, NewStream(t) \/ Pick(t) \/ PickFlush(t) \/ FlushFails(t)
      PROVE  OnePlace'
  <2>1. UNCHANGED <<buffer, toClient>>
    BY <1>3 DEF NewStream, Pick, PickFlush, FlushFails
  <2>2. \A f \in Sent : Put(f) => Put(f)'
    BY <1>3, PutStays DEF Send, OInv
  <2>3. QED
    BY <2>1, <2>2 DEF OInv, OnePlace, Once, In
<1>4. QED
  BY <1>1, <1>2, <1>3, WritePlaces, FlushPlaces DEF OInv, Next, Send

(* No frame reaches the client twice, though the threads share streams and  *)
(* flush each other's frames (send), for any number of threads.             *)
THEOREM BlockingAtMostOnce == Spec => []AtMostOnce
<1>1. OInv => AtMostOnce
  BY DEF OInv, OnePlace, Once, AtMostOnce
<1>2. QED
  BY <1>1, InitPlaces, NextPlaces, PTL DEF Spec
=============================================================================

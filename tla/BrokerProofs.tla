---------------------------- MODULE BrokerProofs ----------------------------
(***************************************************************************)
(* Proofs about the log broker, for every value of its constants: its      *)
(* state has the declared shape and its buffers stay within their limits,  *)
(* the byte count of the queue is exact, and the broker implements the     *)
(* lossy streams of LossyStreams (StreamsLossy).                           *)
(***************************************************************************)
EXTENDS LogBroker, SequenceTheorems, FiniteSetTheorems, TLAPS

-----------------------------------------------------------------------------
(* The queue and its byte count.                                           *)

(* queueBytes is the sum of the lengths of the queued lines: rest[i] are   *)
(* the bytes from line i on.                                               *)
Suffixes(rest, q, bytes) ==
    /\ rest \in [1..(Len(q) + 1) -> Nat]
    /\ rest[Len(q) + 1] = 0 /\ rest[1] = bytes
    /\ \A i \in 1..Len(q) : rest[i] = rest[i + 1] + LineBytes[q[i].kind]

QueueCounted == \E rest : Suffixes(rest, queue, queueBytes)

LEMMA LineBytesType ==
    ASSUME NEW l \in LineType
    PROVE  LineBytes[l.kind] \in Nat
BY BrokerAssumption DEF LineType

LEMMA SuffixesAppend ==
    ASSUME NEW q \in Seq(LineType), NEW bytes \in Nat, NEW rest, Suffixes(rest, q, bytes),
           NEW l \in LineType
    PROVE  \E more : Suffixes(more, Append(q, l), bytes + LineBytes[l.kind])
<1> DEFINE n == Len(q)
           b == LineBytes[l.kind]
           new == Append(q, l)
           more == [i \in 1..(n + 2) |-> IF i = n + 2 THEN 0 ELSE rest[i] + b]
<1>1. n \in Nat /\ b \in Nat /\ Len(new) = n + 1 /\ new[n + 1] = l /\ \A i \in 1..n : new[i] = q[i]
  BY LineBytesType
<1>2. /\ rest \in [1..(n + 1) -> Nat] /\ rest[n + 1] = 0 /\ rest[1] = bytes
      /\ \A i \in 1..n : rest[i] = rest[i + 1] + LineBytes[q[i].kind]
  BY DEF Suffixes
<1> HIDE DEF n, new
<1>3. more \in [1..(n + 2) -> Nat] /\ more[n + 2] = 0 /\ more[1] = bytes + b
  <2>1. \A i \in 1..(n + 2) : i # n + 2 => i \in 1..(n + 1)
    BY <1>1
  <2>2. 1 \in 1..(n + 2) /\ 1 # n + 2 /\ n + 2 \in 1..(n + 2)
    BY <1>1
  <2> HIDE DEF b
  <2>3. \A i \in 1..(n + 2) : i # n + 2 => rest[i] + b \in Nat
    BY <1>1, <1>2, <2>1
  <2>4. QED
    BY <1>2, <2>2, <2>3
<1>4. ASSUME NEW i \in 1..(n + 1)
      PROVE  more[i] = more[i + 1] + LineBytes[new[i].kind]
  <2>1. CASE i = n + 1
    <3>1. i \in 1..(n + 2) /\ i # n + 2 /\ i + 1 = n + 2 /\ i + 1 \in 1..(n + 2)
      BY <1>1, <2>1
    <3>2. more[i] = rest[i] + b /\ more[i + 1] = 0
      BY <3>1
    <3>3. rest[i] = 0 /\ new[i] = l
      BY <1>1, <1>2, <2>1
    <3> HIDE DEF more
    <3>4. QED
      BY <1>1, <3>2, <3>3
  <2>2. CASE i # n + 1
    <3>1. i \in 1..n /\ i + 1 \in 1..(n + 1) /\ i \in 1..(n + 2) /\ i + 1 \in 1..(n + 2)
          /\ i # n + 2 /\ i + 1 # n + 2
      BY <1>1, <2>2
    <3>2. more[i] = rest[i] + b /\ more[i + 1] = rest[i + 1] + b
      BY <3>1
    <3>3. rest[i] = rest[i + 1] + LineBytes[q[i].kind] /\ new[i] = q[i]
      BY <1>1, <1>2, <3>1
    <3>4. rest[i + 1] \in Nat /\ LineBytes[q[i].kind] \in Nat
      <4>1. q[i] \in LineType
        BY <3>1 DEF n
      <4>2. QED
        BY <1>2, <3>1, <4>1, LineBytesType
    <3> HIDE DEF more, b
    <3>5. QED
      BY <1>1, <3>2, <3>3, <3>4
  <2>3. QED
    BY <2>1, <2>2
<1>5. Suffixes(more, new, bytes + b)
  <2> HIDE DEF more, b
  <2>1. n + 1 + 1 = n + 2 /\ 1..(n + 1 + 1) = 1..(n + 2)
    BY <1>1
  <2>2. QED
    BY <1>1, <1>3, <1>4, <2>1 DEF Suffixes
<1>6. QED
  BY <1>5 DEF new

LEMMA SuffixesTail ==
    ASSUME NEW q \in Seq(LineType), q # <<>>, NEW bytes \in Nat, NEW rest, Suffixes(rest, q, bytes)
    PROVE  /\ bytes - LineBytes[Head(q).kind] \in Nat
           /\ \E less : Suffixes(less, Tail(q), bytes - LineBytes[Head(q).kind])
<1> DEFINE n == Len(q)
           b == LineBytes[Head(q).kind]
           new == Tail(q)
           less == [i \in 1..n |-> rest[i + 1]]
<1>1. /\ n \in Nat /\ n >= 1 /\ Len(new) = n - 1 /\ Head(q) = q[1] /\ Head(q) \in LineType
      /\ \A i \in 1..(n - 1) : new[i] = q[i + 1]
  OBVIOUS
<1>2. b \in Nat
  BY <1>1, LineBytesType
<1>3. /\ rest \in [1..(n + 1) -> Nat] /\ rest[n + 1] = 0 /\ rest[1] = bytes
      /\ \A i \in 1..n : rest[i] = rest[i + 1] + LineBytes[q[i].kind]
  BY DEF Suffixes
<1>4. bytes = rest[2] + b /\ rest[2] \in Nat
  <2>1. 1 \in 1..n /\ 1 + 1 = 2 /\ 2 \in 1..(n + 1)
    BY <1>1
  <2>2. QED
    BY <1>1, <1>3, <2>1
<1> HIDE DEF n, new, b
<1>5. bytes - b = rest[2]
  BY <1>2, <1>4
<1>6. less \in [1..n -> Nat] /\ less[n] = 0 /\ less[1] = rest[2]
  <2>1. \A i \in 1..n : i + 1 \in 1..(n + 1)
    BY <1>1
  <2>2. 1 \in 1..n /\ n \in 1..n /\ 1 + 1 = 2
    BY <1>1
  <2>3. QED
    BY <1>3, <2>1, <2>2
<1>7. ASSUME NEW i \in 1..(n - 1)
      PROVE  less[i] = less[i + 1] + LineBytes[new[i].kind]
  <2>1. i \in 1..n /\ i + 1 \in 1..n
    BY <1>1
  <2>2. less[i] = rest[i + 1] /\ less[i + 1] = rest[i + 1 + 1]
    BY <2>1
  <2>3. rest[i + 1] = rest[i + 1 + 1] + LineBytes[q[i + 1].kind]
    BY <1>3, <2>1
  <2>4. QED
    BY <1>1, <2>2, <2>3
<1>8. Suffixes(less, new, bytes - b)
  <2> HIDE DEF less
  <2>1. n - 1 + 1 = n
    BY <1>1
  <2>2. QED
    BY <1>1, <1>5, <1>6, <1>7, <2>1 DEF Suffixes
<1>9. QED
  BY <1>4, <1>5, <1>8 DEF new, b

-----------------------------------------------------------------------------
(* Type correctness.  A line that is about to be queued is a real one, and *)
(* a record is about to be sent to a real stream; the bytes taken off the  *)
(* count with a line are bytes that were put on it.                        *)

QueueBudget == QueueCounted /\ queueBytes <= QueueLimit

HandsFull == \A s \in Streams : handler[s].pc = "writing" => handler[s].hand # Nothing

BrokerTypeInv ==
    /\ BrokerTypeOK
    /\ QueueBudget
    /\ writer.pc # "idle" => writer.line \in LineType
    /\ dispatcher.pc = "send" => dispatcher.at \in Streams
    /\ HandsFull

LEMMA InitBrokerType == BrokerInit => BrokerTypeInv
<1> SUFFICES ASSUME BrokerInit PROVE BrokerTypeInv
  OBVIOUS
<1> USE DEF BrokerInit
<1>1. BrokerTypeOK
  <2>1. NewHandler \in HandlerType
    BY DEF NewHandler, HandlerType
  <2>2. writer \in [pc: {"idle", "check", "queue", "refused", "drop"}, line: LineType \cup {NoLine},
                    todo: SUBSET Streams]
    BY DEF IdleWriter
  <2>3. dispatcher \in [pc: {"wait", "offer", "send"}, line: LineType \cup {NoLine},
                        todo: SUBSET Streams, at: Streams \cup {"nobody"}]
    BY DEF IdleDispatcher
  <2>4. handler \in [Streams -> HandlerType]
    BY <2>1
  <2>5. queue \in Seq(LineType) /\ channel \in [Streams -> Seq(MessageType)]
        /\ dropped \in [Streams -> Nat]
    OBVIOUS
  <2>6. QED
    BY <2>2, <2>3, <2>4, <2>5 DEF BrokerTypeOK
<1>2. QueueBudget
  <2> DEFINE none == [i \in 1..1 |-> 0]
  <2>1. Len(queue) = 0 /\ 1 \in 1..1
    OBVIOUS
  <2>2. Suffixes(none, queue, queueBytes)
    BY <2>1 DEF Suffixes
  <2>3. QED
    BY <2>2, BrokerAssumption DEF QueueBudget, QueueCounted
<1>3. HandsFull
  BY DEF HandsFull, NewHandler
<1>4. QED
  BY <1>1, <1>2, <1>3 DEF BrokerTypeInv, IdleWriter, IdleDispatcher

LEMMA OfferedType ==
    ASSUME BrokerTypeOK, NEW s
    PROVE  /\ Offered(s) \in [pc: {"wait", "offer", "send"}, line: LineType \cup {NoLine},
                              todo: SUBSET Streams, at: Streams \cup {"nobody"}]
           /\ Offered(s).pc # "send"
BY DEF Offered, IdleDispatcher, BrokerTypeOK

(* What a message more, and a changed counter, do to the streams' types.   *)
LEMMA StreamUpdates ==
    ASSUME NEW f \in [Streams -> Seq(MessageType)], NEW d \in [Streams -> Nat],
           NEW s \in Streams, NEW m \in MessageType
    PROVE  /\ [f EXCEPT ![s] = Append(f[s], m)] \in [Streams -> Seq(MessageType)]
           /\ [d EXCEPT ![s] = 0] \in [Streams -> Nat]
           /\ [d EXCEPT ![s] = d[s] + 1] \in [Streams -> Nat]
<1> DEFINE M == MessageType
<1> HIDE DEF M
<1>1. f \in [Streams -> Seq(M)] /\ m \in M
  BY DEF M
<1> DEFINE c == Append(f[s], m)
<1>2. c \in Seq(M)
  BY <1>1
<1> HIDE DEF c
<1>3. [f EXCEPT ![s] = c] \in [Streams -> Seq(M)]
  BY <1>1, <1>2
<1>4. QED
  BY <1>3 DEF c, M


LEMMA NextBrokerType == BrokerTypeInv /\ [BrokerNext]_brokerVars => BrokerTypeInv'
<1> SUFFICES ASSUME BrokerTypeInv, [BrokerNext]_brokerVars PROVE BrokerTypeInv'
  OBVIOUS
<1>0. BrokerTypeOK /\ QueueBudget
  BY DEF BrokerTypeInv
<1> DEFINE WType == [pc: {"idle", "check", "queue", "refused", "drop"}, line: LineType \cup {NoLine},
                     todo: SUBSET Streams]
           DType == [pc: {"wait", "offer", "send"}, line: LineType \cup {NoLine},
                     todo: SUBSET Streams, at: Streams \cup {"nobody"}]
<1>w. writer \in WType /\ (writer.pc # "idle" => writer.line \in LineType)
  BY DEF BrokerTypeInv, BrokerTypeOK
<1>d. dispatcher \in DType /\ (dispatcher.pc = "send" => dispatcher.at \in Streams)
  BY DEF BrokerTypeInv, BrokerTypeOK
<1>h. HandsFull /\ (handler' = handler => HandsFull')
  BY DEF BrokerTypeInv, HandsFull
<1>i. IdleWriter \in WType /\ IdleWriter.pc = "idle" /\ IdleDispatcher \in DType /\ IdleDispatcher.pc # "send"
  BY DEF IdleWriter, IdleDispatcher
<1>1. CASE UNCHANGED brokerVars
  <2>1. UNCHANGED <<published, writer, queue, queueBytes, dispatcher, subscribers, dropped, channel,
                    closed, stopped, handler>>
    BY <1>1 DEF brokerVars
  <2>2. QED
    BY <1>h, <2>1 DEF BrokerTypeInv, BrokerTypeOK, QueueBudget, QueueCounted
<1>2. ASSUME NEW k \in Kinds, Publish([line |-> published + 1, kind |-> k])
      PROVE  BrokerTypeInv'
  <2> DEFINE l == [line |-> published + 1, kind |-> k]
  <2>1. l \in LineType /\ l.line \in Nat
    BY <1>0 DEF LineType, BrokerTypeOK
  <2> HIDE DEF l
  <2>2. Publish(l)
    BY <1>2 DEF l
  <2>3. /\ published' \in Nat /\ writer' \in WType /\ writer'.line \in LineType
        /\ UNCHANGED <<queue, queueBytes, dispatcher, subscribers, dropped, channel, closed,
                       stopped, handler>>
    BY <2>1, <2>2 DEF Publish, queueVars, subscriberVars
  <2>4. QED
    BY <1>0, <1>h, <2>3 DEF BrokerTypeInv, BrokerTypeOK, QueueBudget, QueueCounted
<1>3. ASSUME writer' \in WType, writer'.pc # "idle" => writer'.line \in LineType,
             UNCHANGED <<published, queue, queueBytes, dispatcher, subscribers, channel,
                         closed, stopped, handler>>,
             dropped' \in [Streams -> Nat]
      PROVE  BrokerTypeInv'
  BY <1>0, <1>h, <1>3 DEF BrokerTypeInv, BrokerTypeOK, QueueBudget, QueueCounted
<1>4. CASE WriterStep
  <2>1. CASE CheckSubscribers
    <3>1. writer' \in WType /\ (writer'.pc # "idle" => writer'.line \in LineType)
      BY <1>w, <1>i, <2>1 DEF CheckSubscribers
    <3>2. QED
      BY <1>0, <1>3, <2>1, <3>1 DEF CheckSubscribers, queueVars, subscriberVars, BrokerTypeOK
  <2>2. CASE Enqueue
    <3> DEFINE b == LineBytes[writer.line.kind]
    <3>1. CASE writer' = IdleWriter /\ UNCHANGED queueVars
      BY <1>0, <1>3, <1>i, <2>2, <3>1 DEF Enqueue, queueVars, subscriberVars, BrokerTypeOK
    <3>2. CASE writer' = [writer EXCEPT !.pc = "refused"] /\ UNCHANGED queueVars
      <4>1. writer' \in WType /\ writer'.line \in LineType
        BY <1>w, <2>2, <3>2 DEF Enqueue
      <4>2. QED
        BY <1>0, <1>3, <2>2, <3>2, <4>1 DEF Enqueue, queueVars, subscriberVars, BrokerTypeOK
    <3>3. CASE /\ queueBytes + b <= QueueLimit /\ queue' = Append(queue, writer.line)
               /\ queueBytes' = queueBytes + b /\ writer' = IdleWriter
      <4>1. writer.line \in LineType /\ queue \in Seq(LineType) /\ queueBytes \in Nat
        BY <1>0, <1>h, <1>w, <2>2 DEF Enqueue, BrokerTypeOK
      <4>2. b \in Nat
        BY <4>1, LineBytesType
      <4>3. PICK rest : Suffixes(rest, queue, queueBytes)
        BY <1>0 DEF QueueBudget, QueueCounted
      <4>4. \E more : Suffixes(more, Append(queue, writer.line), queueBytes + b)
        BY <4>1, <4>3, SuffixesAppend
      <4> HIDE DEF b
      <4>5. QueueBudget'
        BY <3>3, <4>4 DEF QueueBudget, QueueCounted
      <4>6. queue' \in Seq(LineType) /\ queueBytes' \in Nat
        BY <3>3, <4>1, <4>2
      <4>7. UNCHANGED <<published, dispatcher, subscribers, dropped, channel, closed, stopped, handler>>
        BY <2>2 DEF Enqueue, subscriberVars
      <4>8. QED
        BY <1>0, <1>h, <1>d, <1>i, <3>3, <4>5, <4>6, <4>7 DEF BrokerTypeInv, BrokerTypeOK
    <3>4. QED
      BY <2>2, <3>1, <3>2, <3>3 DEF Enqueue
  <2>3. CASE DropForAll
    <3>1. writer' \in WType /\ (writer'.pc # "idle" => writer'.line \in LineType)
      BY <1>0, <1>h, <1>w, <1>i, <2>3 DEF DropForAll, BrokerTypeOK
    <3>2. QED
      BY <1>0, <1>3, <2>3, <3>1 DEF DropForAll, queueVars, subscriberVars, BrokerTypeOK
  <2>4. ASSUME NEW s \in Streams, Drop(s) PROVE BrokerTypeInv'
    <3>1. writer' \in WType /\ (writer'.pc # "idle" => writer'.line \in LineType)
      BY <1>w, <1>i, <2>4 DEF Drop
    <3>2. dropped' \in [Streams -> Nat]
      BY <1>0, <2>4 DEF Drop, BrokerTypeOK
    <3>3. QED
      BY <1>3, <2>4, <3>1, <3>2 DEF Drop, queueVars
  <2>5. QED
    BY <1>4, <2>1, <2>2, <2>3, <2>4 DEF WriterStep
<1>5. ASSUME dispatcher' \in DType, dispatcher'.pc = "send" => dispatcher'.at \in Streams,
             UNCHANGED <<published, writer, queue, queueBytes, subscribers, closed, stopped, handler>>,
             dropped' \in [Streams -> Nat], channel' \in [Streams -> Seq(MessageType)]
      PROVE  BrokerTypeInv'
  BY <1>0, <1>h, <1>w, <1>5 DEF BrokerTypeInv, BrokerTypeOK, QueueBudget, QueueCounted
<1>6. CASE DispatcherStep
  <2>1. CASE TakeLine
    <3> DEFINE b == LineBytes[Head(queue).kind]
    <3>1. /\ dispatcher.pc = "wait" /\ queue # <<>> /\ queue' = Tail(queue)
          /\ queueBytes' = queueBytes - b
          /\ dispatcher' = [dispatcher EXCEPT !.line = Head(queue)]
          /\ UNCHANGED <<published, writer, subscribers, dropped, channel, closed, stopped, handler>>
      BY <2>1 DEF TakeLine, subscriberVars
    <3>2. queue \in Seq(LineType) /\ queueBytes \in Nat /\ queueBytes <= QueueLimit
      BY <1>0 DEF BrokerTypeOK, QueueBudget
    <3>3. Head(queue) \in LineType /\ Tail(queue) \in Seq(LineType)
      BY <3>1, <3>2
    <3>4. b \in Nat
      BY <3>3, LineBytesType
    <3>5. PICK rest : Suffixes(rest, queue, queueBytes)
      BY <1>0 DEF QueueBudget, QueueCounted
    <3>6. queueBytes - b \in Nat /\ \E less : Suffixes(less, Tail(queue), queueBytes - b)
      BY <3>1, <3>2, <3>5, SuffixesTail
    <3> HIDE DEF b
    <3>7. QueueBudget'
      <4>1. queueBytes - b <= QueueLimit
        BY <3>2, <3>4, BrokerAssumption
      <4>2. QED
        BY <3>1, <3>6, <4>1 DEF QueueBudget, QueueCounted
    <3>8. dispatcher' \in DType /\ dispatcher'.pc # "send"
      BY <1>d, <3>1, <3>3
    <3>9. QED
      BY <1>0, <1>h, <1>w, <3>1, <3>3, <3>6, <3>7, <3>8 DEF BrokerTypeInv, BrokerTypeOK
  <2>2. CASE Dispatch
    <3>1. dispatcher' \in DType /\ dispatcher'.pc # "send"
      BY <1>0, <1>d, <1>i, <2>2 DEF Dispatch, BrokerTypeOK
    <3>2. QED
      BY <1>0, <1>5, <2>2, <3>1 DEF Dispatch, queueVars, subscriberVars, BrokerTypeOK
  <2>3. CASE SendRecord
    <3> DEFINE s == dispatcher.at
    <3>1. s \in Streams /\ dispatcher' = Offered(s)
      BY <1>d, <2>3 DEF SendRecord
    <3>2. dispatcher' \in DType /\ dispatcher'.pc # "send"
      BY <1>0, <3>1, OfferedType
    <3>3. RecordMessage(dispatcher.line) \in MessageType
      BY <1>d DEF RecordMessage, MessageType, NoLine, LineType
    <3>4. dropped' \in [Streams -> Nat] /\ channel' \in [Streams -> Seq(MessageType)]
      <4> DEFINE m == RecordMessage(dispatcher.line)
      <4>1. \/ channel' = [channel EXCEPT ![s] = Append(channel[s], m)] /\ UNCHANGED dropped
            \/ dropped' = [dropped EXCEPT ![s] = dropped[s] + 1] /\ UNCHANGED channel
        BY <2>3 DEF SendRecord
      <4> HIDE DEF m, s
      <4>2. m \in MessageType /\ channel \in [Streams -> Seq(MessageType)] /\ dropped \in [Streams -> Nat]
        BY <1>0, <3>3 DEF BrokerTypeOK, m
      <4>3. /\ [channel EXCEPT ![s] = Append(channel[s], m)] \in [Streams -> Seq(MessageType)]
            /\ [dropped EXCEPT ![s] = 0] \in [Streams -> Nat]
            /\ [dropped EXCEPT ![s] = dropped[s] + 1] \in [Streams -> Nat]
        BY <3>1, <4>2, StreamUpdates
      <4>4. QED
        BY <4>1, <4>2, <4>3
    <3>5. QED
      BY <1>5, <2>3, <3>2, <3>4 DEF SendRecord, queueVars
  <2>4. ASSUME NEW s \in Streams, SkipOffer(s) PROVE BrokerTypeInv'
    <3>1. dispatcher' \in DType /\ dispatcher'.pc # "send"
      BY <1>0, <2>4, OfferedType DEF SkipOffer
    <3>2. QED
      BY <1>0, <1>5, <2>4, <3>1 DEF SkipOffer, queueVars, subscriberVars, BrokerTypeOK
  <2>5. ASSUME NEW s \in Streams, OfferReport(s) PROVE BrokerTypeInv'
    <3>1. dispatcher' \in DType /\ (dispatcher'.pc = "send" => dispatcher'.at \in Streams)
      <4>1. dispatcher' = [dispatcher EXCEPT !.pc = "send", !.at = s] \/ dispatcher' = Offered(s)
        BY <2>5 DEF OfferReport
      <4>2. QED
        BY <1>0, <1>d, <4>1, OfferedType
    <3>2. dropped[s] \in Nat /\ DroppedMessage(dropped[s]) \in MessageType
      BY <1>0 DEF DroppedMessage, MessageType, BrokerTypeOK
    <3>3. dropped' \in [Streams -> Nat] /\ channel' \in [Streams -> Seq(MessageType)]
      <4> DEFINE m == DroppedMessage(dropped[s])
      <4>1. \/ UNCHANGED <<channel, dropped>>
            \/ /\ channel' = [channel EXCEPT ![s] = Append(channel[s], m)]
               /\ dropped' = [dropped EXCEPT ![s] = 0]
            \/ dropped' = [dropped EXCEPT ![s] = dropped[s] + 1] /\ UNCHANGED channel
        BY <2>5 DEF OfferReport
      <4> HIDE DEF m
      <4>2. m \in MessageType /\ channel \in [Streams -> Seq(MessageType)] /\ dropped \in [Streams -> Nat]
        BY <1>0, <3>2 DEF BrokerTypeOK, m
      <4>3. /\ [channel EXCEPT ![s] = Append(channel[s], m)] \in [Streams -> Seq(MessageType)]
            /\ [dropped EXCEPT ![s] = 0] \in [Streams -> Nat]
            /\ [dropped EXCEPT ![s] = dropped[s] + 1] \in [Streams -> Nat]
        BY <4>2, StreamUpdates
      <4>4. QED
        BY <4>1, <4>2, <4>3
    <3>4. QED
      BY <1>5, <2>5, <3>1, <3>3 DEF OfferReport, queueVars
  <2>6. QED
    BY <1>6, <2>1, <2>2, <2>3, <2>4, <2>5 DEF DispatcherStep
<1>7. ASSUME UNCHANGED <<published, writer, queue, queueBytes, dispatcher, closed, stopped>>,
             subscribers' \subseteq Streams, dropped' \in [Streams -> Nat],
             channel' \in [Streams -> Seq(MessageType)], handler' \in [Streams -> HandlerType],
             HandsFull'
      PROVE  BrokerTypeInv'
  BY <1>0, <1>h, <1>w, <1>d, <1>7 DEF BrokerTypeInv, BrokerTypeOK, QueueBudget, QueueCounted
<1>8. ASSUME NEW s \in Streams, NEW filter \in Filters, Subscribe(s, filter)
      PROVE  BrokerTypeInv'
  <2>1. filter \in SUBSET Kinds
    BY BrokerAssumption
  <2> DEFINE h == handler[s]
             ended == [h EXCEPT !.pc = "ended"]
             open == [h EXCEPT !.pc = "reading", !.filter = filter]
  <2>2. handler \in [Streams -> HandlerType] /\ h \in HandlerType
    BY <1>0 DEF BrokerTypeOK
  <2>3. ended \in HandlerType /\ open \in HandlerType /\ ended.pc # "writing" /\ open.pc # "writing"
    <3> HIDE DEF h
    <3>1. QED
      BY <2>1, <2>2 DEF HandlerType
  <2>4. handler' = [handler EXCEPT ![s] = ended] \/ handler' = [handler EXCEPT ![s] = open]
    BY <1>8 DEF Subscribe
  <2> HIDE DEF ended, open, h
  <2>5. handler' \in [Streams -> HandlerType] /\ HandsFull'
    BY <1>h, <2>2, <2>3, <2>4 DEF HandsFull
  <2>6. subscribers' \subseteq Streams
    BY <1>0, <1>8 DEF Subscribe, BrokerTypeOK
  <2>7. QED
    BY <1>0, <1>7, <1>8, <2>5, <2>6 DEF Subscribe, queueVars, BrokerTypeOK
<1>9. ASSUME NEW s \in Streams, HandlerStep(s) PROVE BrokerTypeInv'
  <2> DEFINE h == handler[s]
             m == Head(channel[s])
             rest == Tail(channel[s])
             taken == [h EXCEPT !.pc = "writing", !.hand = m]
             put == [h EXCEPT !.pc = "reading", !.hand = Nothing, !.written = Append(h.written, h.hand)]
             seen == [h EXCEPT !.pc = "leaving"]
             left == [h EXCEPT !.pc = "leaving", !.hand = Nothing]
             gone == [h EXCEPT !.pc = "ended"]
  <2>1. h \in HandlerType /\ channel[s] \in Seq(MessageType) /\ handler \in [Streams -> HandlerType]
    BY <1>0 DEF BrokerTypeOK
  <2>2. ASSUME NEW new \in HandlerType, handler' = [handler EXCEPT ![s] = new],
               new.pc = "writing" => new.hand # Nothing
        PROVE  handler' \in [Streams -> HandlerType] /\ HandsFull'
    BY <1>h, <2>1, <2>2 DEF HandsFull
  <2>3. CASE Receive(s)
    <3>1. m \in MessageType /\ rest \in Seq(MessageType)
      BY <2>1, <2>3 DEF Receive
    <3>2. m # Nothing
      BY <3>1 DEF MessageType, Nothing
    <3>3. handler' = [handler EXCEPT ![s] = taken] /\ channel' = [channel EXCEPT ![s] = rest]
      BY <2>3 DEF Receive
    <3> HIDE DEF h, m, rest
    <3>4. taken \in HandlerType /\ taken.hand # Nothing
      BY <2>1, <3>1, <3>2 DEF HandlerType
    <3> HIDE DEF taken
    <3>5. handler' \in [Streams -> HandlerType] /\ HandsFull'
      BY <2>2, <3>3, <3>4
    <3>6. channel' \in [Streams -> Seq(MessageType)]
      BY <1>0, <3>1, <3>3 DEF BrokerTypeOK
    <3>7. QED
      BY <1>0, <1>7, <2>3, <3>5, <3>6 DEF Receive, queueVars, BrokerTypeOK
  <2>4. ASSUME UNCHANGED <<published, writer, queue, queueBytes, dispatcher, subscribers, dropped,
                           channel, closed, stopped>>,
               (handler' = [handler EXCEPT ![s] = put] /\ h.hand # Nothing)
                 \/ handler' = [handler EXCEPT ![s] = seen] \/ handler' = [handler EXCEPT ![s] = left]
        PROVE  BrokerTypeInv'
    <3> HIDE DEF h
    <3>1. h.hand # Nothing => put \in HandlerType /\ put.pc = "reading"
      <4> DEFINE w == Append(h.written, h.hand)
      <4>1. h.hand # Nothing => w \in Seq(MessageType)
        BY <2>1 DEF HandlerType
      <4> HIDE DEF w
      <4>2. QED
        BY <2>1, <4>1 DEF HandlerType, w
    <3>2. seen \in HandlerType /\ seen.pc = "leaving" /\ left \in HandlerType /\ left.pc = "leaving"
      BY <2>1 DEF HandlerType
    <3> HIDE DEF put, seen, left
    <3>3. handler' \in [Streams -> HandlerType] /\ HandsFull'
      BY <2>2, <2>4, <3>1, <3>2
    <3>4. QED
      BY <1>0, <1>7, <2>4, <3>3 DEF BrokerTypeOK
  <2>5. CASE Written(s)
    <3>1. h.hand # Nothing /\ handler' = [handler EXCEPT ![s] = put]
      BY <1>h, <2>5 DEF Written, HandsFull
    <3>2. QED
      BY <2>4, <2>5, <3>1 DEF Written, queueVars, subscriberVars
  <2>6. CASE SeeClosed(s)
    BY <2>4, <2>6 DEF SeeClosed, queueVars, subscriberVars
  <2>7. CASE Leave(s)
    BY <2>4, <2>7 DEF Leave, queueVars, subscriberVars
  <2>8. CASE Unsubscribe(s)
    <3>1. handler' = [handler EXCEPT ![s] = gone]
      BY <2>8 DEF Unsubscribe
    <3> HIDE DEF h
    <3>2. gone \in HandlerType /\ gone.pc = "ended"
      BY <2>1 DEF HandlerType
    <3> HIDE DEF gone
    <3>3. handler' \in [Streams -> HandlerType] /\ HandsFull'
      BY <2>2, <3>1, <3>2
    <3>4. dropped' \in [Streams -> Nat] /\ channel' \in [Streams -> Seq(MessageType)]
          /\ subscribers' \subseteq Streams
      BY <1>0, <2>8 DEF Unsubscribe, BrokerTypeOK
    <3>5. QED
      BY <1>7, <2>8, <3>3, <3>4 DEF Unsubscribe, queueVars
  <2>9. QED
    BY <1>9, <2>3, <2>5, <2>6, <2>7, <2>8 DEF HandlerStep
<1>10. CASE CloseSubscriptions
  BY <1>0, <1>h, <1>w, <1>d, <1>10
     DEF CloseSubscriptions, queueVars, BrokerTypeInv, BrokerTypeOK, QueueBudget, QueueCounted
<1>11. CASE StopDispatcher
  <2> DEFINE none == [i \in 1..1 |-> 0]
  <2>1. queue' = <<>> /\ queueBytes' = 0 /\ stopped' = TRUE
        /\ UNCHANGED <<published, writer, dispatcher, subscribers, dropped, channel, closed, handler>>
    BY <1>11 DEF StopDispatcher, subscriberVars
  <2>2. Len(queue') = 0 /\ 1 \in 1..1
    BY <2>1
  <2>3. Suffixes(none, queue', queueBytes')
    BY <2>1, <2>2 DEF Suffixes
  <2>4. QueueBudget'
    BY <2>1, <2>3, BrokerAssumption DEF QueueBudget, QueueCounted
  <2>5. QED
    BY <1>0, <1>h, <1>w, <1>d, <2>1, <2>4 DEF BrokerTypeInv, BrokerTypeOK
<1>12. QED
  BY <1>1, <1>2, <1>4, <1>6, <1>8, <1>9, <1>10, <1>11 DEF BrokerNext

(* The other two buffers.  A message is sent only where there is room.     *)
ChannelsBounded == \A s \in Streams : Len(channel[s]) <= SubscriberBuffer

SubscribersBounded == IsFiniteSet(subscribers) /\ Cardinality(subscribers) <= MaximumStreams

LEMMA InitBounded == BrokerInit => ChannelsBounded /\ SubscribersBounded
BY FS_EmptySet, BrokerAssumption DEF BrokerInit, ChannelsBounded, SubscribersBounded

LEMMA NextChannels ==
    ASSUME BrokerTypeInv, ChannelsBounded, [BrokerNext]_brokerVars
    PROVE  ChannelsBounded'
<1> DEFINE Max == SubscriberBuffer
<1>0. channel \in [Streams -> Seq(MessageType)] /\ Max \in Nat \ {0}
  BY BrokerAssumption DEF BrokerTypeInv, BrokerTypeOK
<1>1. CASE UNCHANGED channel
  BY <1>1 DEF ChannelsBounded
<1>2. ASSUME NEW s \in Streams, NEW c, Len(c) <= Max, channel' = [channel EXCEPT ![s] = c]
      PROVE  ChannelsBounded'
  BY <1>0, <1>2 DEF ChannelsBounded
<1>3. ASSUME NEW s \in Streams, NEW m \in MessageType, Room(s),
             channel' = [channel EXCEPT ![s] = Append(channel[s], m)]
      PROVE  ChannelsBounded'
  <2> DEFINE c == Append(channel[s], m)
  <2>1. Len(channel[s]) < Max /\ Len(channel[s]) \in Nat /\ Len(c) = Len(channel[s]) + 1
    BY <1>0, <1>3 DEF Room
  <2>2. Len(c) <= Max
    BY <1>0, <2>1
  <2> HIDE DEF c
  <2>3. QED
    BY <1>2, <1>3, <2>2 DEF c
<1>4. ASSUME NEW s \in Streams, OfferReport(s) PROVE ChannelsBounded'
  <2>1. DroppedMessage(dropped[s]) \in MessageType
    BY DEF DroppedMessage, MessageType, BrokerTypeInv, BrokerTypeOK
  <2>2. \/ UNCHANGED channel
        \/ Room(s) /\ channel' = [channel EXCEPT ![s] = Append(channel[s], DroppedMessage(dropped[s]))]
    BY <1>4 DEF OfferReport
  <2>3. QED
    BY <1>1, <1>3, <2>1, <2>2
<1>5. CASE SendRecord
  <2>1. dispatcher.at \in Streams /\ RecordMessage(dispatcher.line) \in MessageType
    BY <1>5 DEF SendRecord, RecordMessage, MessageType, NoLine, LineType, BrokerTypeInv, BrokerTypeOK
  <2>2. \/ UNCHANGED channel
        \/ /\ Room(dispatcher.at)
           /\ channel' = [channel EXCEPT ![dispatcher.at] =
                            Append(channel[dispatcher.at], RecordMessage(dispatcher.line))]
    BY <1>5 DEF SendRecord
  <2>3. QED
    BY <1>1, <1>3, <2>1, <2>2
<1>6. ASSUME NEW s \in Streams, Receive(s) PROVE ChannelsBounded'
  <2>1. channel[s] # <<>> /\ channel' = [channel EXCEPT ![s] = Tail(channel[s])]
    BY <1>6 DEF Receive
  <2>2. Len(channel[s]) <= Max /\ Len(channel[s]) \in Nat /\ Len(Tail(channel[s])) = Len(channel[s]) - 1
    BY <1>0, <2>1 DEF ChannelsBounded
  <2>3. Len(Tail(channel[s])) <= Max
    BY <1>0, <2>2
  <2>4. QED
    BY <1>2, <2>1, <2>3
<1>7. ASSUME NEW s \in Streams, Unsubscribe(s) PROVE ChannelsBounded'
  <2>1. channel' = [channel EXCEPT ![s] = <<>>] /\ Len(<<>>) <= Max
    BY <1>0, <1>7 DEF Unsubscribe
  <2>2. QED
    BY <1>2, <2>1
<1>8. CASE UNCHANGED brokerVars
  BY <1>1, <1>8 DEF brokerVars
<1>9. CASE WriterStep
  BY <1>1, <1>9 DEF WriterStep, CheckSubscribers, Enqueue, DropForAll, Drop, subscriberVars
<1>10. CASE DispatcherStep
  BY <1>1, <1>4, <1>5, <1>10 DEF DispatcherStep, TakeLine, Dispatch, SkipOffer, subscriberVars
<1>11. ASSUME NEW s \in Streams, HandlerStep(s) PROVE ChannelsBounded'
  BY <1>1, <1>6, <1>7, <1>11 DEF HandlerStep, Written, SeeClosed, Leave, subscriberVars
<1>12. ASSUME NEW k \in Kinds, Publish([line |-> published + 1, kind |-> k]) PROVE ChannelsBounded'
  BY <1>1, <1>12 DEF Publish, subscriberVars
<1>13. ASSUME NEW s \in Streams, NEW filter \in Filters, Subscribe(s, filter) PROVE ChannelsBounded'
  BY <1>1, <1>13 DEF Subscribe
<1>14. CASE CloseSubscriptions \/ StopDispatcher
  BY <1>1, <1>14 DEF CloseSubscriptions, StopDispatcher, subscriberVars
<1>15. QED
  BY <1>8, <1>9, <1>10, <1>11, <1>12, <1>13, <1>14 DEF BrokerNext

LEMMA NextSubscribers ==
    ASSUME SubscribersBounded, [BrokerNext]_brokerVars
    PROVE  SubscribersBounded'
<1>0. /\ IsFiniteSet(subscribers) /\ Cardinality(subscribers) <= MaximumStreams
      /\ Cardinality(subscribers) \in Nat /\ MaximumStreams \in Nat
  BY FS_CardinalityType, BrokerAssumption DEF SubscribersBounded
<1>1. CASE UNCHANGED subscribers
  BY <1>0, <1>1 DEF SubscribersBounded
<1>2. ASSUME NEW s, NEW filter, Subscribe(s, filter) PROVE SubscribersBounded'
  <2>1. CASE ~(Cardinality(subscribers) < MaximumStreams /\ subscribers' = subscribers \cup {s})
    BY <1>1, <1>2, <2>1 DEF Subscribe
  <2>2. CASE Cardinality(subscribers) < MaximumStreams /\ subscribers' = subscribers \cup {s}
    <3>1. /\ IsFiniteSet(subscribers')
          /\ Cardinality(subscribers') = Cardinality(subscribers)
                \/ Cardinality(subscribers') = Cardinality(subscribers) + 1
      BY <1>0, <2>2, FS_AddElement
    <3>2. QED
      BY <1>0, <2>2, <3>1 DEF SubscribersBounded
  <2>3. QED
    BY <2>1, <2>2
<1>3. ASSUME NEW s, Unsubscribe(s) PROVE SubscribersBounded'
  <2>1. subscribers' = subscribers \ {s}
    BY <1>3 DEF Unsubscribe
  <2>2. IsFiniteSet(subscribers') /\ Cardinality(subscribers') <= Cardinality(subscribers)
        /\ Cardinality(subscribers') \in Nat
    BY <1>0, <2>1, FS_Subset, FS_CardinalityType
  <2>3. QED
    BY <1>0, <2>2 DEF SubscribersBounded
<1>4. CASE CloseSubscriptions
  BY <1>0, <1>4, FS_EmptySet DEF CloseSubscriptions, SubscribersBounded
<1>5. CASE UNCHANGED brokerVars
  BY <1>1, <1>5 DEF brokerVars
<1>6. CASE WriterStep
  BY <1>1, <1>6 DEF WriterStep, CheckSubscribers, Enqueue, DropForAll, Drop, subscriberVars
<1>7. CASE DispatcherStep
  BY <1>1, <1>7 DEF DispatcherStep, TakeLine, Dispatch, SkipOffer, OfferReport, SendRecord, subscriberVars
<1>8. ASSUME NEW s \in Streams, HandlerStep(s) PROVE SubscribersBounded'
  BY <1>1, <1>3, <1>8 DEF HandlerStep, Receive, Written, SeeClosed, Leave, subscriberVars
<1>9. ASSUME NEW k \in Kinds, Publish([line |-> published + 1, kind |-> k]) PROVE SubscribersBounded'
  BY <1>1, <1>9 DEF Publish, subscriberVars
<1>10. CASE StopDispatcher
  BY <1>1, <1>10 DEF StopDispatcher, subscriberVars
<1>11. QED
  BY <1>2, <1>4, <1>5, <1>6, <1>7, <1>8, <1>9, <1>10 DEF BrokerNext

(* The state of the broker always has the declared shape, and none of its  *)
(* three buffers grows beyond its limit: the queue its bytes, the broker   *)
(* its subscribers, a subscriber's channel its capacity (Publish, run,     *)
(* deliver, Subscribe, Close and the stream handlers).                     *)
THEOREM BrokerTypeCorrect == BrokerSpec => [](BrokerTypeOK /\ BuffersBounded)
<1> DEFINE Inv == BrokerTypeInv /\ ChannelsBounded /\ SubscribersBounded
<1>1. BrokerInit => Inv
  BY InitBrokerType, InitBounded
<1>2. Inv /\ [BrokerNext]_brokerVars => Inv'
  BY NextBrokerType, NextChannels, NextSubscribers
<1>3. Inv => BrokerTypeOK /\ BuffersBounded
  BY DEF BrokerTypeInv, QueueBudget, ChannelsBounded, SubscribersBounded, BuffersBounded
<1>4. QED
  BY <1>1, <1>2, <1>3, PTL DEF BrokerSpec

(* The byte count of the queue is the sum of the lengths of the queued     *)
(* lines and stays within DispatchQueueBytes: enqueue and run keep         *)
(* Broker.queueBytes exact, so that the budget never leaks away.           *)
THEOREM QueueWithinBudget == BrokerSpec => []QueueBudget
<1>1. BrokerTypeInv => QueueBudget
  BY DEF BrokerTypeInv
<1>2. QED
  BY <1>1, InitBrokerType, NextBrokerType, PTL DEF BrokerSpec

-----------------------------------------------------------------------------
(* What the steps of a stream handler do, field by field.                  *)

HandsKept == \A s \in Streams : handler[s].hand # Nothing <=> handler[s].pc = "writing"

LEMMA HandlerFields ==
    ASSUME NEW h \in HandlerType, NEW pc, NEW filter, NEW hand, NEW written
    PROVE  /\ [h EXCEPT !.pc = pc].pc = pc /\ [h EXCEPT !.pc = pc].filter = h.filter
           /\ [h EXCEPT !.pc = pc].hand = h.hand /\ [h EXCEPT !.pc = pc].written = h.written
           /\ LET k == [h EXCEPT !.pc = pc, !.filter = filter]
              IN  k.pc = pc /\ k.filter = filter /\ k.hand = h.hand /\ k.written = h.written
           /\ LET k == [h EXCEPT !.pc = pc, !.hand = hand]
              IN  k.pc = pc /\ k.filter = h.filter /\ k.hand = hand /\ k.written = h.written
           /\ LET k == [h EXCEPT !.pc = pc, !.hand = hand, !.written = written]
              IN  k.pc = pc /\ k.filter = h.filter /\ k.hand = hand /\ k.written = written
BY DEF HandlerType

(* The handler of s has the given fields now, and the others' are as they  *)
(* were.                                                                   *)
HandlerNow(s, pc, filter, hand, written) ==
    /\ handler'[s].pc = pc /\ handler'[s].filter = filter
    /\ handler'[s].hand = hand /\ handler'[s].written = written
    /\ \A t \in Streams : t # s => handler'[t] = handler[t]

LEMMA SubscribeShape ==
    ASSUME BrokerTypeOK, NEW s \in Streams, NEW filter \in Filters, Subscribe(s, filter)
    PROVE  /\ handler[s].pc = "new" /\ ~ReadLocked
           /\ UNCHANGED <<published, writer, queue, queueBytes, dispatcher, closed, stopped, channel,
                          dropped>>
           /\ \/ /\ HandlerNow(s, "ended", handler[s].filter, handler[s].hand, handler[s].written)
                 /\ UNCHANGED subscribers
              \/ /\ HandlerNow(s, "reading", filter, handler[s].hand, handler[s].written)
                 /\ subscribers' = subscribers \cup {s} /\ ~closed
<1> DEFINE h == handler[s]
           ended == [h EXCEPT !.pc = "ended"]
           open == [h EXCEPT !.pc = "reading", !.filter = filter]
<1>1. handler \in [Streams -> HandlerType] /\ h \in HandlerType
  BY DEF BrokerTypeOK
<1>2. /\ handler[s].pc = "new" /\ ~ReadLocked
      /\ UNCHANGED <<published, writer, queue, queueBytes, dispatcher, closed, stopped, channel, dropped>>
      /\ \/ handler' = [handler EXCEPT ![s] = ended] /\ UNCHANGED subscribers
         \/ handler' = [handler EXCEPT ![s] = open] /\ subscribers' = subscribers \cup {s} /\ ~closed
  BY DEF Subscribe, queueVars
<1> HIDE DEF h
<1>3. /\ ended.pc = "ended" /\ ended.filter = h.filter /\ ended.hand = h.hand
      /\ ended.written = h.written
      /\ open.pc = "reading" /\ open.filter = filter /\ open.hand = h.hand /\ open.written = h.written
  BY <1>1, HandlerFields
<1> HIDE DEF ended, open
<1>4. QED
  BY <1>1, <1>2, <1>3 DEF HandlerNow, h

LEMMA ReceiveShape ==
    ASSUME BrokerTypeOK, NEW s \in Streams, Receive(s)
    PROVE  /\ handler[s].pc = "reading" /\ channel[s] # <<>>
           /\ UNCHANGED <<published, writer, queue, queueBytes, dispatcher, closed, stopped,
                          subscribers, dropped>>
           /\ HandlerNow(s, "writing", handler[s].filter, Head(channel[s]), handler[s].written)
           /\ channel' = [channel EXCEPT ![s] = Tail(channel[s])]
<1> DEFINE h == handler[s]
           m == Head(channel[s])
           new == [h EXCEPT !.pc = "writing", !.hand = m]
<1>1. handler \in [Streams -> HandlerType] /\ h \in HandlerType
  BY DEF BrokerTypeOK
<1>2. /\ handler[s].pc = "reading" /\ channel[s] # <<>> /\ handler' = [handler EXCEPT ![s] = new]
      /\ UNCHANGED <<published, writer, queue, queueBytes, dispatcher, closed, stopped, subscribers,
                     dropped>>
      /\ channel' = [channel EXCEPT ![s] = Tail(channel[s])]
  BY DEF Receive, queueVars
<1> HIDE DEF h, m
<1>3. new.pc = "writing" /\ new.filter = h.filter /\ new.hand = m /\ new.written = h.written
  BY <1>1, HandlerFields
<1> HIDE DEF new
<1>4. QED
  BY <1>1, <1>2, <1>3 DEF HandlerNow, h, m

LEMMA WrittenShape ==
    ASSUME BrokerTypeOK, NEW s \in Streams, Written(s)
    PROVE  /\ handler[s].pc = "writing"
           /\ UNCHANGED <<published, writer, queue, queueBytes, dispatcher, closed, stopped,
                          subscribers, dropped, channel>>
           /\ HandlerNow(s, "reading", handler[s].filter, Nothing,
                         Append(handler[s].written, handler[s].hand))
<1> DEFINE h == handler[s]
           w == Append(handler[s].written, handler[s].hand)
           new == [h EXCEPT !.pc = "reading", !.hand = Nothing, !.written = w]
<1>1. handler \in [Streams -> HandlerType] /\ h \in HandlerType
  BY DEF BrokerTypeOK
<1>2. /\ handler[s].pc = "writing" /\ handler' = [handler EXCEPT ![s] = new]
      /\ UNCHANGED <<published, writer, queue, queueBytes, dispatcher, closed, stopped, subscribers,
                     dropped, channel>>
  BY DEF Written, queueVars, subscriberVars
<1> HIDE DEF h, w
<1>3. new.pc = "reading" /\ new.filter = h.filter /\ new.hand = Nothing /\ new.written = w
  BY <1>1, HandlerFields
<1> HIDE DEF new
<1>4. QED
  BY <1>1, <1>2, <1>3 DEF HandlerNow, h, w

(* SeeClosed and Leave: the handler lets go of what it holds.              *)
LEMMA LeavingShape ==
    ASSUME BrokerTypeOK, HandsKept, NEW s \in Streams, SeeClosed(s) \/ Leave(s)
    PROVE  /\ handler[s].pc \in {"reading", "writing"}
           /\ UNCHANGED <<published, writer, queue, queueBytes, dispatcher, closed, stopped,
                          subscribers, dropped, channel>>
           /\ HandlerNow(s, "leaving", handler[s].filter, Nothing, handler[s].written)
<1> DEFINE h == handler[s]
           seen == [h EXCEPT !.pc = "leaving"]
           left == [h EXCEPT !.pc = "leaving", !.hand = Nothing]
<1>1. handler \in [Streams -> HandlerType] /\ h \in HandlerType
  BY DEF BrokerTypeOK
<1>2. /\ handler[s].pc \in {"reading", "writing"}
      /\ \/ handler' = [handler EXCEPT ![s] = seen] /\ handler[s].pc = "reading"
         \/ handler' = [handler EXCEPT ![s] = left]
      /\ UNCHANGED <<published, writer, queue, queueBytes, dispatcher, closed, stopped, subscribers,
                     dropped, channel>>
  BY DEF SeeClosed, Leave, queueVars, subscriberVars
<1>3. handler[s].pc = "reading" => h.hand = Nothing
  BY DEF HandsKept
<1> HIDE DEF h
<1>4. /\ seen.pc = "leaving" /\ seen.filter = h.filter /\ seen.hand = h.hand
      /\ seen.written = h.written
      /\ left.pc = "leaving" /\ left.filter = h.filter /\ left.hand = Nothing
      /\ left.written = h.written
  BY <1>1, HandlerFields
<1> HIDE DEF seen, left
<1>5. QED
  BY <1>1, <1>2, <1>3, <1>4 DEF HandlerNow, h

LEMMA UnsubscribeShape ==
    ASSUME BrokerTypeOK, NEW s \in Streams, Unsubscribe(s)
    PROVE  /\ handler[s].pc = "leaving" /\ ~ReadLocked
           /\ UNCHANGED <<published, writer, queue, queueBytes, dispatcher, closed, stopped>>
           /\ HandlerNow(s, "ended", handler[s].filter, handler[s].hand, handler[s].written)
           /\ subscribers' = subscribers \ {s}
           /\ channel' = [channel EXCEPT ![s] = <<>>] /\ dropped' = [dropped EXCEPT ![s] = 0]
<1> DEFINE h == handler[s]
           new == [h EXCEPT !.pc = "ended"]
<1>1. handler \in [Streams -> HandlerType] /\ h \in HandlerType
  BY DEF BrokerTypeOK
<1>2. /\ handler[s].pc = "leaving" /\ ~ReadLocked /\ handler' = [handler EXCEPT ![s] = new]
      /\ UNCHANGED <<published, writer, queue, queueBytes, dispatcher, closed, stopped>>
      /\ subscribers' = subscribers \ {s}
      /\ channel' = [channel EXCEPT ![s] = <<>>] /\ dropped' = [dropped EXCEPT ![s] = 0]
  BY DEF Unsubscribe, queueVars
<1> HIDE DEF h
<1>3. new.pc = "ended" /\ new.filter = h.filter /\ new.hand = h.hand /\ new.written = h.written
  BY <1>1, HandlerFields
<1> HIDE DEF new
<1>4. QED
  BY <1>1, <1>2, <1>3 DEF HandlerNow, h

-----------------------------------------------------------------------------
(* The control invariant.  A walk over the subscribers (dispatch,          *)
(* dropForAll) only meets streams that are still subscribed, because       *)
(* unsubscribe and Close wait for the read lock; between the two sends of  *)
(* deliver the counter of that subscriber stays 0, because drop waits for  *)
(* subscriber.mu.                                                          *)

StreamsSound ==
    /\ HandsKept
    /\ \A s \in Streams : handler[s].pc = "new" =>
          channel[s] = <<>> /\ dropped[s] = 0 /\ handler[s].written = <<>>
    /\ \A s \in subscribers : handler[s].pc \in {"reading", "writing", "leaving"}

WriterSound ==
    /\ writer.pc # "idle" => writer.line.line = published
    /\ writer.pc = "drop" => writer.todo \subseteq subscribers

DispatcherSound ==
    /\ dispatcher.pc # "wait" => dispatcher.line \in LineType /\ dispatcher.todo \subseteq subscribers
    /\ dispatcher.pc = "send" =>
          /\ dispatcher.at \in dispatcher.todo /\ dropped[dispatcher.at] = 0
          /\ dispatcher.line.kind \in handler[dispatcher.at].filter

ClosedSound == (stopped => closed) /\ (closed => subscribers = {})

ControlInv == StreamsSound /\ WriterSound /\ DispatcherSound /\ ClosedSound

LEMMA InitControl ==
    ASSUME BrokerInit
    PROVE  ControlInv
<1>1. StreamsSound
  BY DEF BrokerInit, StreamsSound, HandsKept, NewHandler, Nothing
<1>2. WriterSound /\ DispatcherSound /\ ClosedSound
  BY DEF BrokerInit, WriterSound, DispatcherSound, ClosedSound, IdleWriter, IdleDispatcher
<1>3. QED
  BY <1>1, <1>2 DEF ControlInv

LEMMA OfferedFields ==
    ASSUME BrokerTypeOK, NEW s
    PROVE  \/ dispatcher.todo = {s} /\ Offered(s) = IdleDispatcher
           \/ /\ dispatcher.todo # {s} /\ Offered(s).pc = "offer" /\ Offered(s).at = "nobody"
              /\ Offered(s).line = dispatcher.line /\ Offered(s).todo = dispatcher.todo \ {s}
BY DEF BrokerTypeOK, Offered

LEMMA SendingFields ==
    ASSUME BrokerTypeOK, NEW s, dispatcher' = [dispatcher EXCEPT !.pc = "send", !.at = s]
    PROVE  /\ dispatcher'.pc = "send" /\ dispatcher'.at = s
           /\ dispatcher'.line = dispatcher.line /\ dispatcher'.todo = dispatcher.todo
BY DEF BrokerTypeOK

LEMMA IdleFields ==
    /\ IdleWriter.pc = "idle" /\ IdleWriter.todo = {}
    /\ IdleDispatcher.pc = "wait" /\ IdleDispatcher.line = NoLine /\ IdleDispatcher.todo = {}
BY DEF IdleWriter, IdleDispatcher

(* The line in the dispatcher's hands, when there is one, is a real one.   *)
LEMMA LineInHand ==
    ASSUME BrokerTypeOK
    PROVE  /\ dispatcher.line # NoLine => dispatcher.line \in LineType
           /\ dispatcher.line = NoLine => dispatcher.line \notin LineType
<1>1. dispatcher.line \in LineType \cup {NoLine}
  BY DEF BrokerTypeOK
<1>2. NoLine \notin LineType
  BY DEF NoLine, LineType
<1>3. QED
  BY <1>1, <1>2

(* CheckSubscribers, Enqueue and DropForAll move the writer alone, or with *)
(* the queue.                                                              *)
LEMMA WriterMoves ==
    ASSUME BrokerTypeOK
    PROVE  /\ CheckSubscribers =>
                /\ writer.pc = "check"
                /\ \/ writer' = IdleWriter /\ (closed \/ subscribers = {})
                   \/ /\ writer'.pc = "queue" /\ writer'.line = writer.line
                      /\ writer'.todo = writer.todo /\ ~closed
                /\ UNCHANGED <<published, queue, queueBytes, subscribers, dropped, channel, dispatcher,
                               closed, stopped, handler>>
           /\ Enqueue =>
                /\ writer.pc = "queue"
                /\ \/ stopped /\ writer' = IdleWriter /\ UNCHANGED queue
                   \/ /\ writer'.pc = "refused" /\ writer'.line = writer.line
                      /\ writer'.todo = writer.todo /\ UNCHANGED queue
                   \/ queue' = Append(queue, writer.line) /\ writer' = IdleWriter
                /\ UNCHANGED <<published, subscribers, dropped, channel, dispatcher, closed, stopped,
                               handler>>
           /\ DropForAll =>
                /\ writer.pc = "refused"
                /\ \/ writer' = IdleWriter /\ subscribers = {}
                   \/ /\ writer'.pc = "drop" /\ writer'.line = writer.line
                      /\ writer'.todo = subscribers
                /\ UNCHANGED <<published, queue, queueBytes, subscribers, dropped, channel, dispatcher,
                               closed, stopped, handler>>
<1> DEFINE w == writer
<1>1. /\ [w EXCEPT !.pc = "queue"].pc = "queue" /\ [w EXCEPT !.pc = "queue"].line = w.line
      /\ [w EXCEPT !.pc = "queue"].todo = w.todo
      /\ [w EXCEPT !.pc = "refused"].pc = "refused" /\ [w EXCEPT !.pc = "refused"].line = w.line
      /\ [w EXCEPT !.pc = "refused"].todo = w.todo
      /\ [w EXCEPT !.pc = "drop", !.todo = subscribers].pc = "drop"
      /\ [w EXCEPT !.pc = "drop", !.todo = subscribers].line = w.line
      /\ [w EXCEPT !.pc = "drop", !.todo = subscribers].todo = subscribers
  BY DEF BrokerTypeOK
<1>2. CheckSubscribers =>
        /\ writer.pc = "check"
        /\ \/ writer' = IdleWriter /\ (closed \/ subscribers = {})
           \/ writer' = [w EXCEPT !.pc = "queue"] /\ ~closed
        /\ UNCHANGED <<published, queue, queueBytes, subscribers, dropped, channel, dispatcher,
                       closed, stopped, handler>>
  BY DEF CheckSubscribers, queueVars, subscriberVars
<1>3. Enqueue =>
        /\ writer.pc = "queue"
        /\ \/ stopped /\ writer' = IdleWriter /\ UNCHANGED queue
           \/ writer' = [w EXCEPT !.pc = "refused"] /\ UNCHANGED queue
           \/ queue' = Append(queue, writer.line) /\ writer' = IdleWriter
        /\ UNCHANGED <<published, subscribers, dropped, channel, dispatcher, closed, stopped, handler>>
  BY DEF Enqueue, queueVars, subscriberVars
<1>4. DropForAll =>
        /\ writer.pc = "refused"
        /\ \/ writer' = IdleWriter /\ subscribers = {}
           \/ writer' = [w EXCEPT !.pc = "drop", !.todo = subscribers]
        /\ UNCHANGED <<published, queue, queueBytes, subscribers, dropped, channel, dispatcher,
                       closed, stopped, handler>>
  BY DEF DropForAll, queueVars, subscriberVars
<1>5. QED
  BY <1>1, <1>2, <1>3, <1>4

LEMMA DropMoves ==
    ASSUME BrokerTypeOK, NEW s \in Streams, Drop(s)
    PROVE  /\ writer.pc = "drop" /\ s \in writer.todo /\ ~SubscriberLocked(s)
           /\ \/ writer' = IdleWriter /\ writer.todo = {s}
              \/ /\ writer'.pc = "drop" /\ writer'.line = writer.line
                 /\ writer'.todo = writer.todo \ {s}
           /\ dropped' = [dropped EXCEPT ![s] = dropped[s] + 1]
           /\ UNCHANGED <<published, queue, queueBytes, subscribers, channel, dispatcher, closed,
                          stopped, handler>>
<1>1. /\ writer.pc = "drop" /\ s \in writer.todo /\ ~SubscriberLocked(s)
      /\ \/ writer' = IdleWriter /\ writer.todo = {s}
         \/ writer' = [writer EXCEPT !.todo = writer.todo \ {s}]
      /\ dropped' = [dropped EXCEPT ![s] = dropped[s] + 1]
      /\ UNCHANGED <<published, queue, queueBytes, subscribers, channel, dispatcher, closed, stopped,
                     handler>>
  BY DEF Drop, queueVars
<1>2. /\ [writer EXCEPT !.todo = writer.todo \ {s}].pc = writer.pc
      /\ [writer EXCEPT !.todo = writer.todo \ {s}].line = writer.line
      /\ [writer EXCEPT !.todo = writer.todo \ {s}].todo = writer.todo \ {s}
  BY DEF BrokerTypeOK
<1>3. QED
  BY <1>1, <1>2

LEMMA TakeMoves ==
    ASSUME BrokerTypeOK, TakeLine
    PROVE  /\ dispatcher.pc = "wait" /\ dispatcher.line = NoLine /\ queue # <<>>
           /\ dispatcher'.pc = "wait" /\ dispatcher'.line = Head(queue)
           /\ dispatcher'.todo = dispatcher.todo /\ queue' = Tail(queue)
           /\ UNCHANGED <<published, writer, subscribers, dropped, channel, closed, stopped, handler>>
<1> DEFINE l == Head(queue)
<1>1. /\ dispatcher.pc = "wait" /\ dispatcher.line = NoLine /\ queue # <<>>
      /\ dispatcher' = [dispatcher EXCEPT !.line = l] /\ queue' = Tail(queue)
      /\ UNCHANGED <<published, writer, subscribers, dropped, channel, closed, stopped, handler>>
  BY DEF TakeLine, subscriberVars
<1> HIDE DEF l
<1>2. /\ [dispatcher EXCEPT !.line = l].pc = dispatcher.pc /\ [dispatcher EXCEPT !.line = l].line = l
      /\ [dispatcher EXCEPT !.line = l].todo = dispatcher.todo
  BY DEF BrokerTypeOK
<1>3. QED
  BY <1>1, <1>2 DEF l

LEMMA DispatchMoves ==
    ASSUME BrokerTypeOK, Dispatch
    PROVE  /\ dispatcher.pc = "wait" /\ dispatcher.line # NoLine
           /\ \/ dispatcher' = IdleDispatcher /\ (closed \/ subscribers = {})
              \/ /\ dispatcher'.pc = "offer" /\ dispatcher'.line = dispatcher.line
                 /\ dispatcher'.todo = subscribers
           /\ UNCHANGED <<published, writer, queue, queueBytes, subscribers, dropped, channel, closed,
                          stopped, handler>>
<1>1. /\ dispatcher.pc = "wait" /\ dispatcher.line # NoLine
      /\ \/ dispatcher' = IdleDispatcher /\ (closed \/ subscribers = {})
         \/ dispatcher' = [dispatcher EXCEPT !.pc = "offer", !.todo = subscribers]
      /\ UNCHANGED <<published, writer, queue, queueBytes, subscribers, dropped, channel, closed,
                     stopped, handler>>
  BY DEF Dispatch, queueVars, subscriberVars
<1>2. /\ [dispatcher EXCEPT !.pc = "offer", !.todo = subscribers].pc = "offer"
      /\ [dispatcher EXCEPT !.pc = "offer", !.todo = subscribers].line = dispatcher.line
      /\ [dispatcher EXCEPT !.pc = "offer", !.todo = subscribers].todo = subscribers
  BY DEF BrokerTypeOK
<1>3. QED
  BY <1>1, <1>2

LEMMA OfferMoves ==
    ASSUME BrokerTypeOK, NEW s \in Streams, SkipOffer(s) \/ OfferReport(s)
    PROVE  /\ dispatcher.pc = "offer" /\ s \in dispatcher.todo
           /\ \/ /\ dispatcher.line.kind \notin handler[s].filter
                 /\ dispatcher' = Offered(s) /\ UNCHANGED <<channel, dropped>>
              \/ /\ dispatcher.line.kind \in handler[s].filter /\ dropped[s] = 0
                 /\ dispatcher' = [dispatcher EXCEPT !.pc = "send", !.at = s]
                 /\ UNCHANGED <<channel, dropped>>
              \/ /\ dispatcher.line.kind \in handler[s].filter /\ dropped[s] > 0
                 /\ dispatcher' = [dispatcher EXCEPT !.pc = "send", !.at = s]
                 /\ channel' = [channel EXCEPT ![s] = Append(channel[s], DroppedMessage(dropped[s]))]
                 /\ dropped' = [dropped EXCEPT ![s] = 0]
              \/ /\ dispatcher.line.kind \in handler[s].filter /\ dropped[s] > 0
                 /\ dispatcher' = Offered(s) /\ UNCHANGED channel
                 /\ dropped' = [dropped EXCEPT ![s] = dropped[s] + 1]
           /\ UNCHANGED <<published, writer, queue, queueBytes, subscribers, closed, stopped, handler>>
BY DEF SkipOffer, OfferReport, queueVars, subscriberVars

LEMMA SendMoves ==
    ASSUME BrokerTypeInv, SendRecord
    PROVE  /\ dispatcher.pc = "send" /\ dispatcher.at \in Streams /\ dispatcher' = Offered(dispatcher.at)
           /\ LET s == dispatcher.at
              IN  \/ /\ channel' = [channel EXCEPT ![s] = Append(channel[s], RecordMessage(dispatcher.line))]
                     /\ UNCHANGED dropped
                  \/ /\ dropped' = [dropped EXCEPT ![s] = dropped[s] + 1]
                     /\ UNCHANGED channel
           /\ UNCHANGED <<published, writer, queue, queueBytes, subscribers, closed, stopped, handler>>
BY DEF SendRecord, queueVars, BrokerTypeInv

LEMMA NextControl ==
    ASSUME BrokerTypeInv, ControlInv, [BrokerNext]_brokerVars
    PROVE  ControlInv'
<1>0. BrokerTypeOK /\ StreamsSound /\ WriterSound /\ DispatcherSound /\ ClosedSound
  BY DEF BrokerTypeInv, ControlInv
<1>t. /\ dropped \in [Streams -> Nat] /\ channel \in [Streams -> Seq(MessageType)]
      /\ subscribers \subseteq Streams /\ writer.todo \subseteq Streams
      /\ dispatcher.todo \subseteq Streams
  BY <1>0 DEF BrokerTypeOK
<1>1. CASE UNCHANGED brokerVars
  BY <1>0, <1>1 DEF brokerVars, ControlInv, StreamsSound, HandsKept, WriterSound, DispatcherSound,
                    ClosedSound
(* The streams are left alone. *)
<1>2. ASSUME UNCHANGED <<handler, channel, dropped, subscribers, closed, stopped>>
      PROVE  StreamsSound' /\ ClosedSound'
  BY <1>0, <1>2 DEF StreamsSound, HandsKept, ClosedSound
<1>3. ASSUME UNCHANGED <<dispatcher, handler, dropped, subscribers>>
      PROVE  DispatcherSound'
  BY <1>0, <1>3 DEF DispatcherSound
<1>4. ASSUME NEW k \in Kinds, Publish([line |-> published + 1, kind |-> k])
      PROVE  ControlInv'
  <2> DEFINE l == [line |-> published + 1, kind |-> k]
  <2>1. Publish(l)
    BY <1>4
  <2> HIDE DEF l
  <2>2. WriterSound'
    BY <2>1 DEF Publish, WriterSound
  <2>3. QED
    BY <1>2, <1>3, <2>1, <2>2 DEF Publish, subscriberVars, ControlInv
<1>5. ASSUME CheckSubscribers \/ Enqueue \/ DropForAll
      PROVE  ControlInv'
  <2>1. WriterSound'
    BY <1>0, <1>5, WriterMoves, IdleFields DEF WriterSound
  <2>2. QED
    BY <1>0, <1>2, <1>3, <1>5, <2>1, WriterMoves DEF ControlInv
<1>6. ASSUME NEW s \in Streams, Drop(s)
      PROVE  ControlInv'
  <2>0. /\ writer.pc = "drop" /\ s \in writer.todo /\ ~SubscriberLocked(s)
        /\ writer' = IdleWriter \/ (writer'.line = writer.line /\ writer'.todo = writer.todo \ {s})
        /\ dropped' = [dropped EXCEPT ![s] = dropped[s] + 1]
        /\ UNCHANGED <<published, subscribers, channel, dispatcher, closed, stopped, handler>>
    BY <1>0, <1>6, DropMoves
  <2>1. WriterSound'
    BY <1>0, <2>0, IdleFields DEF WriterSound
  <2>2. StreamsSound'
    <3>1. handler[s].pc # "new"
      BY <1>0, <2>0 DEF WriterSound, StreamsSound
    <3>2. QED
      BY <1>0, <1>t, <2>0, <3>1 DEF StreamsSound, HandsKept
  <2>3. DispatcherSound'
    BY <1>0, <1>t, <2>0 DEF DispatcherSound, SubscriberLocked
  <2>4. QED
    BY <1>0, <2>0, <2>1, <2>2, <2>3 DEF ControlInv, ClosedSound
<1>7. ASSUME TakeLine \/ Dispatch
      PROVE  ControlInv'
  <2>1. DispatcherSound'
    <3>1. CASE TakeLine
      BY <1>0, <3>1, TakeMoves DEF DispatcherSound
    <3>2. CASE Dispatch
      <4>1. dispatcher.line \in LineType
        BY <1>0, <3>2, LineInHand, DispatchMoves
      <4>2. QED
        BY <1>0, <3>2, <4>1, DispatchMoves, IdleFields DEF DispatcherSound
    <3>3. QED
      BY <1>7, <3>1, <3>2
  <2>2. UNCHANGED <<published, writer, subscribers, dropped, channel, closed, stopped, handler>>
    BY <1>0, <1>7, TakeMoves, DispatchMoves
  <2>3. QED
    BY <1>0, <1>2, <2>1, <2>2 DEF ControlInv, WriterSound
<1>8. ASSUME NEW s \in Streams, SkipOffer(s) \/ OfferReport(s)
      PROVE  ControlInv'
  <2>0. /\ dispatcher.pc = "offer" /\ s \in dispatcher.todo /\ dispatcher.line \in LineType
        /\ dispatcher.todo \subseteq subscribers
        /\ UNCHANGED <<published, writer, subscribers, closed, stopped, handler>>
        /\ \/ dispatcher' = Offered(s)
           \/ /\ dispatcher' = [dispatcher EXCEPT !.pc = "send", !.at = s]
              /\ dispatcher.line.kind \in handler[s].filter
              /\ \/ dropped[s] = 0 /\ UNCHANGED dropped
                 \/ dropped' = [dropped EXCEPT ![s] = 0]
    BY <1>0, <1>8, OfferMoves DEF DispatcherSound
  <2>1. \A t \in Streams : t # s => channel'[t] = channel[t] /\ dropped'[t] = dropped[t]
    BY <1>0, <1>t, <1>8, OfferMoves, ZenonT(40)
  <2>2. StreamsSound'
    <3>1. handler[s].pc # "new"
      BY <1>0, <2>0 DEF StreamsSound
    <3>2. QED
      BY <1>0, <2>0, <2>1, <3>1 DEF StreamsSound, HandsKept
  <2>3. DispatcherSound'
    <3>1. CASE dispatcher' = Offered(s)
      BY <1>0, <2>0, <3>1, OfferedFields, IdleFields DEF DispatcherSound
    <3>2. CASE dispatcher' = [dispatcher EXCEPT !.pc = "send", !.at = s] /\ dropped'[s] = 0
               /\ dispatcher.line.kind \in handler[s].filter
      <4>1. /\ dispatcher'.pc = "send" /\ dispatcher'.at = s
            /\ dispatcher'.line = dispatcher.line /\ dispatcher'.todo = dispatcher.todo
        BY <1>0, <3>2, SendingFields
      <4>2. QED
        BY <2>0, <3>2, <4>1 DEF DispatcherSound
    <3>3. QED
      BY <1>t, <2>0, <3>1, <3>2
  <2>4. QED
    BY <1>0, <2>0, <2>2, <2>3 DEF ControlInv, WriterSound, ClosedSound
<1>9. ASSUME SendRecord
      PROVE  ControlInv'
  <2> DEFINE s == dispatcher.at
  <2>0. /\ dispatcher.pc = "send" /\ s \in Streams /\ dispatcher' = Offered(s)
        /\ dispatcher.line \in LineType /\ dispatcher.todo \subseteq subscribers /\ s \in subscribers
        /\ UNCHANGED <<published, writer, subscribers, closed, stopped, handler>>
    BY <1>0, <1>9, SendMoves DEF DispatcherSound
  <2>1. \A t \in Streams : t # s => channel'[t] = channel[t] /\ dropped'[t] = dropped[t]
    BY <1>0, <1>t, <1>9, SendMoves
  <2> HIDE DEF s
  <2>2. StreamsSound'
    <3>1. handler[s].pc # "new"
      BY <1>0, <2>0 DEF StreamsSound
    <3>2. QED
      BY <1>0, <2>0, <2>1, <3>1 DEF StreamsSound, HandsKept
  <2>3. DispatcherSound'
    BY <1>0, <2>0, OfferedFields, IdleFields DEF DispatcherSound
  <2>4. QED
    BY <1>0, <2>0, <2>2, <2>3 DEF ControlInv, WriterSound, ClosedSound
<1>10. ASSUME NEW s \in Streams, NEW filter \in Filters, Subscribe(s, filter)
       PROVE  ControlInv'
  <2>0. /\ handler[s].pc = "new" /\ ~ReadLocked
        /\ UNCHANGED <<published, writer, dispatcher, closed, stopped, channel, dropped>>
        /\ handler'[s].pc \in {"reading", "ended"} /\ handler'[s].hand = handler[s].hand
        /\ \/ handler'[s].pc = "reading" /\ subscribers' = subscribers \cup {s} /\ ~closed
           \/ UNCHANGED subscribers
        /\ \A t \in Streams : t # s => handler'[t] = handler[t]
    BY <1>0, <1>10, SubscribeShape DEF HandlerNow
  <2>1. s \notin subscribers
    BY <1>0, <2>0 DEF StreamsSound
  <2>2. StreamsSound'
    BY <1>0, <1>t, <2>0, <2>1 DEF StreamsSound, HandsKept
  <2>3. QED
    BY <1>0, <2>0, <2>2 DEF ControlInv, WriterSound, DispatcherSound, ClosedSound, ReadLocked
<1>11. ASSUME NEW s \in Streams, HandlerStep(s)
       PROVE  ControlInv'
  <2>1. ASSUME UNCHANGED <<published, writer, dispatcher, closed, stopped>>,
               \A t \in Streams : t # s => handler'[t] = handler[t],
               handler'[s].filter = handler[s].filter,
               handler[s].pc # "new", handler'[s].pc # "new",
               handler'[s].hand # Nothing <=> handler'[s].pc = "writing",
               \A t \in Streams : t # s => channel'[t] = channel[t] /\ dropped'[t] = dropped[t],
               \/ handler'[s].pc # "ended" /\ UNCHANGED <<subscribers, dropped>>
               \/ subscribers' = subscribers \ {s} /\ ~ReadLocked,
               handler'[s].pc \in {"reading", "writing", "leaving", "ended"}
        PROVE  ControlInv'
    <3>1. StreamsSound'
      <4>1. HandsKept'
        BY <1>0, <2>1 DEF StreamsSound, HandsKept
      <4>2. \A t \in Streams : handler'[t].pc = "new" =>
               channel'[t] = <<>> /\ dropped'[t] = 0 /\ handler'[t].written = <<>>
        BY <1>0, <2>1 DEF StreamsSound
      <4>3. \A t \in subscribers' : handler'[t].pc \in {"reading", "writing", "leaving"}
        BY <1>0, <1>t, <2>1 DEF StreamsSound
      <4>4. QED
        BY <4>1, <4>2, <4>3 DEF StreamsSound
    <3>2. DispatcherSound' /\ WriterSound' /\ ClosedSound'
      BY <1>0, <1>t, <2>1 DEF DispatcherSound, WriterSound, ClosedSound, ReadLocked
    <3>3. QED
      BY <3>1, <3>2 DEF ControlInv
  <2>2. HandsKept
    BY <1>0 DEF StreamsSound
  <2>3. CASE Receive(s)
    <3>1. Head(channel[s]) # Nothing
      <4>1. Head(channel[s]) \in MessageType
        BY <1>t, <2>3 DEF Receive
      <4>2. QED
        BY <4>1 DEF MessageType, Nothing
    <3>2. QED
      BY <1>0, <1>t, <2>1, <2>3, <3>1, ReceiveShape DEF HandlerNow
  <2>4. CASE Written(s)
    BY <1>0, <2>1, <2>4, WrittenShape DEF HandlerNow
  <2>5. CASE SeeClosed(s) \/ Leave(s)
    BY <1>0, <2>1, <2>2, <2>5, LeavingShape DEF HandlerNow
  <2>6. CASE Unsubscribe(s)
    <3>1. handler[s].hand = Nothing
      BY <1>0, <2>2, <2>6, UnsubscribeShape DEF HandsKept
    <3>2. QED
      BY <1>0, <1>t, <2>1, <2>6, <3>1, UnsubscribeShape DEF HandlerNow
  <2>7. QED
    BY <1>11, <2>3, <2>4, <2>5, <2>6 DEF HandlerStep
<1>12. CASE CloseSubscriptions
  BY <1>0, <1>12 DEF CloseSubscriptions, queueVars, ReadLocked, ControlInv, StreamsSound, HandsKept,
                     WriterSound, DispatcherSound, ClosedSound
<1>13. CASE StopDispatcher
  BY <1>0, <1>13 DEF StopDispatcher, subscriberVars, ControlInv, StreamsSound, HandsKept,
                     WriterSound, DispatcherSound, ClosedSound
<1>14. QED
  BY <1>1, <1>4, <1>5, <1>6, <1>7, <1>8, <1>9, <1>10, <1>11, <1>12, <1>13
     DEF BrokerNext, WriterStep, DispatcherStep

-----------------------------------------------------------------------------
(* What a stream has accepted: what was written to its client, the message *)
(* in the handler's hand and the channel, in this order.                   *)

(* The numbers of the records among the messages q.                        *)
Shown(q) == {n \in Nat : \E i \in DOMAIN q : q[i].kind = "record" /\ q[i].line = n}

LEMMA ConcatMoves ==
    ASSUME NEW M, NEW w \in Seq(M), NEW h \in Seq(M), NEW c \in Seq(M), NEW m \in M
    PROVE  /\ (w \o <<m>>) \o c = (Append(w, m) \o <<>>) \o c
           /\ (w \o h) \o Append(c, m) = Append((w \o h) \o c, m)
           /\ c # <<>> => (w \o <<>>) \o c = (w \o <<Head(c)>>) \o Tail(c)
<1>1. w \o <<m>> = Append(w, m) /\ Append(w, m) \in Seq(M)
  BY AppendProperties
<1>2. Append(w, m) \o <<>> = Append(w, m) /\ w \o <<>> = w
  BY <1>1, ConcatEmptySeq
<1>3. (w \o h) \o Append(c, m) = Append((w \o h) \o c, m)
  <2> DEFINE wh == w \o h
  <2>1. wh \in Seq(M)
    BY ConcatProperties
  <2> HIDE DEF wh
  <2>2. Append(c, m) = c \o <<m>> /\ <<m>> \in Seq(M)
    BY AppendProperties
  <2>3. wh \o (c \o <<m>>) = (wh \o c) \o <<m>>
    BY <2>1, <2>2, ConcatAssociative
  <2>4. wh \o c \in Seq(M)
    BY <2>1, ConcatProperties
  <2>5. (wh \o c) \o <<m>> = Append(wh \o c, m)
    BY <2>4, AppendProperties
  <2>6. QED
    BY <2>2, <2>3, <2>5 DEF wh
<1>4. ASSUME c # <<>>
      PROVE  w \o c = (w \o <<Head(c)>>) \o Tail(c)
  <2>1. Head(c) \in M /\ Tail(c) \in Seq(M)
    BY <1>4, HeadTailProperties
  <2>2. <<Head(c)>> \in Seq(M)
    BY <2>1
  <2>3. c = <<Head(c)>> \o Tail(c)
    BY <1>4, HeadTailProperties
  <2>4. w \o (<<Head(c)>> \o Tail(c)) = (w \o <<Head(c)>>) \o Tail(c)
    BY <2>1, <2>2, ConcatAssociative
  <2>5. QED
    BY <2>3, <2>4
<1>5. QED
  BY <1>1, <1>2, <1>3, <1>4

LEMMA ShownGrows ==
    ASSUME NEW q \in Seq(MessageType), NEW m \in MessageType
    PROVE  /\ Shown(<<>>) = {}
           /\ \A n \in Shown(Append(q, m)) : n \in Shown(q) \/ (m.kind = "record" /\ n = m.line)
           /\ \A i \in DOMAIN q : q[i].kind = "record" => q[i].line \in Shown(q)
<1>1. Shown(<<>>) = {}
  BY DEF Shown
<1>2. ASSUME NEW n \in Shown(Append(q, m))
      PROVE  n \in Shown(q) \/ (m.kind = "record" /\ n = m.line)
  <2>1. PICK i \in DOMAIN Append(q, m) : Append(q, m)[i].kind = "record" /\ Append(q, m)[i].line = n
    BY DEF Shown
  <2>2. n \in Nat
    BY DEF Shown
  <2>3. \/ i \in DOMAIN q /\ Append(q, m)[i] = q[i]
        \/ Append(q, m)[i] = m
    BY <2>1, AppendProperties
  <2>4. QED
    BY <2>1, <2>2, <2>3 DEF Shown
<1>3. ASSUME NEW i \in DOMAIN q, q[i].kind = "record"
      PROVE  q[i].line \in Shown(q)
  <2> DEFINE e == q[i]
  <2>1. e \in MessageType /\ e.kind = "record"
    BY <1>3
  <2> HIDE DEF e
  <2>2. e.line \in Nat
    BY <2>1 DEF MessageType
  <2>3. QED
    BY <1>3, <2>2 DEF Shown, e
<1>4. QED
  BY <1>1, <1>2, <1>3

LEMMA AcceptedType ==
    ASSUME BrokerTypeOK, NEW s \in Streams
    PROVE  Accepted(s) \in Seq(MessageType)
<1> DEFINE w == handler[s].written
           h == IF handler[s].hand = Nothing THEN <<>> ELSE <<handler[s].hand>>
           c == channel[s]
<1>1. handler[s] \in HandlerType /\ c \in Seq(MessageType)
  BY DEF BrokerTypeOK
<1>2. w \in Seq(MessageType) /\ handler[s].hand \in MessageType \cup {Nothing}
  BY <1>1 DEF HandlerType
<1>3. h \in Seq(MessageType)
  BY <1>2
<1> HIDE DEF w, h, c
<1>4. w \o h \in Seq(MessageType)
  BY <1>2, <1>3, ConcatProperties
<1>5. (w \o h) \o c \in Seq(MessageType) /\ <<>> \in Seq(MessageType)
  BY <1>1, <1>4, ConcatProperties
<1>6. QED
  BY <1>5 DEF Accepted, w, h, c

LEMMA AcceptedSame ==
    ASSUME NEW s, handler'[s] = handler[s], channel'[s] = channel[s]
    PROVE  Accepted(s)' = Accepted(s)
BY DEF Accepted, Leaving

(* A message is sent on the channel.                                       *)
LEMMA AcceptedSent ==
    ASSUME BrokerTypeOK, NEW s \in Streams, NEW m \in MessageType, handler' = handler,
           channel'[s] = Append(channel[s], m), ~Leaving(s)
    PROVE  Accepted(s)' = Append(Accepted(s), m)
<1> DEFINE w == handler[s].written
           h == IF handler[s].hand = Nothing THEN <<>> ELSE <<handler[s].hand>>
           c == channel[s]
<1>1. handler[s] \in HandlerType /\ c \in Seq(MessageType)
  BY DEF BrokerTypeOK
<1>2. w \in Seq(MessageType) /\ handler[s].hand \in MessageType \cup {Nothing}
  BY <1>1 DEF HandlerType
<1>3. h \in Seq(MessageType)
  BY <1>2
<1>4. Accepted(s) = (w \o h) \o c /\ Accepted(s)' = (w \o h) \o Append(c, m)
  BY DEF Accepted, Leaving
<1> HIDE DEF w, h, c
<1>5. (w \o h) \o Append(c, m) = Append((w \o h) \o c, m)
  BY <1>1, <1>2, <1>3, ConcatMoves
<1>6. QED
  BY <1>4, <1>5

(* Taking a message from the channel and writing it to the client changes  *)
(* nothing that was accepted.                                              *)
LEMMA AcceptedRead ==
    ASSUME BrokerTypeInv, HandsKept, NEW s \in Streams, Receive(s) \/ Written(s)
    PROVE  Accepted(s)' = Accepted(s)
<1> DEFINE w == handler[s].written
           c == channel[s]
           g == handler[s].hand
<1>0. BrokerTypeOK
  BY DEF BrokerTypeInv
<1>1. handler[s] \in HandlerType /\ c \in Seq(MessageType)
  BY <1>0 DEF BrokerTypeOK
<1>2. w \in Seq(MessageType) /\ g \in MessageType \cup {Nothing}
  BY <1>1 DEF HandlerType
<1>3. CASE Receive(s)
  <2>1. /\ handler[s].pc = "reading" /\ c # <<>> /\ handler'[s].pc = "writing"
        /\ handler'[s].hand = Head(c) /\ handler'[s].written = w /\ channel'[s] = Tail(c)
        /\ channel' = [channel EXCEPT ![s] = Tail(c)]
    BY <1>0, <1>3, ReceiveShape DEF HandlerNow, BrokerTypeOK
  <2>2. Head(c) \in MessageType
    BY <1>1, <2>1, HeadTailProperties
  <2>3. Head(c) # Nothing /\ g = Nothing
    BY <2>1, <2>2 DEF MessageType, Nothing, HandsKept
  <2>4. Accepted(s) = (w \o <<>>) \o c /\ Accepted(s)' = (w \o <<Head(c)>>) \o Tail(c)
    BY <2>1, <2>3 DEF Accepted, Leaving
  <2> HIDE DEF w, c, g
  <2>5. (w \o <<>>) \o c = (w \o <<Head(c)>>) \o Tail(c)
    BY <1>1, <1>2, <2>1, <2>2, ConcatMoves
  <2>6. QED
    BY <2>4, <2>5
<1>4. CASE Written(s)
  <2>1. /\ handler[s].pc = "writing" /\ handler'[s].pc = "reading" /\ handler'[s].hand = Nothing
        /\ handler'[s].written = Append(w, g) /\ channel'[s] = c
    BY <1>0, <1>4, WrittenShape DEF HandlerNow
  <2>2. g # Nothing /\ g \in MessageType
    BY <1>2, <2>1 DEF HandsKept
  <2>3. Accepted(s) = (w \o <<g>>) \o c /\ Accepted(s)' = (Append(w, g) \o <<>>) \o c
    BY <2>1, <2>2 DEF Accepted, Leaving
  <2> HIDE DEF w, c, g
  <2>4. (w \o <<g>>) \o c = (Append(w, g) \o <<>>) \o c
    BY <1>1, <1>2, <2>2, ConcatMoves
  <2>5. QED
    BY <2>3, <2>4
<1>5. QED
  BY <1>3, <1>4

-----------------------------------------------------------------------------
(* The order invariant: what a stream was shown, the line in the           *)
(* dispatcher's hands, the queue and the line in the writer's hands come   *)
(* in publication order.                                                   *)

(* n is older than the line that is being published, if one is.            *)
Published(n) == n <= published /\ (writer.pc # "idle" => n < published)

QueueOrdered ==
    /\ \A i, j \in DOMAIN queue : i < j => queue[i].line < queue[j].line
    /\ \A i \in DOMAIN queue : Published(queue[i].line)

DispatcherOrdered ==
    dispatcher.line # NoLine =>
        /\ Published(dispatcher.line.line)
        /\ \A i \in DOMAIN queue : dispatcher.line.line < queue[i].line

(* The dispatcher has still to settle its line for s.                      *)
StillOffered(s) == dispatcher.line # NoLine /\ (dispatcher.pc = "wait" \/ s \in dispatcher.todo)

ShownOrdered ==
    \A s \in Streams : \A n \in Shown(Accepted(s)) :
        /\ Published(n)
        /\ \A i \in DOMAIN queue : n < queue[i].line
        /\ dispatcher.line # NoLine => n <= dispatcher.line.line
        /\ StillOffered(s) => n < dispatcher.line.line

OrderInv == QueueOrdered /\ DispatcherOrdered /\ ShownOrdered

LEMMA ShownType == \A q : \A n \in Shown(q) : n \in Nat
BY DEF Shown

LEMMA InitOrder ==
    ASSUME BrokerInit
    PROVE  OrderInv
<1>1. QueueOrdered /\ DispatcherOrdered
  BY IdleFields DEF BrokerInit, QueueOrdered, DispatcherOrdered
<1>2. ASSUME NEW s \in Streams
      PROVE  Accepted(s) = <<>>
  <2>1. handler[s] = NewHandler /\ channel[s] = <<>>
    BY DEF BrokerInit
  <2>2. handler[s].written = <<>> /\ handler[s].hand = Nothing
    BY <2>1 DEF NewHandler
  <2>3. QED
    BY <2>1, <2>2 DEF Accepted
<1>3. Shown(<<>>) = {}
  BY DEF Shown
<1>4. ShownOrdered
  BY <1>2, <1>3 DEF ShownOrdered
<1>5. QED
  BY <1>1, <1>4 DEF OrderInv

(* Nothing but the accepted messages decides what a stream was shown.      *)
LEMMA NoNewShown ==
    ASSUME ShownOrdered, UNCHANGED <<published, writer, queue, dispatcher>>,
           \A s \in Streams : Accepted(s)' = Accepted(s) \/ Shown(Accepted(s)') = {}
    PROVE  ShownOrdered'
<1>1. SUFFICES ASSUME NEW s \in Streams, NEW n \in Shown(Accepted(s)')
               PROVE  /\ Published(n)
                      /\ \A i \in DOMAIN queue : n < queue[i].line
                      /\ dispatcher.line # NoLine => n <= dispatcher.line.line
                      /\ StillOffered(s) => n < dispatcher.line.line
  BY DEF ShownOrdered, Published, StillOffered
<1>2. n \in Shown(Accepted(s))
  BY <1>1
<1>3. QED
  BY <1>2 DEF ShownOrdered

LEMMA NextOrder ==
    ASSUME BrokerTypeInv, ControlInv, OrderInv, [BrokerNext]_brokerVars
    PROVE  OrderInv'
<1>0. /\ BrokerTypeOK /\ StreamsSound /\ WriterSound /\ DispatcherSound /\ ClosedSound
      /\ QueueOrdered /\ DispatcherOrdered /\ ShownOrdered /\ HandsKept
  BY DEF BrokerTypeInv, ControlInv, OrderInv, StreamsSound
<1>t. /\ published \in Nat /\ queue \in Seq(LineType) /\ \A i \in DOMAIN queue : queue[i].line \in Nat
      /\ dispatcher.line # NoLine => dispatcher.line.line \in Nat
      /\ writer.pc # "idle" => writer.line \in LineType
  <2>1. published \in Nat /\ queue \in Seq(LineType) /\ (writer.pc # "idle" => writer.line \in LineType)
    BY DEF BrokerTypeInv, BrokerTypeOK
  <2>2. \A i \in DOMAIN queue : queue[i] \in LineType
    BY <2>1
  <2>3. \A l \in LineType : l.line \in Nat
    BY DEF LineType
  <2>4. QED
    BY <1>0, <2>1, <2>2, <2>3, LineInHand
<1>e. Shown(<<>>) = {}
  BY DEF Shown
<1>1. ASSUME UNCHANGED <<published, writer, queue, dispatcher>>,
             \A s \in Streams : Accepted(s)' = Accepted(s) \/ Accepted(s)' = <<>>
      PROVE  OrderInv'
  <2>1. QueueOrdered' /\ DispatcherOrdered'
    BY <1>0, <1>1 DEF QueueOrdered, DispatcherOrdered, Published
  <2>2. \A s \in Streams : Accepted(s)' = Accepted(s) \/ Shown(Accepted(s)') = {}
    BY <1>1, <1>e
  <2>3. QED
    BY <1>0, <1>1, <2>1, <2>2, NoNewShown DEF OrderInv
<1>2. ASSUME UNCHANGED <<handler, channel>>
      PROVE  \A s \in Streams : Accepted(s)' = Accepted(s)
  BY <1>2, AcceptedSame
<1>3. CASE UNCHANGED brokerVars
  BY <1>1, <1>2, <1>3 DEF brokerVars
(* Nothing is in the queue or on the way that was not there.               *)
<1>4. ASSUME UNCHANGED <<handler, channel, queue, dispatcher>>,
             \A n \in Nat : Published(n) => Published(n)'
      PROVE  OrderInv'
  <2>1. QueueOrdered' /\ DispatcherOrdered'
    BY <1>0, <1>t, <1>4 DEF QueueOrdered, DispatcherOrdered
  <2>2. ShownOrdered'
    BY <1>0, <1>2, <1>4, ShownType DEF ShownOrdered, StillOffered
  <2>3. QED
    BY <2>1, <2>2 DEF OrderInv
<1>5. ASSUME NEW k \in Kinds, Publish([line |-> published + 1, kind |-> k])
      PROVE  OrderInv'
  <2>1. /\ published' = published + 1 /\ UNCHANGED <<handler, channel, queue, dispatcher>>
        /\ writer.pc = "idle"
    BY <1>5 DEF Publish, queueVars, subscriberVars
  <2>2. \A n \in Nat : Published(n) => Published(n)'
    BY <1>t, <2>1 DEF Published
  <2>3. QED
    BY <1>4, <2>1, <2>2
<1>6. ASSUME CheckSubscribers \/ DropForAll \/ (Enqueue /\ queue' = queue) \/ \E s \in Streams : Drop(s)
      PROVE  OrderInv'
  <2>1. UNCHANGED <<published, handler, channel, queue, dispatcher>> /\ writer.pc # "idle"
    BY <1>0, <1>6, WriterMoves, DropMoves
  <2>2. \A n \in Nat : Published(n) => Published(n)'
    BY <1>t, <2>1 DEF Published
  <2>3. QED
    BY <1>4, <2>1, <2>2
<1>7. ASSUME Enqueue, queue' # queue
      PROVE  OrderInv'
  <2>1. /\ writer.pc = "queue" /\ queue' = Append(queue, writer.line) /\ writer'.pc = "idle"
        /\ UNCHANGED <<published, handler, channel, dispatcher>>
    BY <1>0, <1>7, WriterMoves, IdleFields
  <2>2. /\ writer.line \in LineType /\ writer.line.line = published
    BY <1>0, <1>t, <2>1 DEF WriterSound
  <2>3. /\ DOMAIN queue' = 1..(Len(queue) + 1) /\ DOMAIN queue = 1..Len(queue) /\ Len(queue) \in Nat
        /\ queue'[Len(queue) + 1].line = published
        /\ \A i \in DOMAIN queue : queue'[i] = queue[i]
    BY <1>t, <2>1, <2>2
  <2>4. \A n \in Nat : Published(n) => Published(n)' /\ n < published
    BY <1>t, <2>1 DEF Published
  <2>5. QueueOrdered'
    <3>1. ASSUME NEW i \in DOMAIN queue', NEW j \in DOMAIN queue', i < j
          PROVE  queue'[i].line < queue'[j].line
      <4>1. i \in DOMAIN queue
        BY <2>3, <3>1
      <4>2. CASE j \in DOMAIN queue
        BY <1>0, <2>3, <3>1, <4>1, <4>2 DEF QueueOrdered
      <4>3. CASE j = Len(queue) + 1
        BY <1>0, <1>t, <2>3, <2>4, <4>1, <4>3 DEF QueueOrdered
      <4>4. QED
        BY <2>3, <4>2, <4>3
    <3>2. ASSUME NEW i \in DOMAIN queue'
          PROVE  Published(queue[i].line)'
      <4>1. CASE i \in DOMAIN queue
        BY <1>0, <1>t, <2>1, <2>3, <4>1 DEF QueueOrdered, Published
      <4>2. CASE i = Len(queue) + 1
        BY <1>t, <2>1, <2>3, <4>2 DEF Published
      <4>3. QED
        BY <2>3, <4>1, <4>2
    <3>3. QED
      BY <3>1, <3>2 DEF QueueOrdered
  <2>6. ASSUME NEW n \in Nat, Published(n), \A i \in DOMAIN queue : n < queue[i].line
        PROVE  \A i \in DOMAIN queue' : n < queue'[i].line
    BY <2>3, <2>4, <2>6
  <2>7. DispatcherOrdered'
    BY <1>0, <1>t, <2>1, <2>4, <2>6 DEF DispatcherOrdered
  <2>8. ShownOrdered'
    <3>1. \A s \in Streams : Accepted(s)' = Accepted(s)
      BY <1>2, <2>1
    <3>2. QED
      BY <1>0, <2>1, <2>4, <2>6, <3>1, ShownType DEF ShownOrdered, StillOffered
  <2>9. QED
    BY <2>5, <2>7, <2>8 DEF OrderInv
<1>8. CASE TakeLine
  <2>1. /\ dispatcher.pc = "wait" /\ dispatcher.line = NoLine /\ queue # <<>>
        /\ dispatcher'.pc = "wait" /\ dispatcher'.line = Head(queue) /\ queue' = Tail(queue)
        /\ UNCHANGED <<published, writer, channel, handler>>
    BY <1>0, <1>8, TakeMoves
  <2>2. /\ Len(queue) \in Nat /\ Len(queue) >= 1 /\ DOMAIN queue = 1..Len(queue)
        /\ DOMAIN queue' = 1..(Len(queue) - 1) /\ Head(queue) = queue[1]
        /\ \A i \in 1..(Len(queue) - 1) : queue'[i] = queue[i + 1]
    BY <1>t, <2>1
  <2>3. 1 \in DOMAIN queue /\ \A i \in DOMAIN queue' : i \in Int /\ i + 1 \in DOMAIN queue /\ 1 < i + 1
    BY <2>2
  <2>4. QueueOrdered'
    <3>1. ASSUME NEW i \in DOMAIN queue', NEW j \in DOMAIN queue', i < j
          PROVE  queue'[i].line < queue'[j].line
      <4>1. i + 1 < j + 1
        BY <2>3, <3>1
      <4>2. QED
        BY <1>0, <2>2, <2>3, <4>1 DEF QueueOrdered
    <3>2. ASSUME NEW i \in DOMAIN queue'
          PROVE  Published(queue[i].line)'
      BY <1>0, <2>1, <2>2, <2>3 DEF QueueOrdered, Published
    <3>3. QED
      BY <3>1, <3>2 DEF QueueOrdered
  <2>5. DispatcherOrdered'
    <3>1. Published(dispatcher.line.line)'
      BY <1>0, <2>1, <2>2, <2>3 DEF QueueOrdered, Published
    <3>2. \A i \in DOMAIN queue' : queue[1].line < queue'[i].line
      BY <1>0, <2>2, <2>3 DEF QueueOrdered
    <3>3. QED
      BY <2>1, <2>2, <3>1, <3>2 DEF DispatcherOrdered
  <2>6. ShownOrdered'
    <3>1. SUFFICES ASSUME NEW s \in Streams, NEW n \in Shown(Accepted(s)')
                   PROVE  /\ Published(n)'
                          /\ \A i \in DOMAIN queue' : n < queue'[i].line
                          /\ n < dispatcher'.line.line /\ n <= dispatcher'.line.line
      BY DEF ShownOrdered
    <3>2. n \in Shown(Accepted(s))
      BY <1>2, <2>1
    <3>3. Published(n) /\ n \in Nat /\ \A i \in DOMAIN queue : n < queue[i].line
      BY <1>0, <3>2, ShownType DEF ShownOrdered
    <3>4. n < queue[1].line /\ queue[1].line \in Nat
      BY <1>t, <2>3, <3>3
    <3>5. QED
      BY <2>1, <2>2, <2>3, <3>3, <3>4 DEF Published
  <2>7. QED
    BY <2>4, <2>5, <2>6 DEF OrderInv
(* The dispatcher's line stays or is settled, and the streams accept       *)
(* nothing but its record.                                                 *)
<1>9. ASSUME UNCHANGED <<published, writer, queue, handler>>,
             dispatcher'.line = NoLine \/ dispatcher'.line = dispatcher.line,
             \A s \in Streams : \A n \in Shown(Accepted(s)') :
                \/ n \in Shown(Accepted(s)) /\ (StillOffered(s)' => StillOffered(s))
                \/ dispatcher.line # NoLine /\ n = dispatcher.line.line /\ ~StillOffered(s)'
      PROVE  OrderInv'
  <2>1. QueueOrdered' /\ DispatcherOrdered'
    BY <1>0, <1>9 DEF QueueOrdered, DispatcherOrdered, Published
  <2>2. ASSUME NEW s \in Streams, NEW n \in Shown(Accepted(s)')
        PROVE  /\ Published(n)
               /\ \A i \in DOMAIN queue : n < queue[i].line
               /\ dispatcher'.line # NoLine => n <= dispatcher'.line.line
               /\ StillOffered(s)' => n < dispatcher'.line.line
    <3>1. CASE n \in Shown(Accepted(s)) /\ (StillOffered(s)' => StillOffered(s))
      <4>1. StillOffered(s)' => dispatcher'.line # NoLine
        BY DEF StillOffered
      <4>2. QED
        BY <1>0, <1>9, <3>1, <4>1 DEF ShownOrdered
    <3>2. CASE dispatcher.line # NoLine /\ n = dispatcher.line.line /\ ~StillOffered(s)'
      BY <1>0, <1>t, <1>9, <3>2 DEF DispatcherOrdered
    <3>3. QED
      BY <1>9, <3>1, <3>2
  <2>3. ShownOrdered'
    BY <1>9, <2>2 DEF ShownOrdered, Published
  <2>4. QED
    BY <2>1, <2>3 DEF OrderInv
<1>10. CASE Dispatch
  <2>1. /\ UNCHANGED <<published, writer, queue, handler, channel>>
        /\ dispatcher'.line = NoLine \/ dispatcher'.line = dispatcher.line
        /\ dispatcher.pc = "wait" /\ dispatcher.line # NoLine
    BY <1>0, <1>10, DispatchMoves, IdleFields
  <2>2. \A s \in Streams : StillOffered(s)
    BY <2>1 DEF StillOffered
  <2>3. QED
    BY <1>2, <1>9, <2>1, <2>2
<1>o. ASSUME NEW s \in Streams, dispatcher.pc # "wait", dispatcher.line # NoLine, dispatcher' = Offered(s)
      PROVE  /\ dispatcher'.line = NoLine \/ dispatcher'.line = dispatcher.line
             /\ ~StillOffered(s)'
             /\ \A t \in Streams : StillOffered(t)' => StillOffered(t)
  <2>1. CASE dispatcher' = IdleDispatcher
    BY <2>1, IdleFields DEF StillOffered
  <2>2. CASE /\ dispatcher'.pc = "offer" /\ dispatcher'.line = dispatcher.line
             /\ dispatcher'.todo = dispatcher.todo \ {s}
    BY <1>o, <2>2 DEF StillOffered
  <2>3. QED
    BY <1>0, <1>o, <2>1, <2>2, OfferedFields
<1>11. ASSUME NEW s \in Streams, SkipOffer(s) \/ OfferReport(s)
       PROVE  OrderInv'
  <2>0. /\ dispatcher.pc = "offer" /\ dispatcher.line # NoLine
        /\ UNCHANGED <<published, writer, queue, handler>>
        /\ \/ dispatcher' = Offered(s)
           \/ dispatcher' = [dispatcher EXCEPT !.pc = "send", !.at = s]
    BY <1>0, <1>11, OfferMoves, LineInHand DEF DispatcherSound
  <2>1. /\ dispatcher'.line = NoLine \/ dispatcher'.line = dispatcher.line
        /\ \A t \in Streams : StillOffered(t)' => StillOffered(t)
    <3>1. CASE dispatcher' = Offered(s)
      BY <1>o, <2>0, <3>1
    <3>2. CASE dispatcher' = [dispatcher EXCEPT !.pc = "send", !.at = s]
      BY <1>0, <3>2, SendingFields DEF StillOffered
    <3>3. QED
      BY <2>0, <3>1, <3>2
  <2>2. ASSUME NEW t \in Streams
        PROVE  \A n \in Shown(Accepted(t)') : n \in Shown(Accepted(t))
    <3>1. CASE channel'[t] = channel[t]
      BY <2>0, <3>1, AcceptedSame
    <3>2. CASE t = s /\ channel' = [channel EXCEPT ![s] = Append(channel[s], DroppedMessage(dropped[s]))]
      <4> DEFINE m == DroppedMessage(dropped[s])
      <4>1. m \in MessageType /\ m.kind # "record"
        BY <1>0 DEF BrokerTypeOK, DroppedMessage, MessageType
      <4>2. channel'[s] = Append(channel[s], m)
        BY <1>0, <3>2 DEF BrokerTypeOK
      <4> HIDE DEF m
      <4>3. CASE Leaving(s)
        BY <1>e, <2>0, <4>3, <3>2 DEF Accepted, Leaving
      <4>4. CASE ~Leaving(s)
        <5>1. Accepted(s)' = Append(Accepted(s), m) /\ Accepted(s) \in Seq(MessageType)
          BY <1>0, <2>0, <4>1, <4>2, <4>4, AcceptedSent, AcceptedType
        <5>2. \A n \in Shown(Append(Accepted(s), m)) : n \in Shown(Accepted(s))
          BY <4>1, <5>1, ShownGrows
        <5>3. QED
          BY <3>2, <5>1, <5>2
      <4>5. QED
        BY <4>3, <4>4
    <3>3. \/ channel' = channel
          \/ channel' = [channel EXCEPT ![s] = Append(channel[s], DroppedMessage(dropped[s]))]
      BY <1>0, <1>11, OfferMoves
    <3>4. t # s => channel'[t] = channel[t]
      BY <1>0, <3>3 DEF BrokerTypeOK
    <3>5. QED
      BY <3>1, <3>2, <3>3, <3>4
  <2>3. QED
    BY <1>9, <2>0, <2>1, <2>2
<1>12. CASE SendRecord
  <2>s. PICK s \in Streams : s = dispatcher.at
    BY <1>12, SendMoves
  <2>m. PICK m : m = RecordMessage(dispatcher.line)
    OBVIOUS
  <2>0. /\ dispatcher.pc = "send" /\ s \in Streams /\ dispatcher' = Offered(s)
        /\ dispatcher.line \in LineType /\ dispatcher.line # NoLine
        /\ UNCHANGED <<published, writer, queue, handler>>
        /\ channel' = [channel EXCEPT ![s] = Append(channel[s], m)] \/ UNCHANGED channel
    BY <1>0, <1>12, <2>s, <2>m, SendMoves, LineInHand DEF DispatcherSound
  <2>1. m \in MessageType /\ m.line = dispatcher.line.line
    BY <2>0, <2>m DEF RecordMessage, MessageType, LineType
  <2>2. /\ dispatcher'.line = NoLine \/ dispatcher'.line = dispatcher.line
        /\ ~StillOffered(s)'
        /\ \A t \in Streams : StillOffered(t)' => StillOffered(t)
    BY <1>o, <2>0
  <2>3. ASSUME NEW t \in Streams, NEW n \in Shown(Accepted(t)')
        PROVE  n \in Shown(Accepted(t)) \/ (t = s /\ n = dispatcher.line.line)
    <3>1. CASE channel'[t] = channel[t]
      BY <2>0, <2>3, <3>1, AcceptedSame
    <3>2. CASE t = s /\ channel' = [channel EXCEPT ![s] = Append(channel[s], m)]
      <4>1. channel'[s] = Append(channel[s], m)
        BY <1>0, <2>0, <3>2 DEF BrokerTypeOK
      <4>2. CASE Leaving(s)
        BY <1>e, <2>0, <2>3, <3>2, <4>2 DEF Accepted, Leaving
      <4>3. CASE ~Leaving(s)
        <5>1. Accepted(s)' = Append(Accepted(s), m) /\ Accepted(s) \in Seq(MessageType)
          BY <1>0, <2>0, <2>1, <4>1, <4>3, AcceptedSent, AcceptedType
        <5>2. \A k \in Shown(Append(Accepted(s), m)) : k \in Shown(Accepted(s)) \/ k = m.line
          BY <2>1, <5>1, ShownGrows
        <5>3. QED
          BY <2>1, <2>3, <3>2, <5>1, <5>2
      <4>4. QED
        BY <4>2, <4>3
    <3>3. QED
      BY <1>0, <2>0, <3>1, <3>2 DEF BrokerTypeOK
  <2>4. QED
    BY <1>9, <2>0, <2>2, <2>3
<1>13. ASSUME NEW s \in Streams, NEW filter \in Filters, Subscribe(s, filter)
       PROVE  OrderInv'
  <2>1. /\ UNCHANGED <<published, writer, queue, dispatcher, channel>>
        /\ handler'[s].hand = handler[s].hand /\ handler'[s].written = handler[s].written
        /\ handler[s].pc = "new"
        /\ \A t \in Streams : t # s => handler'[t] = handler[t]
    BY <1>0, <1>13, SubscribeShape DEF HandlerNow
  <2>2. \A t \in Streams : Accepted(t)' = Accepted(t) \/ Accepted(t)' = <<>>
    BY <2>1 DEF Accepted, Leaving
  <2>3. QED
    BY <1>1, <2>1, <2>2
<1>14. ASSUME NEW s \in Streams, HandlerStep(s)
       PROVE  OrderInv'
  <2>1. CASE Receive(s) \/ Written(s)
    <3>1. /\ UNCHANGED <<published, writer, queue, dispatcher>>
          /\ \A t \in Streams : t # s => handler'[t] = handler[t] /\ channel'[t] = channel[t]
      BY <1>0, <2>1, ReceiveShape, WrittenShape DEF HandlerNow, BrokerTypeOK
    <3>2. \A t \in Streams : Accepted(t)' = Accepted(t)
      BY <1>0, <2>1, <3>1, AcceptedRead, AcceptedSame
    <3>3. QED
      BY <1>1, <3>1, <3>2
  <2>2. CASE SeeClosed(s) \/ Leave(s) \/ Unsubscribe(s)
    <3>1. /\ UNCHANGED <<published, writer, queue, dispatcher>>
          /\ handler'[s].pc \in {"leaving", "ended"}
          /\ \A t \in Streams : t # s => handler'[t] = handler[t] /\ channel'[t] = channel[t]
      BY <1>0, <2>2, LeavingShape, UnsubscribeShape DEF HandlerNow, BrokerTypeOK
    <3>2. Accepted(s)' = <<>>
      BY <3>1 DEF Accepted, Leaving
    <3>3. \A t \in Streams : t # s => Accepted(t)' = Accepted(t)
      BY <3>1, AcceptedSame
    <3>4. QED
      BY <1>1, <3>1, <3>2, <3>3
  <2>3. QED
    BY <1>14, <2>1, <2>2 DEF HandlerStep
<1>15. CASE CloseSubscriptions
  BY <1>1, <1>2, <1>15 DEF CloseSubscriptions, queueVars
<1>16. CASE StopDispatcher
  <2>1. queue' = <<>> /\ UNCHANGED <<published, writer, dispatcher, channel, handler>>
    BY <1>16 DEF StopDispatcher, subscriberVars
  <2>2. DOMAIN queue' = {}
    BY <2>1
  <2>3. QueueOrdered' /\ DispatcherOrdered'
    BY <1>0, <2>1, <2>2 DEF QueueOrdered, DispatcherOrdered, Published
  <2>4. ShownOrdered'
    BY <1>0, <1>2, <2>1, <2>2 DEF ShownOrdered, StillOffered, Published
  <2>5. QED
    BY <2>3, <2>4 DEF OrderInv
<1>17. QED
  BY <1>3, <1>5, <1>6, <1>7, <1>8, <1>10, <1>11, <1>12, <1>13, <1>14, <1>15, <1>16
     DEF BrokerNext, WriterStep, DispatcherStep

-----------------------------------------------------------------------------
(* The refinement.  Each step of the broker is, for each stream, a step of *)
(* the lossy stream or leaves it alone.                                    *)

LEMMA PromiseSteps ==
    ASSUME NEW s \in Streams
    PROVE  /\ (/\ StreamState(s)' = StreamState(s) /\ Due(s)' = Due(s)
               /\ Lost(s)' = Lost(s) /\ Accepted(s)' = Accepted(s))
                 => Promise!Same(s)
           /\ (/\ StreamState(s) = "new" /\ StreamState(s)' = "open"
               /\ (\A d \in Due(s)' : d \in Nat)
               /\ Lost(s)' = Lost(s) /\ Accepted(s)' = Accepted(s))
                 => Promise!Subscribe(s)
           /\ (/\ StreamState(s) = "open" /\ StreamState(s)' = "draining" /\ Due(s)' = {}
               /\ Lost(s)' = Lost(s) /\ Accepted(s)' = Accepted(s))
                 => Promise!Close(s)
           /\ (/\ StreamState(s) # "ended" /\ StreamState(s)' = "ended" /\ Due(s)' = {}
               /\ Lost(s)' = 0 /\ Accepted(s)' = <<>>)
                 => Promise!End(s)
BY DEF Promise!Same, Promise!Subscribe, Promise!Close, Promise!End

LEMMA PromiseOwe ==
    ASSUME NEW s \in Streams, NEW l,
           StreamState(s) = "open", StreamState(s)' = "open",
           \A i \in DOMAIN Accepted(s) : Accepted(s)[i].kind = "record" => Accepted(s)[i].line < l,
           \A d \in Due(s) : d < l, Due(s)' = Due(s) \cup {l},
           Lost(s)' = Lost(s), Accepted(s)' = Accepted(s)
    PROVE  Promise!Owe(s)
<1>1. l \in Due(s)'
  OBVIOUS
<1>2. QED
  BY <1>1 DEF Promise!Owe, Promise!Later

LEMMA PromiseDeliver ==
    ASSUME NEW s \in Streams, NEW l \in Due(s),
           StreamState(s) = "open", StreamState(s)' = "open",
           \A i \in DOMAIN Accepted(s) : Accepted(s)[i].kind = "record" => Accepted(s)[i].line < l,
           \A d \in Due(s) : l <= d, Due(s)' = Due(s) \ {l},
           Lost(s) = 0, Lost(s)' = 0,
           Accepted(s)' = Append(Accepted(s), [kind |-> "record", line |-> l])
    PROVE  Promise!Deliver(s)
BY DEF Promise!Deliver, Promise!Later, Promise!RecordOf

LEMMA PromiseLose ==
    ASSUME NEW s \in Streams, StreamState(s) = "open", StreamState(s)' = "open",
           Lost(s)' = Lost(s) + 1, Accepted(s)' = Accepted(s)
    PROVE  /\ (\E l \in Due(s) : Due(s)' = Due(s) \ {l}) => Promise!Lose(s)
           /\ Due(s)' = Due(s) => Promise!OverCount(s)
BY DEF Promise!Lose, Promise!OverCount

LEMMA PromiseReport ==
    ASSUME NEW s \in Streams, StreamState(s) = "open", StreamState(s)' = "open",
           Lost(s) > 0, Lost(s)' = 0, Due(s)' = Due(s),
           Accepted(s)' = Append(Accepted(s), DroppedMessage(Lost(s)))
    PROVE  Promise!Report(s)
BY DEF Promise!Report, Promise!DroppedReport, DroppedMessage

(* What a stream is owed, member by member.                                *)
OwedLine(s, x) ==
    \/ \E i \in DOMAIN queue : x = queue[i]
    \/ StillOffered(s) /\ x = dispatcher.line
    \/ /\ writer.pc \in {"queue", "refused"} \/ (writer.pc = "drop" /\ s \in writer.todo)
       /\ x = writer.line

LEMMA DueMembers ==
    ASSUME NEW s
    PROVE  /\ StreamState(s) # "open" => Due(s) = {}
           /\ StreamState(s) = "open" =>
                \A d : d \in Due(s) <=> \E x : OwedLine(s, x) /\ x.kind \in handler[s].filter /\ d = x.line
<1>1. \A x : x \in OnTheWay(s) <=> OwedLine(s, x)
  BY DEF OnTheWay, OwedLine, StillOffered
<1>2. QED
  BY <1>1 DEF Due

LEMMA DueMembersNext ==
    ASSUME NEW s
    PROVE  /\ StreamState(s)' # "open" => Due(s)' = {}
           /\ StreamState(s)' = "open" =>
                \A d : d \in Due(s)' <=>
                          \E x : OwedLine(s, x)' /\ x.kind \in handler'[s].filter /\ d = x.line
<1>1. \A x : x \in OnTheWay(s)' <=> OwedLine(s, x)'
  BY DEF OnTheWay, OwedLine, StillOffered
<1>2. QED
  BY <1>1 DEF Due

(* The same lines are owed when the matching ones on their way are.        *)
LEMMA DueSame ==
    ASSUME NEW s, StreamState(s)' = StreamState(s),
           StreamState(s) = "open" =>
              /\ handler'[s].filter = handler[s].filter
              /\ \A x : x.kind \in handler[s].filter => (OwedLine(s, x)' <=> OwedLine(s, x))
    PROVE  Due(s)' = Due(s)
<1>1. CASE StreamState(s) # "open"
  BY <1>1, DueMembers, DueMembersNext
<1>2. CASE StreamState(s) = "open"
  <2>1. \A d : d \in Due(s)' <=> d \in Due(s)
    BY <1>2, DueMembers, DueMembersNext
  <2>2. QED
    BY <2>1
<1>3. QED
  BY <1>1, <1>2

(* One line less is owed.                                                  *)
LEMMA DueLess ==
    ASSUME NEW s, NEW l, StreamState(s) = "open", StreamState(s)' = "open",
           handler'[s].filter = handler[s].filter, l.kind \in handler[s].filter,
           OwedLine(s, l), \A x : OwedLine(s, x)' => OwedLine(s, x) /\ x.line # l.line,
           \A x : OwedLine(s, x) => OwedLine(s, x)' \/ x = l
    PROVE  l.line \in Due(s) /\ Due(s)' = Due(s) \ {l.line}
<1>1. l.line \in Due(s)
  BY DueMembers
<1>2. \A d : d \in Due(s)' <=> d \in Due(s) /\ d # l.line
  BY DueMembers, DueMembersNext
<1>3. QED
  BY <1>1, <1>2

StreamStep(s) ==
    \/ Promise!Subscribe(s) \/ Promise!Owe(s) \/ Promise!Deliver(s) \/ Promise!Lose(s)
    \/ Promise!OverCount(s) \/ Promise!Report(s) \/ Promise!Close(s) \/ Promise!End(s)
    \/ Promise!Same(s)

LEMMA StreamStates ==
    ASSUME NEW s
    PROVE  /\ StreamState(s) = "open" => ~Leaving(s) /\ s \in subscribers /\ handler[s].pc # "new"
           /\ (s \in subscribers /\ ~Leaving(s) /\ handler[s].pc # "new") => StreamState(s) = "open"
           /\ Leaving(s) <=> StreamState(s) = "ended"
           /\ handler[s].pc = "new" => StreamState(s) = "new"
BY DEF StreamState, Leaving

LEMMA StatesKept ==
    ASSUME NEW s, handler'[s].pc = handler[s].pc, s \in subscribers' <=> s \in subscribers
    PROVE  StreamState(s)' = StreamState(s)
BY DEF StreamState, Leaving

LEMMA NextStream ==
    ASSUME BrokerTypeInv, ControlInv, OrderInv, [BrokerNext]_brokerVars, NEW s \in Streams
    PROVE  StreamStep(s)
<1>0. /\ BrokerTypeOK /\ StreamsSound /\ WriterSound /\ DispatcherSound /\ ClosedSound
      /\ QueueOrdered /\ DispatcherOrdered /\ ShownOrdered /\ HandsKept
  BY DEF BrokerTypeInv, ControlInv, OrderInv, StreamsSound
<1>t. /\ published \in Nat /\ queue \in Seq(LineType) /\ \A i \in DOMAIN queue : queue[i] \in LineType
      /\ dispatcher.line # NoLine => dispatcher.line \in LineType
      /\ writer.pc # "idle" => writer.line \in LineType
      /\ \A l \in LineType : l.line \in Nat
      /\ dropped \in [Streams -> Nat] /\ channel \in [Streams -> Seq(MessageType)]
  <2>1. published \in Nat /\ queue \in Seq(LineType) /\ (writer.pc # "idle" => writer.line \in LineType)
        /\ dropped \in [Streams -> Nat] /\ channel \in [Streams -> Seq(MessageType)]
    BY DEF BrokerTypeInv, BrokerTypeOK
  <2>2. \A i \in DOMAIN queue : queue[i] \in LineType
    BY <2>1
  <2>3. \A l \in LineType : l.line \in Nat
    BY DEF LineType
  <2>4. QED
    BY <1>0, <2>1, <2>2, <2>3, LineInHand
(* A record later than all that s was shown. *)
<1>l. ASSUME NEW l, \A n \in Shown(Accepted(s)) : n < l
      PROVE  \A i \in DOMAIN Accepted(s) : Accepted(s)[i].kind = "record" => Accepted(s)[i].line < l
  <2>1. Accepted(s) \in Seq(MessageType)
    BY <1>0, AcceptedType
  <2>2. \A i \in DOMAIN Accepted(s) :
           Accepted(s)[i].kind = "record" => Accepted(s)[i].line \in Shown(Accepted(s))
    <3>1. DroppedMessage(0) \in MessageType
      BY DEF DroppedMessage, MessageType
    <3>2. QED
      BY <2>1, <3>1, ShownGrows
  <2>3. QED
    BY <1>l, <2>2
(* Only what is on the way changes, and not for an open stream. *)
<1>s. ASSUME UNCHANGED <<subscribers, dropped, channel, handler>>,
             StreamState(s) = "open" =>
                \A x : x.kind \in handler[s].filter => (OwedLine(s, x)' <=> OwedLine(s, x))
      PROVE  StreamStep(s)
  <2>1. StreamState(s)' = StreamState(s) /\ Accepted(s)' = Accepted(s) /\ Lost(s)' = Lost(s)
    BY <1>s, StatesKept, AcceptedSame DEF Lost, Leaving
  <2>2. Due(s)' = Due(s)
    BY <1>s, <2>1, DueSame
  <2>3. QED
    BY <2>1, <2>2, PromiseSteps DEF StreamStep
(* Nothing on the way changes, and nothing of this stream. *)
<1>f. ASSUME UNCHANGED <<writer, queue, dispatcher>>, handler'[s] = handler[s],
             channel'[s] = channel[s], dropped'[s] = dropped[s],
             s \in subscribers' <=> s \in subscribers
      PROVE  StreamStep(s)
  <2>1. StreamState(s)' = StreamState(s) /\ Accepted(s)' = Accepted(s) /\ Lost(s)' = Lost(s)
    BY <1>f, StatesKept, AcceptedSame DEF Lost, Leaving
  <2>2. \A x : OwedLine(s, x)' <=> OwedLine(s, x)
    BY <1>f DEF OwedLine, StillOffered
  <2>3. Due(s)' = Due(s)
    BY <1>f, <2>1, <2>2, DueSame
  <2>4. QED
    BY <2>1, <2>3, PromiseSteps DEF StreamStep
<1>1. CASE UNCHANGED brokerVars
  BY <1>1, <1>f DEF brokerVars
<1>2. ASSUME NEW k \in Kinds, Publish([line |-> published + 1, kind |-> k])
      PROVE  StreamStep(s)
  <2>1. /\ writer.pc = "idle" /\ writer'.pc = "check"
        /\ UNCHANGED <<queue, dispatcher, subscribers, dropped, channel, handler>>
    BY <1>2 DEF Publish, queueVars, subscriberVars
  <2>2. \A x : OwedLine(s, x)' <=> OwedLine(s, x)
    BY <2>1 DEF OwedLine, StillOffered
  <2>3. QED
    BY <1>s, <2>1, <2>2
<1>3. CASE CheckSubscribers
  <2>1. /\ writer.pc = "check"
        /\ UNCHANGED <<published, queue, dispatcher, subscribers, dropped, channel, handler>>
        /\ writer'.pc = "idle" \/ (writer'.pc = "queue" /\ writer'.line = writer.line)
    BY <1>0, <1>3, WriterMoves, IdleFields
  <2>2. CASE writer'.pc = "idle"
    <3>1. \A x : OwedLine(s, x)' <=> OwedLine(s, x)
      BY <2>1, <2>2 DEF OwedLine, StillOffered
    <3>2. QED
      BY <1>s, <2>1, <3>1
  <2>3. CASE writer'.pc = "queue" /\ writer'.line = writer.line
    <3>1. \A x : OwedLine(s, x)' <=> OwedLine(s, x) \/ x = writer.line
      BY <2>1, <2>3 DEF OwedLine, StillOffered
    <3>2. CASE StreamState(s) # "open" \/ writer.line.kind \notin handler[s].filter
      BY <1>s, <2>1, <3>1, <3>2
    <3>3. CASE StreamState(s) = "open" /\ writer.line.kind \in handler[s].filter
      <4>1. StreamState(s)' = StreamState(s) /\ Accepted(s)' = Accepted(s) /\ Lost(s)' = Lost(s)
        BY <2>1, StatesKept, AcceptedSame DEF Lost, Leaving
      <4>2. writer.line.line = published
        BY <1>0, <2>1 DEF WriterSound
      <4>3. \A n \in Shown(Accepted(s)) : n < published
        BY <1>0, <2>1 DEF ShownOrdered, Published
      <4>4. \A x : OwedLine(s, x) => x.line < published
        BY <1>0, <2>1 DEF OwedLine, StillOffered, QueueOrdered, DispatcherOrdered, Published
      <4>5. \A d \in Due(s) : d < published
        BY <3>3, <4>4, DueMembers
      <4>6. \A d : d \in Due(s)' <=> d \in Due(s) \/ d = published
        BY <2>1, <3>1, <3>3, <4>1, <4>2, DueMembers, DueMembersNext
      <4>7. Due(s)' = Due(s) \cup {published}
        BY <4>6
      <4>8. Promise!Owe(s)
        BY <1>l, <3>3, <4>1, <4>3, <4>5, <4>7, PromiseOwe
      <4>9. QED
        BY <4>8 DEF StreamStep
    <3>4. QED
      BY <3>2, <3>3
  <2>4. QED
    BY <2>1, <2>2, <2>3
<1>4. CASE Enqueue
  <2>1. /\ writer.pc = "queue" /\ UNCHANGED <<dispatcher, subscribers, dropped, channel, handler>>
        /\ \/ stopped /\ writer'.pc = "idle" /\ queue' = queue
           \/ writer'.pc = "refused" /\ writer'.line = writer.line /\ queue' = queue
           \/ queue' = Append(queue, writer.line) /\ writer'.pc = "idle"
    BY <1>0, <1>4, WriterMoves, IdleFields
  <2>2. CASE stopped
    BY <1>0, <1>s, <2>1, <2>2, StreamStates DEF ClosedSound
  <2>3. CASE writer'.pc = "refused" /\ writer'.line = writer.line /\ queue' = queue
    <3>1. \A x : OwedLine(s, x)' <=> OwedLine(s, x)
      BY <2>1, <2>3 DEF OwedLine, StillOffered
    <3>2. QED
      BY <1>s, <2>1, <3>1
  <2>4. CASE queue' = Append(queue, writer.line) /\ writer'.pc = "idle"
    <3>1. writer.line \in LineType
      BY <1>t, <2>1
    <3>2. \A x : (\E i \in DOMAIN queue' : x = queue'[i])
                    <=> (\E i \in DOMAIN queue : x = queue[i]) \/ x = writer.line
      <4>1. /\ DOMAIN queue' = 1..(Len(queue) + 1) /\ DOMAIN queue = 1..Len(queue) /\ Len(queue) \in Nat
            /\ queue'[Len(queue) + 1] = writer.line
            /\ \A i \in DOMAIN queue : queue'[i] = queue[i]
        BY <1>t, <2>4, <3>1
      <4>2. Len(queue) + 1 \in DOMAIN queue'
            /\ \A i : i \in DOMAIN queue' <=> i \in DOMAIN queue \/ i = Len(queue) + 1
        BY <4>1
      <4>3. QED
        BY <4>1, <4>2
    <3>3. \A x : OwedLine(s, x)' <=> OwedLine(s, x)
      BY <2>1, <2>4, <3>2 DEF OwedLine, StillOffered
    <3>4. QED
      BY <1>s, <2>1, <3>3
  <2>5. QED
    BY <2>1, <2>2, <2>3, <2>4
<1>5. CASE DropForAll
  <2>1. /\ writer.pc = "refused" /\ UNCHANGED <<queue, dispatcher, subscribers, dropped, channel, handler>>
        /\ \/ subscribers = {}
           \/ writer'.pc = "drop" /\ writer'.line = writer.line /\ writer'.todo = subscribers
    BY <1>0, <1>5, WriterMoves
  <2>2. StreamState(s) = "open" => \A x : OwedLine(s, x)' <=> OwedLine(s, x)
    BY <2>1, StreamStates DEF OwedLine, StillOffered
  <2>3. QED
    BY <1>s, <2>1, <2>2
<1>6. ASSUME NEW r \in Streams, Drop(r)
      PROVE  StreamStep(s)
  <2>1. /\ writer.pc = "drop" /\ r \in writer.todo /\ r \in subscribers
        /\ \/ writer'.pc = "idle" /\ writer.todo = {r}
           \/ writer'.pc = "drop" /\ writer'.line = writer.line /\ writer'.todo = writer.todo \ {r}
        /\ dropped' = [dropped EXCEPT ![r] = dropped[r] + 1]
        /\ UNCHANGED <<queue, subscribers, channel, dispatcher, handler>>
    BY <1>0, <1>6, DropMoves, IdleFields DEF WriterSound
  <2>2. StreamState(s)' = StreamState(s) /\ Accepted(s)' = Accepted(s)
    BY <2>1, StatesKept, AcceptedSame
  <2>3. CASE s # r
    <3>1. \A x : OwedLine(s, x)' <=> OwedLine(s, x)
      BY <2>1, <2>3 DEF OwedLine, StillOffered
    <3>2. Lost(s)' = Lost(s)
      BY <1>t, <2>1, <2>3 DEF Lost, Leaving
    <3>3. Due(s)' = Due(s)
      BY <2>1, <2>2, <3>1, DueSame
    <3>4. QED
      BY <2>2, <3>2, <3>3, PromiseSteps DEF StreamStep
  <2>4. CASE s = r /\ Leaving(s)
    <3>1. StreamState(s) # "open" /\ Lost(s)' = Lost(s)
      BY <2>1, <2>4, StreamStates DEF Lost, Leaving
    <3>2. Due(s)' = Due(s)
      BY <2>2, <3>1, DueSame
    <3>3. QED
      BY <2>2, <3>1, <3>2, PromiseSteps DEF StreamStep
  <2>5. CASE s = r /\ ~Leaving(s)
    <3>1. StreamState(s) = "open" /\ StreamState(s)' = "open"
      <4>1. handler[s].pc # "new"
        BY <1>0, <2>1, <2>5 DEF StreamsSound
      <4>2. QED
        BY <2>1, <2>2, <2>5, <4>1, StreamStates
    <3>2. Lost(s)' = Lost(s) + 1
      BY <1>t, <2>1, <2>5 DEF Lost, Leaving
    <3>3. /\ OwedLine(s, writer.line)
          /\ \A x : OwedLine(s, x)' <=> (\E i \in DOMAIN queue : x = queue[i])
                                         \/ (StillOffered(s) /\ x = dispatcher.line)
          /\ \A x : OwedLine(s, x) <=> (\E i \in DOMAIN queue : x = queue[i])
                                         \/ (StillOffered(s) /\ x = dispatcher.line) \/ x = writer.line
      BY <2>1, <2>5 DEF OwedLine, StillOffered
    <3>4. \A x : OwedLine(s, x)' => x.line # writer.line.line
      <4>1. writer.line.line = published
        BY <1>0, <2>1 DEF WriterSound
      <4>2. \A x : OwedLine(s, x)' => x.line < published /\ x.line \in Nat
        BY <1>0, <1>t, <2>1, <3>3 DEF QueueOrdered, DispatcherOrdered, Published, StillOffered
      <4>3. QED
        BY <1>t, <4>1, <4>2
    <3>5. CASE writer.line.kind \in handler[s].filter
      <4>1. writer.line.line \in Due(s) /\ Due(s)' = Due(s) \ {writer.line.line}
        BY <2>1, <3>1, <3>3, <3>4, <3>5, DueLess
      <4>2. QED
        BY <2>2, <3>1, <3>2, <4>1, PromiseLose DEF StreamStep
    <3>6. CASE writer.line.kind \notin handler[s].filter
      <4>1. \A x : x.kind \in handler[s].filter => (OwedLine(s, x)' <=> OwedLine(s, x))
        BY <3>3, <3>6
      <4>2. Due(s)' = Due(s)
        BY <2>1, <2>2, <4>1, DueSame
      <4>3. QED
        BY <2>2, <3>1, <3>2, <4>2, PromiseLose DEF StreamStep
    <3>7. QED
      BY <3>5, <3>6
  <2>6. QED
    BY <2>3, <2>4, <2>5
<1>7. CASE TakeLine
  <2>1. /\ dispatcher.pc = "wait" /\ dispatcher.line = NoLine /\ queue # <<>>
        /\ dispatcher'.pc = "wait" /\ dispatcher'.line = Head(queue) /\ queue' = Tail(queue)
        /\ UNCHANGED <<writer, subscribers, dropped, channel, handler>>
    BY <1>0, <1>7, TakeMoves
  <2>2. /\ Len(queue) \in Nat /\ Len(queue) >= 1 /\ DOMAIN queue = 1..Len(queue)
        /\ DOMAIN queue' = 1..(Len(queue) - 1) /\ Head(queue) = queue[1]
        /\ \A i \in 1..(Len(queue) - 1) : queue'[i] = queue[i + 1]
    BY <1>t, <2>1
  <2>3. /\ 1 \in DOMAIN queue /\ \A i \in DOMAIN queue' : i + 1 \in DOMAIN queue /\ queue'[i] = queue[i + 1]
        /\ \A i \in DOMAIN queue : i # 1 => i - 1 \in DOMAIN queue' /\ queue'[i - 1] = queue[i]
    BY <2>2
  <2>4. \A x : (\E i \in DOMAIN queue : x = queue[i])
                  <=> (\E i \in DOMAIN queue' : x = queue'[i]) \/ x = Head(queue)
    BY <2>2, <2>3
  <2>5. Head(queue) # NoLine
    <3>1. Head(queue) \in LineType
      BY <1>t, <2>2, <2>3
    <3>2. QED
      BY <3>1 DEF LineType, NoLine
  <2>6. \A x : OwedLine(s, x)' <=> OwedLine(s, x)
    BY <2>1, <2>4, <2>5, ZenonT(40) DEF OwedLine, StillOffered
  <2>7. QED
    BY <1>s, <2>1, <2>6
<1>8. CASE Dispatch
  <2>1. /\ dispatcher.pc = "wait" /\ dispatcher.line # NoLine
        /\ \/ closed \/ subscribers = {}
           \/ /\ dispatcher'.pc = "offer" /\ dispatcher'.line = dispatcher.line
              /\ dispatcher'.todo = subscribers
        /\ UNCHANGED <<writer, queue, subscribers, dropped, channel, handler>>
    BY <1>0, <1>8, DispatchMoves
  <2>2. StreamState(s) = "open" => \A x : OwedLine(s, x)' <=> OwedLine(s, x)
    BY <1>0, <2>1, StreamStates DEF OwedLine, StillOffered, ClosedSound
  <2>3. QED
    BY <1>s, <2>1, <2>2
(* The dispatcher is done with r. *)
<1>o. ASSUME NEW r \in Streams, dispatcher.pc # "wait", dispatcher.line # NoLine, r \in dispatcher.todo,
             dispatcher' = Offered(r), UNCHANGED <<queue, writer>>
      PROVE  /\ s # r => \A x : OwedLine(s, x)' <=> OwedLine(s, x)
             /\ s = r => /\ OwedLine(s, dispatcher.line)
                         /\ \A x : OwedLine(s, x) => OwedLine(s, x)' \/ x = dispatcher.line
                         /\ \A x : OwedLine(s, x)' =>
                               OwedLine(s, x) /\ x.line > dispatcher.line.line /\ x.line # dispatcher.line.line
  <2>1. StillOffered(s) <=> s \in dispatcher.todo
    BY <1>o DEF StillOffered
  <2>2. StillOffered(s)' <=> s \in dispatcher.todo /\ s # r
    BY <1>0, <1>o, OfferedFields, IdleFields DEF StillOffered
  <2>3. StillOffered(s)' => dispatcher'.line = dispatcher.line
    BY <1>0, <1>o, OfferedFields, IdleFields DEF StillOffered
  <2>4. s # r => \A x : OwedLine(s, x)' <=> OwedLine(s, x)
    BY <1>o, <2>1, <2>2, <2>3 DEF OwedLine
  <2>5. ASSUME s = r
        PROVE  /\ OwedLine(s, dispatcher.line)
               /\ \A x : OwedLine(s, x) => OwedLine(s, x)' \/ x = dispatcher.line
               /\ \A x : OwedLine(s, x)' => OwedLine(s, x)
    BY <1>o, <2>1, <2>2, <2>5 DEF OwedLine
  <2>6. ASSUME s = r, NEW x, OwedLine(s, x)'
        PROVE  x.line > dispatcher.line.line /\ x.line # dispatcher.line.line
    <3>1. dispatcher.line.line \in Nat
      BY <1>t, <1>o
    <3>2. (\E i \in DOMAIN queue : x = queue[i]) \/ (writer.pc # "idle" /\ x = writer.line)
      BY <1>o, <2>2, <2>6 DEF OwedLine
    <3>3. dispatcher.line.line < x.line /\ x.line \in Nat
      BY <1>0, <1>t, <1>o, <3>2 DEF DispatcherOrdered, Published, WriterSound
    <3>4. QED
      BY <3>1, <3>3
  <2>7. QED
    BY <2>4, <2>5, <2>6
<1>9. ASSUME NEW r \in Streams, SkipOffer(r) \/ OfferReport(r)
      PROVE  StreamStep(s)
  <2>0. /\ dispatcher.pc = "offer" /\ r \in dispatcher.todo /\ r \in subscribers
        /\ dispatcher.line # NoLine
        /\ UNCHANGED <<writer, queue, subscribers, handler>>
    BY <1>0, <1>9, OfferMoves, LineInHand DEF DispatcherSound
  <2>1. StreamState(s)' = StreamState(s)
    BY <2>0, StatesKept
  <2>2. CASE /\ dispatcher.line.kind \notin handler[r].filter
             /\ dispatcher' = Offered(r) /\ UNCHANGED <<channel, dropped>>
    <3>1. \A x : x.kind \in handler[s].filter => (OwedLine(s, x)' <=> OwedLine(s, x))
      BY <1>o, <2>0, <2>2
    <3>2. QED
      BY <1>s, <2>0, <2>2, <3>1
  <2>3. ASSUME dispatcher' = [dispatcher EXCEPT !.pc = "send", !.at = r]
        PROVE  Due(s)' = Due(s) /\ \A x : OwedLine(s, x)' <=> OwedLine(s, x)
    <3>1. dispatcher'.pc = "send" /\ dispatcher'.line = dispatcher.line /\ dispatcher'.todo = dispatcher.todo
      BY <1>0, <2>3, SendingFields
    <3>2. \A x : OwedLine(s, x)' <=> OwedLine(s, x)
      BY <2>0, <3>1 DEF OwedLine, StillOffered
    <3>3. QED
      BY <2>0, <2>1, <3>2, DueSame
  <2>4. CASE /\ dispatcher' = [dispatcher EXCEPT !.pc = "send", !.at = r]
             /\ UNCHANGED <<channel, dropped>>
    BY <1>s, <2>0, <2>3, <2>4
  <2>5. CASE s # r
    <3>1. channel'[s] = channel[s] /\ dropped'[s] = dropped[s]
      BY <1>0, <1>t, <1>9, <2>5, OfferMoves, ZenonT(40)
    <3>2. Accepted(s)' = Accepted(s) /\ Lost(s)' = Lost(s)
      BY <2>0, <3>1, AcceptedSame DEF Lost, Leaving
    <3>3. Due(s)' = Due(s)
      <4>1. CASE dispatcher' = Offered(r)
        BY <1>o, <2>0, <2>1, <2>5, <4>1, DueSame
      <4>2. QED
        BY <1>0, <1>9, <2>3, <4>1, OfferMoves
    <3>4. QED
      BY <2>1, <3>2, <3>3, PromiseSteps DEF StreamStep
  <2>6. CASE s = r /\ Leaving(s)
    <3>1. StreamState(s) # "open" /\ Lost(s)' = Lost(s) /\ Accepted(s)' = Accepted(s)
      BY <2>0, <2>6, StreamStates DEF Lost, Leaving, Accepted
    <3>2. Due(s)' = Due(s)
      BY <2>1, <3>1, DueSame
    <3>3. QED
      BY <2>1, <3>1, <3>2, PromiseSteps DEF StreamStep
  <2>o. ASSUME s = r, ~Leaving(s)
        PROVE  StreamState(s) = "open" /\ StreamState(s)' = "open"
    <3>1. handler[s].pc # "new"
      BY <1>0, <2>0, <2>o DEF StreamsSound
    <3>2. QED
      BY <2>0, <2>1, <2>o, <3>1, StreamStates
  <2>7. CASE /\ s = r /\ ~Leaving(s) /\ dropped[r] > 0
             /\ dispatcher' = [dispatcher EXCEPT !.pc = "send", !.at = r]
             /\ channel' = [channel EXCEPT ![r] = Append(channel[r], DroppedMessage(dropped[r]))]
             /\ dropped' = [dropped EXCEPT ![r] = 0]
    <3>1. DroppedMessage(dropped[s]) \in MessageType
      BY <1>t DEF DroppedMessage, MessageType
    <3>2. channel'[s] = Append(channel[s], DroppedMessage(dropped[s])) /\ dropped'[s] = 0
      BY <1>t, <2>7
    <3>3. Accepted(s)' = Append(Accepted(s), DroppedMessage(dropped[s]))
      BY <1>0, <2>0, <2>7, <3>1, <3>2, AcceptedSent
    <3>4. Lost(s) = dropped[s] /\ Lost(s)' = 0
      BY <2>0, <2>7, <3>2 DEF Lost, Leaving
    <3>5. Promise!Report(s)
      BY <2>3, <2>7, <2>o, <3>3, <3>4, PromiseReport
    <3>6. QED
      BY <3>5 DEF StreamStep
  <2>8. CASE /\ s = r /\ ~Leaving(s) /\ dispatcher.line.kind \in handler[r].filter
             /\ dispatcher' = Offered(r) /\ UNCHANGED channel
             /\ dropped' = [dropped EXCEPT ![r] = dropped[r] + 1]
    <3>1. Accepted(s)' = Accepted(s) /\ Lost(s)' = Lost(s) + 1
      BY <1>t, <2>0, <2>8, AcceptedSame DEF Lost, Leaving
    <3>2. dispatcher.line.line \in Due(s) /\ Due(s)' = Due(s) \ {dispatcher.line.line}
      BY <1>o, <2>0, <2>8, <2>o, DueLess
    <3>3. QED
      BY <2>8, <2>o, <3>1, <3>2, PromiseLose DEF StreamStep
  <2>9. QED
    BY <1>0, <1>9, <2>2, <2>4, <2>5, <2>6, <2>7, <2>8, OfferMoves
<1>10. CASE SendRecord
  <2>r. PICK r \in Streams : r = dispatcher.at
    BY <1>10, SendMoves
  <2>0. /\ dispatcher.pc = "send" /\ r \in dispatcher.todo /\ r \in subscribers /\ dropped[r] = 0
        /\ dispatcher.line \in LineType /\ dispatcher.line # NoLine
        /\ dispatcher.line.kind \in handler[r].filter
        /\ dispatcher' = Offered(r)
        /\ UNCHANGED <<writer, queue, subscribers, handler>>
        /\ \/ /\ channel' = [channel EXCEPT ![r] = Append(channel[r], RecordMessage(dispatcher.line))]
              /\ UNCHANGED dropped
           \/ /\ dropped' = [dropped EXCEPT ![r] = dropped[r] + 1]
              /\ UNCHANGED channel
    BY <1>0, <1>10, <2>r, SendMoves, LineInHand DEF DispatcherSound
  <2>1. StreamState(s)' = StreamState(s)
    BY <2>0, StatesKept
  <2>2. CASE s # r
    <3>1. channel'[s] = channel[s] /\ dropped'[s] = dropped[s]
      BY <1>t, <2>0, <2>2
    <3>2. Accepted(s)' = Accepted(s) /\ Lost(s)' = Lost(s)
      BY <2>0, <3>1, AcceptedSame DEF Lost, Leaving
    <3>3. Due(s)' = Due(s)
      BY <1>o, <2>0, <2>1, <2>2, DueSame
    <3>4. QED
      BY <2>1, <3>2, <3>3, PromiseSteps DEF StreamStep
  <2>3. CASE s = r /\ Leaving(s)
    <3>1. StreamState(s) # "open" /\ Lost(s)' = Lost(s) /\ Accepted(s)' = Accepted(s)
      BY <2>0, <2>3, StreamStates DEF Lost, Leaving, Accepted
    <3>2. Due(s)' = Due(s)
      BY <2>1, <3>1, DueSame
    <3>3. QED
      BY <2>1, <3>1, <3>2, PromiseSteps DEF StreamStep
  <2>4. CASE s = r /\ ~Leaving(s)
    <3>1. StreamState(s) = "open" /\ StreamState(s)' = "open"
      <4>1. handler[s].pc # "new"
        BY <1>0, <2>0, <2>4 DEF StreamsSound
      <4>2. QED
        BY <2>0, <2>1, <2>4, <4>1, StreamStates
    <3>2. dispatcher.line.line \in Due(s) /\ Due(s)' = Due(s) \ {dispatcher.line.line}
      BY <1>o, <2>0, <2>4, <3>1, DueLess
    <3>3. CASE dropped' = [dropped EXCEPT ![r] = dropped[r] + 1] /\ UNCHANGED channel
      <4>1. Accepted(s)' = Accepted(s) /\ Lost(s)' = Lost(s) + 1
        BY <1>t, <2>0, <2>4, <3>3, AcceptedSame DEF Lost, Leaving
      <4>2. QED
        BY <3>1, <3>2, <4>1, PromiseLose DEF StreamStep
    <3>4. CASE /\ channel' = [channel EXCEPT ![r] = Append(channel[r], RecordMessage(dispatcher.line))]
               /\ UNCHANGED dropped
      <4>1. PICK l : l = dispatcher.line.line
        OBVIOUS
      <4>2. PICK m : m = [kind |-> "record", line |-> l]
        OBVIOUS
      <4>3. m \in MessageType /\ m = RecordMessage(dispatcher.line)
        BY <1>t, <2>0, <4>1, <4>2 DEF MessageType, RecordMessage
      <4>4. channel'[s] = Append(channel[s], m)
        BY <1>t, <2>4, <3>4, <4>3
      <4>5. Accepted(s)' = Append(Accepted(s), m)
        BY <1>0, <2>0, <2>4, <4>3, <4>4, AcceptedSent
      <4>6. Lost(s) = 0 /\ Lost(s)' = 0
        BY <2>0, <2>4, <3>4 DEF Lost, Leaving
      <4>7. \A n \in Shown(Accepted(s)) : n < l
        BY <1>0, <2>0, <2>4, <4>1 DEF ShownOrdered, StillOffered
      <4>8. \A d \in Due(s) : l <= d
        <5>1. \A x : OwedLine(s, x) => x = dispatcher.line \/ x.line > dispatcher.line.line
          BY <1>o, <2>0, <2>4
        <5>2. \A x : OwedLine(s, x) => l <= x.line
          <6>1. SUFFICES ASSUME NEW x, OwedLine(s, x) PROVE l <= x.line
            OBVIOUS
          <6>2. x \in LineType
            BY <1>t, <2>0, <6>1 DEF OwedLine, StillOffered
          <6>3. x.line \in Nat /\ l \in Nat
            BY <1>t, <2>0, <4>1, <6>2
          <6>4. QED
            BY <4>1, <5>1, <6>1, <6>3
        <5>3. QED
          BY <3>1, <5>2, DueMembers
      <4>9. Promise!Deliver(s)
        BY <1>l, <3>1, <3>2, <4>1, <4>2, <4>5, <4>6, <4>7, <4>8, PromiseDeliver
      <4>10. QED
        BY <4>9 DEF StreamStep
    <3>5. QED
      BY <2>0, <3>3, <3>4
  <2>5. QED
    BY <2>2, <2>3, <2>4
<1>11. ASSUME NEW r \in Streams, NEW filter \in Filters, Subscribe(r, filter)
       PROVE  StreamStep(s)
  <2>1. /\ handler[r].pc = "new" /\ UNCHANGED <<writer, queue, dispatcher, channel, dropped>>
        /\ handler'[r].hand = handler[r].hand /\ handler'[r].written = handler[r].written
        /\ \A t \in Streams : t # r => handler'[t] = handler[t]
        /\ \/ handler'[r].pc = "ended" /\ UNCHANGED subscribers
           \/ handler'[r].pc = "reading" /\ subscribers' = subscribers \cup {r}
    BY <1>0, <1>11, SubscribeShape DEF HandlerNow
  <2>2. CASE s # r
    BY <1>f, <2>1, <2>2
  <2>3. CASE s = r /\ handler'[r].pc = "ended"
    <3>1. StreamState(s) = "new" /\ StreamState(s)' = "ended" /\ Accepted(s)' = <<>> /\ Lost(s)' = 0
      BY <2>1, <2>3 DEF StreamState, Leaving, Accepted, Lost
    <3>2. Due(s)' = {}
      BY <3>1, DueMembersNext
    <3>3. QED
      BY <3>1, <3>2, PromiseSteps DEF StreamStep
  <2>4. CASE s = r /\ handler'[r].pc = "reading" /\ subscribers' = subscribers \cup {r}
    <3>1. /\ StreamState(s) = "new" /\ StreamState(s)' = "open" /\ Accepted(s)' = Accepted(s)
          /\ Lost(s)' = Lost(s)
      BY <2>1, <2>4 DEF StreamState, Leaving, Accepted, Lost
    <3>2. \A x : OwedLine(s, x)' => x \in LineType
      BY <1>t, <2>1 DEF OwedLine, StillOffered
    <3>3. \A d \in Due(s)' : d \in Nat
      BY <1>t, <3>1, <3>2, DueMembersNext
    <3>4. QED
      BY <3>1, <3>3, PromiseSteps DEF StreamStep
  <2>5. QED
    BY <2>1, <2>2, <2>3, <2>4
<1>12. ASSUME NEW r \in Streams, HandlerStep(r)
       PROVE  StreamStep(s)
  <2>1. /\ UNCHANGED <<writer, queue, dispatcher>>
        /\ \A t \in Streams : t # r => handler'[t] = handler[t] /\ channel'[t] = channel[t]
                                       /\ dropped'[t] = dropped[t]
        /\ handler'[r].filter = handler[r].filter
        /\ subscribers' = subscribers \/ subscribers' = subscribers \ {r}
    BY <1>0, <1>t, <1>12, ReceiveShape, WrittenShape, LeavingShape, UnsubscribeShape
       DEF HandlerNow, HandlerStep
  <2>2. CASE s # r
    BY <1>f, <2>1, <2>2
  <2>3. CASE s = r /\ (Receive(s) \/ Written(s))
    <3>1. /\ handler[s].pc \in {"reading", "writing"} /\ handler'[s].pc \in {"reading", "writing"}
          /\ UNCHANGED <<subscribers, dropped>>
      BY <1>0, <2>3, ReceiveShape, WrittenShape DEF HandlerNow
    <3>2. StreamState(s)' = StreamState(s) /\ Lost(s)' = Lost(s)
      BY <3>1 DEF StreamState, Leaving, Lost
    <3>3. Accepted(s)' = Accepted(s)
      BY <1>0, <2>3, AcceptedRead
    <3>4. \A x : OwedLine(s, x)' <=> OwedLine(s, x)
      BY <2>1 DEF OwedLine, StillOffered
    <3>5. Due(s)' = Due(s)
      BY <2>1, <2>3, <3>2, <3>4, DueSame
    <3>6. QED
      BY <3>2, <3>3, <3>5, PromiseSteps DEF StreamStep
  <2>4. CASE s = r /\ (SeeClosed(s) \/ Leave(s))
    <3>1. handler[s].pc \in {"reading", "writing"} /\ handler'[s].pc = "leaving"
      BY <1>0, <2>4, LeavingShape DEF HandlerNow
    <3>2. StreamState(s) # "ended" /\ StreamState(s)' = "ended" /\ Accepted(s)' = <<>> /\ Lost(s)' = 0
      BY <3>1 DEF StreamState, Leaving, Accepted, Lost
    <3>3. Due(s)' = {}
      BY <3>2, DueMembersNext
    <3>4. QED
      BY <3>2, <3>3, PromiseSteps DEF StreamStep
  <2>5. CASE s = r /\ Unsubscribe(s)
    <3>1. handler[s].pc = "leaving" /\ handler'[s].pc = "ended"
      BY <1>0, <2>5, UnsubscribeShape DEF HandlerNow
    <3>2. /\ StreamState(s) = "ended" /\ StreamState(s)' = "ended" /\ Accepted(s) = <<>>
          /\ Accepted(s)' = <<>> /\ Lost(s) = 0 /\ Lost(s)' = 0
      BY <3>1 DEF StreamState, Leaving, Accepted, Lost
    <3>3. Due(s)' = Due(s)
      BY <3>2, DueMembers, DueMembersNext
    <3>4. QED
      BY <3>2, <3>3, PromiseSteps DEF StreamStep
  <2>6. QED
    BY <1>12, <2>2, <2>3, <2>4, <2>5 DEF HandlerStep
<1>13. CASE CloseSubscriptions
  <2>1. subscribers' = {} /\ UNCHANGED <<writer, queue, dispatcher, dropped, channel, handler>>
    BY <1>13 DEF CloseSubscriptions, queueVars
  <2>2. CASE s \notin subscribers
    BY <1>f, <2>1, <2>2
  <2>3. CASE s \in subscribers
    <3>1. handler[s].pc # "new"
      BY <1>0, <2>3 DEF StreamsSound
    <3>2. Accepted(s)' = Accepted(s) /\ Lost(s)' = Lost(s)
      BY <2>1, AcceptedSame DEF Lost, Leaving
    <3>3. CASE Leaving(s)
      <4>1. StreamState(s) = "ended" /\ StreamState(s)' = "ended"
        BY <2>1, <3>1, <3>3 DEF StreamState, Leaving
      <4>2. Due(s)' = Due(s)
        BY <4>1, DueMembers, DueMembersNext
      <4>3. QED
        BY <3>2, <4>1, <4>2, PromiseSteps DEF StreamStep
    <3>4. CASE ~Leaving(s)
      <4>1. StreamState(s) = "open" /\ StreamState(s)' = "draining"
        BY <2>1, <2>3, <3>1, <3>4 DEF StreamState, Leaving
      <4>2. Due(s)' = {}
        BY <4>1, DueMembersNext
      <4>3. QED
        BY <3>2, <4>1, <4>2, PromiseSteps DEF StreamStep
    <3>5. QED
      BY <3>3, <3>4
  <2>4. QED
    BY <2>2, <2>3
<1>14. CASE StopDispatcher
  <2>1. closed /\ UNCHANGED <<subscribers, dropped, channel, handler>>
    BY <1>14 DEF StopDispatcher, subscriberVars
  <2>2. StreamState(s) # "open"
    BY <1>0, <2>1, StreamStates DEF ClosedSound
  <2>3. QED
    BY <1>s, <2>1, <2>2
<1>15. QED
  BY <1>1, <1>2, <1>3, <1>4, <1>5, <1>6, <1>7, <1>8, <1>9, <1>10, <1>11, <1>12, <1>13, <1>14
     DEF BrokerNext, WriterStep, DispatcherStep

LEMMA InitStreams ==
    ASSUME BrokerInit
    PROVE  Promise!Init
<1>1. ASSUME NEW s \in Streams
      PROVE  StreamState(s) = "new" /\ Lost(s) = 0 /\ Accepted(s) = <<>> /\ Due(s) = {}
  <2>1. handler[s] = NewHandler /\ channel[s] = <<>> /\ dropped[s] = 0
    BY DEF BrokerInit
  <2>2. handler[s].pc = "new" /\ handler[s].written = <<>> /\ handler[s].hand = Nothing
    BY <2>1 DEF NewHandler
  <2>3. StreamState(s) = "new" /\ Lost(s) = 0 /\ Accepted(s) = <<>>
    BY <2>1, <2>2 DEF StreamState, Lost, Leaving, Accepted
  <2>4. QED
    BY <2>3, DueMembers
<1>2. QED
  BY <1>1 DEF Promise!Init

(* The broker implements the lossy streams, for any number of streams,     *)
(* kinds, filters and any limits: every matching line published while a    *)
(* subscription is open is sent to it in publication order or counted as   *)
(* dropped, and no record overtakes a loss that was not reported (Publish, *)
(* dropForAll, dispatch, deliver, unsubscribe, Close).                     *)
THEOREM BrokerImplementsStreams == BrokerSpec => StreamsLossy
<1> DEFINE Inv == BrokerTypeInv /\ ControlInv /\ OrderInv
<1>1. BrokerInit => Inv /\ Promise!Init
  BY InitBrokerType, InitControl, InitOrder, InitStreams
<1>2. Inv /\ [BrokerNext]_brokerVars => Inv'
  BY NextBrokerType, NextControl, NextOrder
<1>3. Inv /\ [BrokerNext]_brokerVars => [Promise!Next]_(Promise!vars)
  <2>1. SUFFICES ASSUME Inv, [BrokerNext]_brokerVars PROVE Promise!Next
    OBVIOUS
  <2>2. \A s \in Streams : StreamStep(s)
    BY <2>1, NextStream
  <2>3. QED
    BY <2>2 DEF Promise!Next, StreamStep
<1> HIDE DEF Inv
<1>4. QED
  BY <1>1, <1>2, <1>3, PTL DEF BrokerSpec, StreamsLossy, Promise!Spec

=============================================================================

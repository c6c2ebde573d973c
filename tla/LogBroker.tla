----------------------------- MODULE LogBroker ------------------------------
(***************************************************************************)
(* The log broker (internal/logs/broker.go) and the handlers that stream   *)
(* its messages to clients (internal/management/logs.go).                  *)
(*                                                                         *)
(* Four kinds of goroutine meet here.  The writer holds the log lock and   *)
(* publishes one line at a time: it looks at the subscribers, queues the   *)
(* line, or, when the queue is full, walks the subscribers to count a      *)
(* loss.  The dispatcher takes lines from the queue and offers each to     *)
(* every subscriber.  A stream handler takes messages from its channel and *)
(* writes them to its client.  Close may come at any time.  Broker.mu is a *)
(* readers-writer lock: the dispatcher and the writer's walk hold it for   *)
(* reading, Subscribe, unsubscribe and Close wait for both.  Flush only    *)
(* waits and is used by tests: it is left out with the two counters it     *)
(* compares.                                                               *)
(***************************************************************************)
EXTENDS Integers, Sequences, FiniteSets

CONSTANTS
    Streams,          \* the stream requests clients may make
    Kinds,            \* what a filter tells apart in a record
    LineBytes,        \* the length of a line of each kind
    Filters,          \* the sets of kinds clients ask for
    MaximumStreams,   \* MaximumStreams
    SubscriberBuffer, \* SubscriberBuffer, the capacity of a channel
    QueueLimit        \* DispatchQueueBytes

ASSUME BrokerAssumption ==
    /\ LineBytes \in [Kinds -> Nat \ {0}]
    /\ Filters \subseteq SUBSET Kinds
    /\ MaximumStreams \in Nat /\ SubscriberBuffer \in Nat \ {0} /\ QueueLimit \in Nat

VARIABLES
    published,    \* number of the last line handed to Publish
    writer,       \* the goroutine in Publish
    queue,        \* Broker.queue
    queueBytes,   \* Broker.queueBytes
    dispatcher,   \* the goroutine in run
    subscribers,  \* Broker.subscribers
    dropped,      \* subscriber.dropped
    channel,      \* subscriber.channel
    closed,       \* Broker.closed
    stopped,      \* Broker.stopped
    handler       \* the stream handlers: filter, message in hand, what was written

queueVars == <<queue, queueBytes>>
subscriberVars == <<subscribers, dropped, channel>>
brokerVars ==
    <<published, writer, queue, queueBytes, dispatcher, subscribers, dropped, channel,
      closed, stopped, handler>>

(* A line is known by its publication number; of its contents only what    *)
(* the filters look at is kept.                                            *)
LineType == [line: Nat, kind: Kinds]

NoLine == [line |-> 0]

RecordMessage(l) == [kind |-> "record", line |-> l.line]
DroppedMessage(n) == [kind |-> "dropped", count |-> n]
MessageType == [kind: {"record"}, line: Nat] \cup [kind: {"dropped"}, count: Nat]
Nothing == [kind |-> "none"]

IdleWriter == [pc |-> "idle", line |-> NoLine, todo |-> {}]
IdleDispatcher == [pc |-> "wait", line |-> NoLine, todo |-> {}, at |-> "nobody"]

HandlerType ==
    [pc: {"new", "reading", "writing", "leaving", "ended"}, filter: SUBSET Kinds,
     hand: MessageType \cup {Nothing}, written: Seq(MessageType)]

NewHandler == [pc |-> "new", filter |-> {}, hand |-> Nothing, written |-> <<>>]

BrokerTypeOK ==
    /\ published \in Nat
    /\ writer \in [pc: {"idle", "check", "queue", "refused", "drop"}, line: LineType \cup {NoLine},
                   todo: SUBSET Streams]
    /\ queue \in Seq(LineType) /\ queueBytes \in Nat
    /\ dispatcher \in [pc: {"wait", "offer", "send"}, line: LineType \cup {NoLine},
                       todo: SUBSET Streams, at: Streams \cup {"nobody"}]
    /\ subscribers \subseteq Streams
    /\ dropped \in [Streams -> Nat]
    /\ channel \in [Streams -> Seq(MessageType)]
    /\ closed \in BOOLEAN /\ stopped \in BOOLEAN
    /\ handler \in [Streams -> HandlerType]

(* No buffer grows beyond its limit, whatever piles up in front of it:     *)
(* the bytes queued (enqueue), the subscribers (Subscribe), and the        *)
(* messages in a subscriber's channel, to which deliver adds up to two.    *)
BuffersBounded ==
    /\ queueBytes <= QueueLimit
    /\ IsFiniteSet(subscribers) /\ Cardinality(subscribers) <= MaximumStreams
    /\ \A s \in Streams : Len(channel[s]) <= SubscriberBuffer

(* newBroker, and a writer that has published nothing.                     *)
BrokerInit ==
    /\ published = 0 /\ writer = IdleWriter
    /\ queue = <<>> /\ queueBytes = 0 /\ dispatcher = IdleDispatcher
    /\ subscribers = {} /\ dropped = [s \in Streams |-> 0] /\ channel = [s \in Streams |-> <<>>]
    /\ closed = FALSE /\ stopped = FALSE
    /\ handler = [s \in Streams |-> NewHandler]

(* Broker.mu held for reading, by the dispatcher or by dropForAll.         *)
ReadLocked == dispatcher.pc # "wait" \/ writer.pc = "drop"

(* subscriber.mu is held between the two sends of deliver.                 *)
SubscriberLocked(s) == dispatcher.pc = "send" /\ dispatcher.at = s

(* Mutation: the channel is made with a place more, for the report.        *)
WrongRoom(s) == Len(channel[s]) <= SubscriberBuffer

Room(s) == Len(channel[s]) < SubscriberBuffer

-----------------------------------------------------------------------------
(* The writer.                                                             *)

(* Publish is called with a line the log file has just accepted.           *)
Publish(l) ==
    /\ writer.pc = "idle" /\ l.line > published
    /\ published' = l.line
    /\ writer' = [pc |-> "check", line |-> l, todo |-> {}]
    /\ UNCHANGED <<queueVars, subscriberVars, dispatcher, closed, stopped, handler>>

(* With no subscriber nothing is queued.                                   *)
CheckSubscribers ==
    /\ writer.pc = "check"
    /\ writer' = IF closed \/ subscribers = {} THEN IdleWriter ELSE [writer EXCEPT !.pc = "queue"]
    /\ UNCHANGED <<published, queueVars, subscriberVars, dispatcher, closed, stopped, handler>>

(* The line is queued, or refused when it would exceed the queue's budget. *)
Enqueue ==
    /\ writer.pc = "queue"
    /\ LET bytes == LineBytes[writer.line.kind]
       IN  \/ /\ stopped
              /\ writer' = IdleWriter
              /\ UNCHANGED queueVars
           \/ /\ ~stopped /\ queueBytes + bytes > QueueLimit
              /\ writer' = [writer EXCEPT !.pc = "refused"]
              /\ UNCHANGED queueVars
           \/ /\ ~stopped /\ queueBytes + bytes <= QueueLimit
              /\ queue' = Append(queue, writer.line)
              /\ queueBytes' = queueBytes + bytes
              /\ writer' = IdleWriter
    /\ UNCHANGED <<published, subscriberVars, dispatcher, closed, stopped, handler>>

(* dropForAll takes the read lock and sees the subscribers of that moment. *)
DropForAll ==
    /\ writer.pc = "refused"
    /\ writer' = IF subscribers = {} THEN IdleWriter
                 ELSE [writer EXCEPT !.pc = "drop", !.todo = subscribers]
    /\ UNCHANGED <<published, queueVars, subscriberVars, dispatcher, closed, stopped, handler>>

(* drop: one more loss for one subscriber, whatever its filter.            *)
Drop(s) ==
    /\ writer.pc = "drop" /\ s \in writer.todo /\ ~SubscriberLocked(s)
    /\ dropped' = [dropped EXCEPT ![s] = @ + 1]
    /\ writer' = IF writer.todo = {s} THEN IdleWriter ELSE [writer EXCEPT !.todo = @ \ {s}]
    /\ UNCHANGED <<published, queueVars, subscribers, channel, dispatcher, closed, stopped, handler>>

-----------------------------------------------------------------------------
(* The dispatcher.                                                         *)

(* run takes the oldest line off the queue.                                *)
TakeLine ==
    /\ dispatcher.pc = "wait" /\ dispatcher.line = NoLine /\ ~stopped /\ queue # <<>>
    /\ dispatcher' = [dispatcher EXCEPT !.line = Head(queue)]
    /\ queue' = Tail(queue)
    /\ queueBytes' = queueBytes - LineBytes[Head(queue).kind]
    /\ UNCHANGED <<published, writer, subscriberVars, closed, stopped, handler>>

(* dispatch has parsed the line and takes the read lock.                   *)
Dispatch ==
    /\ dispatcher.pc = "wait" /\ dispatcher.line # NoLine
    /\ dispatcher' = IF closed \/ subscribers = {} THEN IdleDispatcher
                     ELSE [dispatcher EXCEPT !.pc = "offer", !.todo = subscribers]
    /\ UNCHANGED <<published, writer, queueVars, subscriberVars, closed, stopped, handler>>

(* The dispatcher is done with s; after the last one it lets the lock go.  *)
Offered(s) == IF dispatcher.todo = {s} THEN IdleDispatcher
              ELSE [dispatcher EXCEPT !.pc = "offer", !.todo = @ \ {s}, !.at = "nobody"]

(* deliver, for a subscriber whose filter does not match.                  *)
SkipOffer(s) ==
    /\ dispatcher.pc = "offer" /\ s \in dispatcher.todo
    /\ dispatcher.line.kind \notin handler[s].filter
    /\ dispatcher' = Offered(s)
    /\ UNCHANGED <<published, writer, queueVars, subscriberVars, closed, stopped, handler>>

(* deliver reports the losses first; while the report itself finds no room *)
(* the line is one more of them.                                           *)
OfferReport(s) ==
    /\ dispatcher.pc = "offer" /\ s \in dispatcher.todo
    /\ dispatcher.line.kind \in handler[s].filter
    /\ \/ /\ dropped[s] = 0
          /\ dispatcher' = [dispatcher EXCEPT !.pc = "send", !.at = s]
          /\ UNCHANGED <<channel, dropped>>
       \/ /\ dropped[s] > 0 /\ Room(s)
          /\ channel' = [channel EXCEPT ![s] = Append(@, DroppedMessage(dropped[s]))]
          /\ dropped' = [dropped EXCEPT ![s] = 0]
          /\ dispatcher' = [dispatcher EXCEPT !.pc = "send", !.at = s]
       \/ /\ dropped[s] > 0 /\ ~Room(s)
          /\ dropped' = [dropped EXCEPT ![s] = @ + 1]
          /\ dispatcher' = Offered(s)
          /\ UNCHANGED channel
    /\ UNCHANGED <<published, writer, queueVars, subscribers, closed, stopped, handler>>

(* Mutation: a record that finds no room is not counted.                   *)
WrongSendRecord ==
    /\ dispatcher.pc = "send"
    /\ LET s == dispatcher.at
       IN  /\ channel' = IF Room(s)
                         THEN [channel EXCEPT ![s] = Append(@, RecordMessage(dispatcher.line))]
                         ELSE channel
           /\ dispatcher' = Offered(s)
    /\ UNCHANGED <<published, writer, queueVars, subscribers, dropped, closed, stopped, handler>>

(* deliver then offers the record itself.                                  *)
SendRecord ==
    /\ dispatcher.pc = "send"
    /\ LET s == dispatcher.at
       IN  /\ \/ /\ Room(s)
                 /\ channel' = [channel EXCEPT ![s] = Append(@, RecordMessage(dispatcher.line))]
                 /\ UNCHANGED dropped
              \/ /\ ~Room(s)
                 /\ dropped' = [dropped EXCEPT ![s] = @ + 1]
                 /\ UNCHANGED channel
           /\ dispatcher' = Offered(s)
    /\ UNCHANGED <<published, writer, queueVars, subscribers, closed, stopped, handler>>

-----------------------------------------------------------------------------
(* The stream handlers.                                                    *)

(* handleLogStream subscribes; at the limit, or once the broker is closed, *)
(* it answers that the stream is unavailable.                              *)
Subscribe(s, filter) ==
    /\ handler[s].pc = "new" /\ ~ReadLocked
    /\ \/ /\ closed \/ Cardinality(subscribers) >= MaximumStreams
          /\ handler' = [handler EXCEPT ![s].pc = "ended"]
          /\ UNCHANGED subscribers
       \/ /\ ~closed /\ Cardinality(subscribers) < MaximumStreams
          /\ handler' = [handler EXCEPT ![s].pc = "reading", ![s].filter = filter]
          /\ subscribers' = subscribers \cup {s}
    /\ UNCHANGED <<published, writer, queueVars, dispatcher, dropped, channel, closed, stopped>>

(* A message is received from the channel: it can still be received from a *)
(* closed channel.                                                         *)
Receive(s) ==
    /\ handler[s].pc = "reading" /\ channel[s] # <<>>
    /\ handler' = [handler EXCEPT ![s].pc = "writing", ![s].hand = Head(channel[s])]
    /\ channel' = [channel EXCEPT ![s] = Tail(@)]
    /\ UNCHANGED <<published, writer, queueVars, dispatcher, subscribers, dropped, closed, stopped>>

(* writeStreamMessage and the flush succeed.                               *)
Written(s) ==
    /\ handler[s].pc = "writing"
    /\ handler' = [handler EXCEPT ![s].pc = "reading", ![s].hand = Nothing,
                                  ![s].written = Append(@, handler[s].hand)]
    /\ UNCHANGED <<published, writer, queueVars, dispatcher, subscriberVars, closed, stopped>>

(* The closed channel is empty.                                            *)
SeeClosed(s) ==
    /\ handler[s].pc = "reading" /\ s \notin subscribers /\ channel[s] = <<>>
    /\ handler' = [handler EXCEPT ![s].pc = "leaving"]
    /\ UNCHANGED <<published, writer, queueVars, dispatcher, subscriberVars, closed, stopped>>

(* The request's context is done, or a write to the client fails.          *)
Leave(s) ==
    /\ handler[s].pc \in {"reading", "writing"}
    /\ handler' = [handler EXCEPT ![s].pc = "leaving", ![s].hand = Nothing]
    /\ UNCHANGED <<published, writer, queueVars, dispatcher, subscriberVars, closed, stopped>>

(* The deferred Subscription.Close.                                        *)
Unsubscribe(s) ==
    /\ handler[s].pc = "leaving" /\ ~ReadLocked
    /\ handler' = [handler EXCEPT ![s].pc = "ended"]
    /\ subscribers' = subscribers \ {s}
    /\ channel' = [channel EXCEPT ![s] = <<>>]
    /\ dropped' = [dropped EXCEPT ![s] = 0]
    /\ UNCHANGED <<published, writer, queueVars, dispatcher, closed, stopped>>

-----------------------------------------------------------------------------
(* Close ends every subscription ...                                       *)
CloseSubscriptions ==
    /\ ~closed /\ ~ReadLocked
    /\ closed' = TRUE
    /\ subscribers' = {}
    /\ UNCHANGED <<published, writer, queueVars, dispatcher, dropped, channel, stopped, handler>>

(* ... and then stops the dispatcher and discards the queue.               *)
StopDispatcher ==
    /\ closed /\ ~stopped
    /\ stopped' = TRUE
    /\ queue' = <<>> /\ queueBytes' = 0
    /\ UNCHANGED <<published, writer, dispatcher, subscriberVars, closed, handler>>

WriterStep == CheckSubscribers \/ Enqueue \/ DropForAll \/ \E s \in Streams : Drop(s)

DispatcherStep ==
    TakeLine \/ Dispatch \/ SendRecord \/ \E s \in Streams : SkipOffer(s) \/ OfferReport(s)

HandlerStep(s) == Receive(s) \/ Written(s) \/ SeeClosed(s) \/ Leave(s) \/ Unsubscribe(s)

BrokerNext ==
    \/ \E k \in Kinds : Publish([line |-> published + 1, kind |-> k])
    \/ WriterStep \/ DispatcherStep
    \/ \E s \in Streams, filter \in Filters : Subscribe(s, filter)
    \/ \E s \in Streams : HandlerStep(s)
    \/ CloseSubscriptions \/ StopDispatcher

BrokerSpec == BrokerInit /\ [][BrokerNext]_brokerVars

-----------------------------------------------------------------------------
(* What the broker owes a subscriber: the matching lines on their way.     *)

OnTheWay(s) ==
    {queue[i] : i \in DOMAIN queue}
      \cup (IF dispatcher.line # NoLine
               /\ (dispatcher.pc = "wait" \/ s \in dispatcher.todo)
            THEN {dispatcher.line} ELSE {})
      \cup (IF writer.pc \in {"queue", "refused"} \/ (writer.pc = "drop" /\ s \in writer.todo)
            THEN {writer.line} ELSE {})

Leaving(s) == handler[s].pc \in {"leaving", "ended"}

StreamState(s) ==
    CASE handler[s].pc = "new" -> "new"
      [] Leaving(s) -> "ended"
      [] OTHER -> IF s \in subscribers THEN "open" ELSE "draining"

Due(s) ==
    IF StreamState(s) = "open"
    THEN {l.line : l \in {x \in OnTheWay(s) : x.kind \in handler[s].filter}}
    ELSE {}

Lost(s) == IF Leaving(s) THEN 0 ELSE dropped[s]

(* Everything that was sent on the channel, taken from it or not.          *)
Accepted(s) ==
    IF Leaving(s) THEN <<>>
    ELSE handler[s].written
           \o (IF handler[s].hand = Nothing THEN <<>> ELSE <<handler[s].hand>>) \o channel[s]

Promise ==
    INSTANCE LossyStreams WITH
        state <- [s \in Streams |-> StreamState(s)], due <- [s \in Streams |-> Due(s)],
        lost <- [s \in Streams |-> Lost(s)], out <- [s \in Streams |-> Accepted(s)]

(* The broker implements the lossy streams: every matching line published  *)
(* while a subscription is open is sent to it in publication order or      *)
(* counted as dropped, and no record is sent before an earlier loss is     *)
(* reported (Publish, dispatch, deliver, drop).                            *)
StreamsLossy == Promise!Spec

============================================================================

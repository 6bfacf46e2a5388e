----------------------------- MODULE MessageStore -----------------------------
(***************************************************************************)
(* The in-memory message store: Stream (stream.rs), MemoryStore            *)
(* (memory.rs) and ConsumerManager (consumer.rs) of zetmq-store.           *)
(*                                                                         *)
(* The streams are behind one RwLock and the consumers behind another, and *)
(* every operation but create_consumer reads or writes what it needs while *)
(* it holds them, so it is one action.  create_consumer reads the stream,  *)
(* lets its lock go and inserts the consumer later: two actions of a task. *)
(*                                                                         *)
(* A message is its sequence number, timestamp, subject and payload size;  *)
(* the reply subject and the headers are only carried along.               *)
(***************************************************************************)
EXTENDS Integers, Sequences, FiniteSets

CONSTANTS
    StreamNames, ConsumerNames,
    Subjects, NoFilter,     \* subjects, and the filter_subject that is None
    Sizes,                  \* payload lengths
    StreamConfigs,          \* the StreamConfigs streams are created with
    ConsumerConfigs,        \* the ConsumerConfigs consumers are created with
    Tasks,                  \* tasks inside create_consumer
    Word,                   \* time is unsigned: arithmetic on it is modulo this
    StartTime, MaxTime,     \* the clock when the broker starts; bound: its last value
    MaxSeq,                 \* bound: the sequence numbers of a stream
    MaxEpoch                \* bound: how often a stream is created

Policies == {"All", "Last", "New", "ByStartSequence"}
AckPolicies == {"None", "Explicit", "All"}

ASSUME StoreAssumption ==
    /\ Sizes \subseteq Nat
    /\ StreamConfigs \subseteq [max_msgs : Nat, max_bytes : Nat, max_age : Nat]
    /\ ConsumerConfigs \subseteq [filter : Subjects \cup {NoFilter}, policy : Policies,
                                  sequence : Nat, ack : AckPolicies, max_ack_pending : Nat]
    /\ Word \in Nat \ {0}
    /\ StartTime \in Nat /\ MaxTime \in Nat /\ StartTime <= MaxTime /\ MaxTime < Word
    /\ MaxSeq \in Nat /\ MaxEpoch \in Nat

Default == [max_msgs |-> 0, max_bytes |-> 0, max_age |-> 0]    \* StreamConfig::default()

\* consumer_key joins the two names by a colon.  A name is the sequence of its colon-separated
\* parts, so that the key is their concatenation.
consumer_key(stream, name) == stream \o name
Keys == {consumer_key(n, d) : n \in StreamNames, d \in ConsumerNames}

Message == [sequence : Nat, timestamp : Nat, subject : Subjects, size : Nat]

VARIABLES
    now,                \* now_millis()
    streams,            \* MemoryStore.streams: the names in the map
    config,             \* Stream.config
    messages,           \* Stream.messages
    count,              \* StreamState.messages
    bytes,              \* StreamState.bytes
    first_seq, last_seq,
    consumers,          \* ConsumerManager.consumers: the keys in the map
    cconfig, cstream,   \* Consumer.config, and the stream it names
    next_sequence, pending_ack_count, pending_acks, delivered_count, acked_count,
    request,            \* create_consumer after stream_info: what a task goes on with
    epoch,              \* history: how often a stream has been created
    seen,               \* history: what a consumer was given
    last_ack            \* history: the highest sequence a consumer acknowledged

state == <<config, messages, count, bytes, first_seq, last_seq>>
cstate == <<next_sequence, pending_ack_count, pending_acks, delivered_count, acked_count>>
vars == <<now, streams, state, consumers, cconfig, cstream, cstate, request, epoch, seen, last_ack>>

NoRequest == [key |-> <<>>]
Request == [key : Keys, stream : StreamNames, config : ConsumerConfigs, last_seq : Nat]

TypeOK ==
    /\ now \in StartTime..MaxTime
    /\ streams \subseteq StreamNames
    /\ config \in [StreamNames -> StreamConfigs \cup {Default}]
    /\ messages \in [StreamNames -> Seq(Message)]
    /\ count \in [StreamNames -> Nat]
    /\ bytes \in [StreamNames -> Nat]
    /\ first_seq \in [StreamNames -> Nat]
    /\ last_seq \in [StreamNames -> Nat]
    /\ consumers \subseteq Keys
    /\ cconfig \in [Keys -> ConsumerConfigs \cup {NoRequest}]
    /\ cstream \in [Keys -> StreamNames \cup {<<>>}]
    /\ next_sequence \in [Keys -> Nat]
    /\ pending_ack_count \in [Keys -> Nat]
    /\ pending_acks \in [Keys -> SUBSET Nat]
    /\ delivered_count \in [Keys -> Nat]
    /\ acked_count \in [Keys -> Nat]
    /\ request \in [Tasks -> Request \cup {NoRequest}]

Init ==
    /\ now = StartTime
    /\ streams = {}
    /\ config = [n \in StreamNames |-> Default]
    /\ messages = [n \in StreamNames |-> <<>>]
    /\ count = [n \in StreamNames |-> 0]
    /\ bytes = [n \in StreamNames |-> 0]
    /\ first_seq = [n \in StreamNames |-> 1]
    /\ last_seq = [n \in StreamNames |-> 0]
    /\ consumers = {}
    /\ cconfig = [k \in Keys |-> NoRequest]
    /\ cstream = [k \in Keys |-> <<>>]
    /\ next_sequence = [k \in Keys |-> 0]
    /\ pending_ack_count = [k \in Keys |-> 0]
    /\ pending_acks = [k \in Keys |-> {}]
    /\ delivered_count = [k \in Keys |-> 0]
    /\ acked_count = [k \in Keys |-> 0]
    /\ request = [t \in Tasks |-> NoRequest]
    /\ epoch = [n \in StreamNames |-> 0]
    /\ seen = [k \in Keys |-> {}]
    /\ last_ack = [k \in Keys |-> 0]

Tick ==
    /\ now < MaxTime
    /\ now' = now + 1
    /\ UNCHANGED <<streams, state, consumers, cconfig, cstream, cstate, request, epoch, seen, last_ack>>

-----------------------------------------------------------------------------
(* Streams *)

\* Stream::new
NewStream(n, cfg) ==
    /\ streams' = streams \cup {n}
    /\ config' = [config EXCEPT ![n] = cfg]
    /\ messages' = [messages EXCEPT ![n] = <<>>]
    /\ count' = [count EXCEPT ![n] = 0]
    /\ bytes' = [bytes EXCEPT ![n] = 0]
    /\ first_seq' = [first_seq EXCEPT ![n] = 1]
    /\ last_seq' = [last_seq EXCEPT ![n] = 0]
    /\ epoch' = [epoch EXCEPT ![n] = @ + 1]

\* create_stream; StreamAlreadyExists changes nothing
CreateStream(n, cfg) ==
    /\ n \notin streams
    /\ epoch[n] < MaxEpoch
    /\ NewStream(n, cfg)
    /\ UNCHANGED <<now, consumers, cconfig, cstream, cstate, request, seen, last_ack>>

\* delete_stream: the consumers of the stream stay in their map
DeleteStream(n) ==
    /\ n \in streams
    /\ streams' = streams \ {n}
    /\ config' = [config EXCEPT ![n] = Default]
    /\ messages' = [messages EXCEPT ![n] = <<>>]
    /\ count' = [count EXCEPT ![n] = 0]
    /\ bytes' = [bytes EXCEPT ![n] = 0]
    /\ first_seq' = [first_seq EXCEPT ![n] = 1]
    /\ last_seq' = [last_seq EXCEPT ![n] = 0]
    /\ UNCHANGED <<now, consumers, cconfig, cstream, cstate, request, epoch, seen, last_ack>>

\* The payload lengths of a queue of messages summed up from its front, and their total
Sums(msgs) ==
    LET sum[i \in 0..Len(msgs)] == IF i = 0 THEN 0 ELSE sum[i - 1] + msgs[i].size
    IN  sum

Size(msgs) == Sums(msgs)[Len(msgs)]

Rest(msgs, k) == SubSeq(msgs, k + 1, Len(msgs))    \* what k calls of remove_front leave

\* Mutant: the bytes of one message fewer are subtracted
Gone_OffByOne(msgs, k) == SubSeq(msgs, 1, k - 1)
Gone(msgs, k) == SubSeq(msgs, 1, k)                \* what they remove

\* The three loops of apply_retention.  Each says where its loop stops: after k calls of
\* remove_front on the queue it finds.
Cutoff(cfg) == (now - cfg.max_age) % Word

AgeStops(cfg, msgs, k) ==
    IF cfg.max_age = 0 THEN k = 0
    ELSE /\ \A i \in 1..k : msgs[i].timestamp < Cutoff(cfg)
         /\ k < Len(msgs) => msgs[k + 1].timestamp >= Cutoff(cfg)

\* Mutant: the loop stops one message too early
CountStops_OffByOne(cfg, msgs, k) ==
    IF cfg.max_msgs = 0 \/ Len(msgs) <= cfg.max_msgs + 1 THEN k = 0
    ELSE Len(msgs) - k = cfg.max_msgs + 1

CountStops(cfg, msgs, k) ==
    IF cfg.max_msgs = 0 \/ Len(msgs) <= cfg.max_msgs THEN k = 0
    ELSE Len(msgs) - k = cfg.max_msgs

\* Mutant: the loop may remove the message just stored
BytesStops_RemovesLast(cfg, msgs, total, k) ==
    LET over(j) == total - Size(Gone(msgs, j)) > cfg.max_bytes /\ Len(msgs) - j > 0
    IN  IF cfg.max_bytes = 0 THEN k = 0
        ELSE ~ over(k) /\ \A j \in 0..(k - 1) : over(j)

BytesStops(cfg, msgs, total, k) ==
    LET over(j) == total - Size(Gone(msgs, j)) > cfg.max_bytes /\ Len(msgs) - j > 1
    IN  IF cfg.max_bytes = 0 THEN k = 0
        ELSE ~ over(k) /\ \A j \in 0..(k - 1) : over(j)

\* Mutant: first_seq advances by one, however many messages are removed
Keep_OneStep(n, st, msg, q, total, k) ==
    /\ config' = [config EXCEPT ![n] = st.config]
    /\ messages' = [messages EXCEPT ![n] = q]
    /\ last_seq' = [last_seq EXCEPT ![n] = msg.sequence]
    /\ count' = [count EXCEPT ![n] = st.count + 1 - k]
    /\ bytes' = [bytes EXCEPT ![n] = total]
    /\ first_seq' = [first_seq EXCEPT ![n] = IF k = 0 THEN st.first_seq ELSE st.first_seq + 1]

\* The stream after a message was pushed and k calls of remove_front left the queue q, with
\* the given number of bytes
Keep(n, st, msg, q, total, k) ==
    /\ config' = [config EXCEPT ![n] = st.config]
    /\ messages' = [messages EXCEPT ![n] = q]
    /\ last_seq' = [last_seq EXCEPT ![n] = msg.sequence]
    /\ count' = [count EXCEPT ![n] = st.count + 1 - k]
    /\ bytes' = [bytes EXCEPT ![n] = total]
    /\ first_seq' = [first_seq EXCEPT ![n] = st.first_seq + k]

\* Stream::store of a message on a stream whose fields are st, with the trailing apply_retention
Store(n, st, msg) ==
    LET q0 == Append(st.messages, msg)
        b0 == st.bytes + msg.size
    IN  \E age \in 0..Len(q0) : AgeStops(st.config, q0, age) /\
        LET q1 == Rest(q0, age)
            b1 == b0 - Size(Gone(q0, age))
        IN  \E cnt \in 0..Len(q1) : CountStops(st.config, q1, cnt) /\
            LET q2 == Rest(q1, cnt)
                b2 == b1 - Size(Gone(q1, cnt))
            IN  \E byt \in 0..Len(q2) :
                    /\ BytesStops(st.config, q2, b2, byt)
                    /\ Keep(n, st, msg, Rest(q2, byt), b2 - Size(Gone(q2, byt)), age + cnt + byt)

\* store_message: a stream that is not there is created with the default configuration
StoreMessage(n, subj, size) ==
    LET st == IF n \in streams
              THEN [config |-> config[n], messages |-> messages[n], count |-> count[n],
                    bytes |-> bytes[n], first_seq |-> first_seq[n], last_seq |-> last_seq[n]]
              ELSE [config |-> Default, messages |-> <<>>, count |-> 0,
                    bytes |-> 0, first_seq |-> 1, last_seq |-> 0]
    IN  /\ st.last_seq < MaxSeq
        /\ n \in streams \/ epoch[n] < MaxEpoch
        /\ streams' = streams \cup {n}
        /\ epoch' = [epoch EXCEPT ![n] = IF n \in streams THEN @ ELSE @ + 1]
        /\ Store(n, st, [sequence |-> st.last_seq + 1, timestamp |-> now,
                         subject |-> subj, size |-> size])
        /\ UNCHANGED <<now, consumers, cconfig, cstream, cstate, request, seen, last_ack>>

\* Stream::read: whether there is a message at a sequence number, and the one the index
\* arithmetic yields
Readable(n, seq) ==
    /\ n \in streams
    /\ first_seq[n] <= seq /\ seq <= last_seq[n]
    /\ seq - first_seq[n] + 1 \in DOMAIN messages[n]

\* Mutant: the index is one too small
Read_OffByOne(n, seq) == messages[n][IF seq > first_seq[n] THEN seq - first_seq[n] ELSE 1]

Read(n, seq) == messages[n][seq - first_seq[n] + 1]

-----------------------------------------------------------------------------
(* Consumers *)

\* create_consumer: stream_info, then the streams' lock is released
LookUpStream(t, n, d, cfg) ==
    /\ request[t] = NoRequest
    /\ n \in streams
    /\ request' = [request EXCEPT ![t] = [key |-> consumer_key(n, d), stream |-> n,
                                         config |-> cfg, last_seq |-> last_seq[n]]]
    /\ UNCHANGED <<now, streams, state, consumers, cconfig, cstream, cstate, epoch, seen, last_ack>>

\* Mutant: the last message is looked for one too early
StartSequence_Underflows(cfg, stream_last_seq) ==
    CASE cfg.policy = "All" -> 1
      [] cfg.policy = "Last" -> stream_last_seq - 1
      [] cfg.policy = "New" -> stream_last_seq + 1
      [] cfg.policy = "ByStartSequence" -> cfg.sequence

\* Consumer::new: where delivery starts
StartSequence(cfg, stream_last_seq) ==
    CASE cfg.policy = "All" -> 1
      [] cfg.policy = "Last" -> IF stream_last_seq > 1 THEN stream_last_seq ELSE 1
      [] cfg.policy = "New" -> stream_last_seq + 1
      [] cfg.policy = "ByStartSequence" -> cfg.sequence

\* create_consumer under the consumers' lock; ConsumerAlreadyExists changes nothing
InsertConsumer(t) ==
    LET r == request[t]
        k == r.key
    IN  /\ r # NoRequest
        /\ request' = [request EXCEPT ![t] = NoRequest]
        /\ IF k \in consumers
           THEN UNCHANGED <<consumers, cconfig, cstream, cstate, seen, last_ack>>
           ELSE /\ consumers' = consumers \cup {k}
                /\ cconfig' = [cconfig EXCEPT ![k] = r.config]
                /\ cstream' = [cstream EXCEPT ![k] = r.stream]
                /\ next_sequence' = [next_sequence EXCEPT ![k] = StartSequence(r.config, r.last_seq)]
                /\ pending_ack_count' = [pending_ack_count EXCEPT ![k] = 0]
                /\ pending_acks' = [pending_acks EXCEPT ![k] = {}]
                /\ delivered_count' = [delivered_count EXCEPT ![k] = 0]
                /\ acked_count' = [acked_count EXCEPT ![k] = 0]
                /\ seen' = [seen EXCEPT ![k] = {}]
                /\ last_ack' = [last_ack EXCEPT ![k] = 0]
        /\ UNCHANGED <<now, streams, state, epoch>>

\* delete_consumer
DeleteConsumer(k) ==
    /\ k \in consumers
    /\ consumers' = consumers \ {k}
    /\ UNCHANGED <<now, streams, state, cconfig, cstream, cstate, request, epoch, seen, last_ack>>

\* Mutant: one delivery too many is let through
IsBackpressured_OffByOne(k) ==
    cconfig[k].max_ack_pending > 0 /\ pending_ack_count[k] > cconfig[k].max_ack_pending

\* Consumer::is_backpressured
IsBackpressured(k) ==
    cconfig[k].max_ack_pending > 0 /\ pending_ack_count[k] >= cconfig[k].max_ack_pending

\* next_for_consumer with record_delivery.  It returns Ok(None) and changes nothing when
\* the consumer is backpressured or the read fails.  It reads the stream it is called with.
NextForConsumer(n, d) ==
    LET k == consumer_key(n, d)
        seq == next_sequence[k]
    IN  /\ k \in consumers
        /\ ~ IsBackpressured(k)
        /\ Readable(n, seq)
        /\ pending_acks' = [pending_acks EXCEPT ![k] = @ \cup {seq}]
        /\ pending_ack_count' = [pending_ack_count EXCEPT ![k] = @ + 1]
        /\ delivered_count' = [delivered_count EXCEPT ![k] = @ + 1]
        /\ next_sequence' = [next_sequence EXCEPT ![k] = seq + 1]
        /\ seen' = [seen EXCEPT ![k] = @ \cup {[stream |-> n, epoch |-> epoch[n],
                                                sequence |-> Read(n, seq).sequence,
                                                subject |-> Read(n, seq).subject]}]
        /\ UNCHANGED <<now, streams, state, consumers, cconfig, cstream, acked_count, request, epoch, last_ack>>

\* ack: the policy is not consulted; an unknown sequence changes nothing
Ack(k, seq) ==
    /\ k \in consumers
    /\ seq \in pending_acks[k]
    /\ pending_acks' = [pending_acks EXCEPT ![k] = @ \ {seq}]
    /\ pending_ack_count' = [pending_ack_count EXCEPT ![k] = Cardinality(pending_acks[k] \ {seq})]
    /\ acked_count' = [acked_count EXCEPT ![k] = @ + 1]
    /\ last_ack' = [last_ack EXCEPT ![k] = IF seq > @ THEN seq ELSE @]
    /\ UNCHANGED <<now, streams, state, consumers, cconfig, cstream, next_sequence, delivered_count,
                   request, epoch, seen>>

-----------------------------------------------------------------------------
StreamSteps(n) ==
    \/ \E cfg \in StreamConfigs : CreateStream(n, cfg)
    \/ DeleteStream(n)
    \/ \E subj \in Subjects, size \in Sizes : StoreMessage(n, subj, size)

ConsumerSteps(n, d) ==
    \/ \E t \in Tasks, cfg \in ConsumerConfigs : LookUpStream(t, n, d, cfg)
    \/ NextForConsumer(n, d)
    \/ DeleteConsumer(consumer_key(n, d))
    \/ \E seq \in pending_acks[consumer_key(n, d)] : Ack(consumer_key(n, d), seq)

Next ==
    \/ Tick
    \/ \E n \in StreamNames : StreamSteps(n)
    \/ \E n \in StreamNames, d \in ConsumerNames : ConsumerSteps(n, d)
    \/ \E t \in Tasks : InsertConsumer(t)

Spec == Init /\ [][Next]_vars

-----------------------------------------------------------------------------
(* What the store promises *)

\* read relies on index arithmetic: the deque holds the sequence numbers from first_seq to
\* last_seq without a gap, whichever of the three retention loops removed what, so that
\* the message found at an index is the one asked for and every retained one is found.
Contiguous ==
    \A n \in streams :
        /\ first_seq[n] + Len(messages[n]) = last_seq[n] + 1
        /\ count[n] = Len(messages[n])
        /\ \A i \in DOMAIN messages[n] : messages[n][i].sequence = first_seq[n] + i - 1

\* StreamState.bytes is the payload length of what is retained, whichever loop removed what:
\* the u64 that remove_front subtracts from never goes below zero.
BytesAgree ==
    \A n \in streams : bytes[n] = Size(messages[n])

\* After a store the stream is within its limits; only a single message may exceed max_bytes.
WithinLimits ==
    \A n \in streams :
        LET cfg == config[n]
        IN  /\ cfg.max_msgs > 0 => Len(messages[n]) <= cfg.max_msgs
            /\ cfg.max_bytes > 0 /\ bytes[n] > cfg.max_bytes => Len(messages[n]) <= 1

\* No limit costs the message being stored: max_msgs counts it, max_bytes leaves one
\* message, and max_age_secs is the "Maximum age per message in seconds" (stream.rs), the age
\* of a message just stored being zero.  So a stream that was ever stored to is not empty.
FreshIsRetained ==
    \A n \in streams : last_seq[n] > 0 => messages[n] # <<>>

\* A consumer's books balance: pending_ack_count is the number of entries in pending_acks
\* although deliveries count up and acks recount, every delivery is acknowledged or
\* pending, nothing at or beyond next_sequence is pending, and the limit holds.
BooksBalance ==
    \A k \in consumers :
        /\ pending_ack_count[k] = Cardinality(pending_acks[k])
        /\ delivered_count[k] = acked_count[k] + pending_ack_count[k]
        /\ \A seq \in pending_acks[k] : seq < next_sequence[k]
        /\ cconfig[k].max_ack_pending > 0 => pending_ack_count[k] <= cconfig[k].max_ack_pending

\* A consumer that stays in the map never goes back: the sequence it is given next only
\* grows, so no message is delivered to it twice.
NeverRedelivers ==
    [][\A k \in consumers \cap consumers' : next_sequence'[k] >= next_sequence[k]]_vars

-----------------------------------------------------------------------------
(* What the comments of the code say of streams and consumers *)

\* consumer.rs: the policy All is to "Deliver all messages from the stream".  While the
\* stream retains a message the consumer has not been given, and the consumer may be
\* given more, next_for_consumer has one for it.
AllIsServed ==
    \A k \in consumers :
        LET n == cstream[k]
        IN  /\ cconfig[k].policy = "All" /\ ~ IsBackpressured(k)
            /\ n \in streams /\ messages[n] # <<>> /\ next_sequence[k] <= last_seq[n]
            => Readable(n, next_sequence[k])

\* The same comment: a consumer that has gone past a sequence number was given the
\* message the stream has there.
AllIsSeen ==
    \A k \in consumers : cconfig[k].policy = "All" =>
        LET n == cstream[k]
        IN  \A seq \in first_seq[n]..last_seq[n] : seq < next_sequence[k] =>
                \E e \in seen[k] : e.epoch = epoch[n] /\ e.sequence = seq

\* consumer.rs, AckPolicy::All: "Acknowledging a message acks all messages before it".
AckAllAcksBefore ==
    \A k \in consumers : cconfig[k].ack = "All" => \A seq \in pending_acks[k] : seq > last_ack[k]

\* consumer.rs, AckPolicy::None: "No acknowledgement required".  Such a consumer is not
\* made to wait for one.
NoAckNeverWaits ==
    \A k \in consumers : cconfig[k].ack = "None" => ~ IsBackpressured(k)

\* consumer.rs, filter_subject: "only deliver messages matching this pattern".
FilterIsApplied ==
    \A k \in consumers : cconfig[k].filter # NoFilter =>
        \A e \in seen[k] : e.subject = cconfig[k].filter

\* consumer.rs: a Consumer is "A durable consumer bound to a stream".
BoundToItsStream ==
    \A k \in consumers : \A e \in seen[k] : e.stream = cstream[k]

===============================================================================

-------------------------------- MODULE Session --------------------------------
(***************************************************************************)
(* The session of a connection: handle_connection with its write task      *)
(* (handler.rs) and the dispatcher (dispatcher.rs) of zetmq-server.        *)
(*                                                                         *)
(* A session reads frames, handles them one after the other and puts its   *)
(* replies on a bounded channel, which its write task empties into the     *)
(* socket.  The channel also takes the MSG frames of publishers, which     *)
(* clone its sender out of a subscription, and the replies of store tasks. *)
(* The write task ends when the last sender is gone.                       *)
(*                                                                         *)
(* A frame is its kind: what the session does with it.  What subscribe,    *)
(* unsubscribe and remove_connection do inside the core is the subject of  *)
(* SubscriptionTable; here each is one step.  The clock is not modelled:   *)
(* a tick of the heartbeat may find any time elapsed.                      *)
(***************************************************************************)
EXTENDS Integers, Sequences, FiniteSets

CONSTANTS
    Conns,
    Kinds,              \* the kinds of frames the clients send
    Restricted,         \* whether the users have publish permissions to be checked
    Capacity,           \* connection_output_buffer
    MaxSubscriptions,   \* max_subscriptions_per_connection
    PubBatchLimit, SkimLimit, FlushThreshold,   \* PUB_BATCH_LIMIT, NO_SUB_PUB_BATCH_LIMIT, LOCAL_PUBLISHED_..
    Word,               \* the counters of CoreMetrics are unsigned: modulo this
    MaxFrames,          \* bound: frames a client sends
    MaxIds,             \* bound: subscription ids
    MaxMsgs,            \* bound: MSG frames offered to a session
    MaxPings            \* bound: PINGs of a session's heartbeat

\* A PUB that is fine; that the permissions do not cover; whose subject does not parse; whose
\* payload is malformed; that is larger than max_frame_size
Pubs == {"pub", "pub_denied", "pub_invalid", "pub_broken", "pub_oversize"}
\* "nonsense" is a frame that is no command, "garbage" are bytes that are no frame
AllKinds == Pubs \cup {"connect", "connect_bad", "ping", "sub", "sub_denied", "sub_invalid",
                       "unsub", "stream", "ack", "nonsense", "garbage"}

ASSUME SessionAssumption ==
    /\ IsFiniteSet(Conns)
    /\ Kinds \subseteq AllKinds
    /\ Restricted \in BOOLEAN
    /\ {Capacity, MaxSubscriptions, PubBatchLimit, SkimLimit, FlushThreshold, Word} \subseteq Nat \ {0}
    /\ {MaxFrames, MaxIds, MaxMsgs, MaxPings} \subseteq Nat
    /\ MaxIds >= MaxFrames * Cardinality(Conns)

VARIABLES
    inbox, peer,            \* frames the client has sent; whether its socket is open
    read_buf, state, loop,  \* read_buf and state of handle_connection, and where it is
    processed, batch,       \* the publish path: frames handled, and commands or PUBs so far
    local_published,
    outbound,               \* the channel
    encode_buf, wire, writer,   \* the write task, and what it has written
    own_tx, subs, inflight, tasks,  \* senders: the session's, its subscriptions', publishers', store tasks'
    next_id,                \* sub_id_gen
    shutdown,               \* the broadcast was sent
    active_connections, messages_published,     \* CoreMetrics
    sent, pings, offered,   \* counters of the bounds
    accepted,               \* history: what the channel took
    failed,                 \* history: a write failed
    pubs,                   \* history: well-formed, allowed PUBs taken out of a read_buf
    lost,                   \* history: those that went with a malformed PUB of their batch
    silent,                 \* history: a SUB of the session was left without a reply
    broken_off              \* history: the loop over the frames ended at a refused CONNECT

client == <<inbox, peer, sent>>
frames == <<read_buf, state, loop>>
publish == <<processed, batch, local_published>>
channel == <<outbound, accepted>>
write_task == <<encode_buf, wire, writer, failed>>
senders == <<own_tx, subs, inflight, tasks, offered>>
metrics == <<active_connections, messages_published>>
history == <<pubs, lost, silent, broken_off>>
vars == <<client, frames, publish, channel, write_task, senders, next_id, shutdown, metrics, pings, history>>

Outbound == {"connack", "pong", "ping", "error", "suback", "unsuback", "msg", "info", "drain"}
\* A connection "waiting" or in the TLS "handshake" has no session yet, one "refused" gets none
Loop == {"waiting", "handshake", "refused", "select", "frames", "suback", "unsuback", "batch", "skim",
         "drain", "cleanup", "await", "closed"}

TypeOK ==
    /\ inbox \in [Conns -> Seq(Kinds)] /\ peer \in [Conns -> {"open", "closed"}]
    /\ read_buf \in [Conns -> Seq(Kinds)]
    /\ state \in [Conns -> {"New", "Connected", "Draining"}]
    /\ loop \in [Conns -> Loop]
    /\ processed \in [Conns -> Nat] /\ batch \in [Conns -> Nat] /\ local_published \in [Conns -> Nat]
    /\ \A c \in Conns : processed[c] <= IF loop[c] = "batch" THEN PubBatchLimit ELSE SkimLimit
    /\ \A c \in Conns : batch[c] <= processed[c] /\ local_published[c] < FlushThreshold
    /\ outbound \in [Conns -> Seq(Outbound)]
    /\ \A c \in Conns : Len(outbound[c]) <= Capacity
    /\ encode_buf \in [Conns -> Seq(Outbound)] /\ wire \in [Conns -> Seq(Outbound)]
    /\ writer \in [Conns -> {"recv", "write", "done"}]
    /\ own_tx \in [Conns -> BOOLEAN] /\ subs \in [Conns -> SUBSET (1..MaxIds)]
    /\ \A c \in Conns : Cardinality(subs[c]) <= MaxSubscriptions
    /\ inflight \in [Conns -> Nat] /\ tasks \in [Conns -> Nat]
    /\ next_id \in 1..(MaxIds + 1)
    /\ shutdown \in BOOLEAN
    /\ active_connections \in 0..(Word - 1)
    /\ messages_published \in Nat

\* Every connection is at the same place
StartAt(label) ==
    /\ inbox = [c \in Conns |-> <<>>] /\ peer = [c \in Conns |-> "open"] /\ sent = [c \in Conns |-> 0]
    /\ read_buf = [c \in Conns |-> <<>>] /\ state = [c \in Conns |-> "New"]
    /\ loop = [c \in Conns |-> label]
    /\ processed = [c \in Conns |-> 0] /\ batch = [c \in Conns |-> 0]
    /\ local_published = [c \in Conns |-> 0]
    /\ outbound = [c \in Conns |-> <<>>] /\ accepted = [c \in Conns |-> <<>>]
    /\ encode_buf = [c \in Conns |-> <<>>] /\ wire = [c \in Conns |-> <<>>]
    /\ writer = [c \in Conns |-> "recv"] /\ failed = [c \in Conns |-> FALSE]
    /\ own_tx = [c \in Conns |-> TRUE] /\ subs = [c \in Conns |-> {}]
    /\ inflight = [c \in Conns |-> 0] /\ tasks = [c \in Conns |-> 0] /\ offered = [c \in Conns |-> 0]
    /\ next_id = 1
    /\ shutdown = FALSE
    /\ active_connections = 0 /\ messages_published = 0
    /\ pings = [c \in Conns |-> 0]
    /\ pubs = 0 /\ lost = 0
    /\ silent = [c \in Conns |-> FALSE] /\ broken_off = [c \in Conns |-> FALSE]

\* handle_connection has been called for each
Init == StartAt("select")

Goto(c, label) == loop' = [loop EXCEPT ![c] = label]

-----------------------------------------------------------------------------
(* The client and the channel *)

ClientSend(c, f) ==
    /\ peer[c] = "open"
    /\ sent[c] < MaxFrames
    /\ sent' = [sent EXCEPT ![c] = @ + 1]
    /\ inbox' = [inbox EXCEPT ![c] = Append(@, f)]
    /\ UNCHANGED <<peer, frames, publish, channel, write_task, senders, next_id, shutdown,
                   metrics, pings, history>>

ClientClose(c) ==
    /\ peer[c] = "open"
    /\ peer' = [peer EXCEPT ![c] = "closed"]
    /\ UNCHANGED <<inbox, sent, frames, publish, channel, write_task, senders, next_id, shutdown,
                   metrics, pings, history>>

\* Whether outbound_tx.try_send succeeds: the receiver is there and the channel has room
Room(c) == writer[c] # "done" /\ Len(outbound[c]) < Capacity

\* let _ = outbound_tx.try_send(frame)
TrySend(c, frame) ==
    /\ outbound' = [outbound EXCEPT ![c] = IF Room(c) THEN Append(@, frame) ELSE @]
    /\ accepted' = [accepted EXCEPT ![c] = IF Room(c) THEN Append(@, frame) ELSE @]

-----------------------------------------------------------------------------
(* The read loop *)

\* reader.read_buf: some of what the client has sent
Read(c, k) ==
    /\ loop[c] = "select"
    /\ k \in 1..Len(inbox[c])
    /\ read_buf' = [read_buf EXCEPT ![c] = @ \o SubSeq(inbox[c], 1, k)]
    /\ inbox' = [inbox EXCEPT ![c] = SubSeq(@, k + 1, Len(@))]
    /\ Goto(c, "frames")
    /\ broken_off' = [broken_off EXCEPT ![c] = FALSE]
    /\ UNCHANGED <<peer, sent, state, publish, channel, write_task, senders, next_id, shutdown,
                   metrics, pings, pubs, lost, silent>>

\* Ok(0) or an error: the client is gone
ReadEof(c) ==
    /\ loop[c] = "select"
    /\ peer[c] = "closed" /\ inbox[c] = <<>>
    /\ Goto(c, "cleanup")
    /\ UNCHANGED <<client, read_buf, state, publish, channel, write_task, senders, next_id,
                   shutdown, metrics, pings, history>>

\* heartbeat_ticker.tick() of a connected session: a timeout, a PING, or neither.  Before
\* CONNECT the tick changes nothing.
Heartbeat(c) ==
    /\ loop[c] = "select"
    /\ state[c] = "Connected"
    /\ \/ Goto(c, "cleanup") /\ UNCHANGED <<channel, pings>>
       \/ /\ pings[c] < MaxPings
          /\ pings' = [pings EXCEPT ![c] = @ + 1]
          /\ TrySend(c, "ping")
          /\ Goto(c, "frames")
       \/ Goto(c, "frames") /\ UNCHANGED <<channel, pings>>
    /\ UNCHANGED <<client, read_buf, state, publish, write_task, senders, next_id, shutdown,
                   metrics, history>>

Shutdown ==
    /\ ~ shutdown
    /\ shutdown' = TRUE
    /\ UNCHANGED <<client, frames, publish, channel, write_task, senders, next_id, metrics, pings, history>>

\* Mutant: a session that is not connected yet goes on, as for a tick of the heartbeat
ReceiveShutdown_Connected(c) ==
    /\ loop[c] = "select"
    /\ shutdown
    /\ state[c] = "Connected"
    /\ state' = [state EXCEPT ![c] = "Draining"]
    /\ TrySend(c, "drain")
    /\ Goto(c, "drain")
    /\ UNCHANGED <<client, read_buf, publish, write_task, senders, next_id, shutdown, metrics, pings, history>>

\* shutdown_rx.recv()
ReceiveShutdown(c) ==
    /\ loop[c] = "select"
    /\ shutdown
    /\ IF state[c] = "Connected"
       THEN /\ state' = [state EXCEPT ![c] = "Draining"]
            /\ TrySend(c, "drain")
            /\ Goto(c, "drain")
       ELSE Goto(c, "cleanup") /\ UNCHANGED <<state, channel>>
    /\ UNCHANGED <<client, read_buf, publish, write_task, senders, next_id, shutdown, metrics,
                   pings, history>>

\* The select! of a draining session: one read, whatever it yields, or drain_timeout
Drain(c, k) ==
    /\ loop[c] = "drain"
    /\ k \in 0..Len(inbox[c])
    /\ read_buf' = [read_buf EXCEPT ![c] = @ \o SubSeq(inbox[c], 1, k)]
    /\ inbox' = [inbox EXCEPT ![c] = SubSeq(@, k + 1, Len(@))]
    /\ Goto(c, "cleanup")
    /\ UNCHANGED <<peer, sent, state, publish, channel, write_task, senders, next_id, shutdown,
                   metrics, pings, history>>

\* Ok(None): the read buffer is empty or ends in a part of a frame
NoFrame(c) ==
    /\ loop[c] = "frames"
    /\ read_buf[c] = <<>>
    /\ messages_published' = messages_published + local_published[c]
    /\ local_published' = [local_published EXCEPT ![c] = 0]
    /\ Goto(c, "select")
    /\ UNCHANGED <<client, read_buf, state, processed, batch, channel, write_task, senders,
                   next_id, shutdown, active_connections, pings, history>>

\* Ok((false, _)): the read buffer ends in a part of a PUB, and what was published is not flushed
PartOfPub(c) ==
    /\ loop[c] = "frames"
    /\ read_buf[c] = <<>>
    /\ state[c] = "Connected"
    /\ inbox[c] # <<>> /\ Head(inbox[c]) \in Pubs
    /\ Goto(c, "select")
    /\ UNCHANGED <<client, read_buf, state, publish, channel, write_task, senders, next_id,
                   shutdown, metrics, pings, history>>

-----------------------------------------------------------------------------
(* PUB of a connected session: dispatch_publish_batch_from_read_buf *)

NextIsPub(c) == read_buf[c] # <<>> /\ Head(read_buf[c]) \in Pubs

\* Without a subscriber anywhere the PUBs are skimmed: drain_publish_batch_without_subscribers
StartPubs(c) ==
    /\ loop[c] = "frames"
    /\ state[c] = "Connected"
    /\ NextIsPub(c)
    /\ processed' = [processed EXCEPT ![c] = 0]
    /\ batch' = [batch EXCEPT ![c] = 0]
    /\ Goto(c, IF \E d \in Conns : subs[d] # {} THEN "batch" ELSE "skim")
    /\ UNCHANGED <<client, read_buf, state, local_published, channel, write_task, senders,
                   next_id, shutdown, metrics, pings, history>>

\* publish_allowed
Allowed(f) == ~ Restricted \/ f = "pub"

\* What the loop returns an error for: peek_pub_frame_layout or _total, parse_publish_payload
Malformed(c, f) ==
    \/ f = "pub_oversize"
    \/ f = "pub_broken" /\ ~ (loop[c] = "skim" /\ ~ Restricted)

\* What becomes a published message: dispatch_publish_batch skips a subject that does not parse,
\* an unrestricted skim counts frames without looking into them
Counts(c, f) == Allowed(f) /\ (f # "pub_invalid" \/ loop[c] = "skim")

\* One round of the loop over the PUBs in the read buffer
TakePub(c) ==
    LET f == Head(read_buf[c])
    IN  /\ loop[c] \in {"batch", "skim"}
        /\ processed[c] < IF loop[c] = "batch" THEN PubBatchLimit ELSE SkimLimit
        /\ NextIsPub(c)
        /\ ~ Malformed(c, f)
        /\ read_buf' = [read_buf EXCEPT ![c] = Tail(@)]
        /\ processed' = [processed EXCEPT ![c] = @ + 1]
        /\ batch' = [batch EXCEPT ![c] = IF Counts(c, f) THEN @ + 1 ELSE @]
        /\ pubs' = IF Allowed(f) /\ f \in {"pub", "pub_denied"} THEN pubs + 1 ELSE pubs
        /\ IF Allowed(f) THEN UNCHANGED channel ELSE TrySend(c, "error")
        /\ UNCHANGED <<client, state, loop, local_published, write_task, senders, next_id,
                       shutdown, metrics, pings, lost, silent, broken_off>>

\* The error ends the loop: the commands decoded before it, or their count, are lost, and
\* the session clears its read buffer
PubError(c) ==
    /\ loop[c] \in {"batch", "skim"}
    /\ processed[c] < IF loop[c] = "batch" THEN PubBatchLimit ELSE SkimLimit
    /\ NextIsPub(c)
    /\ Malformed(c, Head(read_buf[c]))
    /\ read_buf' = [read_buf EXCEPT ![c] = <<>>]
    /\ processed' = [processed EXCEPT ![c] = 0]
    /\ batch' = [batch EXCEPT ![c] = 0]
    /\ lost' = lost + batch[c]
    /\ TrySend(c, "error")
    /\ Goto(c, "frames")
    /\ UNCHANGED <<client, state, local_published, write_task, senders, next_id, shutdown,
                   metrics, pings, pubs, silent, broken_off>>

PubsTaken(c) ==
    \/ ~ NextIsPub(c)
    \/ processed[c] = IF loop[c] = "batch" THEN PubBatchLimit ELSE SkimLimit

\* dispatch_publish_batch and publish_batch, which counts the messages; their delivery is
\* the work of Offer and Deliver below
BatchDone(c) ==
    /\ loop[c] = "batch"
    /\ PubsTaken(c)
    /\ messages_published' = messages_published + batch[c]
    /\ processed' = [processed EXCEPT ![c] = 0]
    /\ batch' = [batch EXCEPT ![c] = 0]
    /\ Goto(c, "frames")
    /\ UNCHANGED <<client, read_buf, state, local_published, channel, write_task, senders,
                   next_id, shutdown, active_connections, pings, history>>

\* Mutant: the PUBs skimmed, the session goes back to read
SkimDone_Breaks(c) ==
    LET total == local_published[c] + batch[c]
    IN  /\ loop[c] = "skim"
        /\ PubsTaken(c)
        /\ IF total >= FlushThreshold
           THEN /\ messages_published' = messages_published + total
                /\ local_published' = [local_published EXCEPT ![c] = 0]
           ELSE /\ local_published' = [local_published EXCEPT ![c] = total]
                /\ UNCHANGED messages_published
        /\ processed' = [processed EXCEPT ![c] = 0]
        /\ batch' = [batch EXCEPT ![c] = 0]
        /\ Goto(c, "select")
        /\ UNCHANGED <<client, read_buf, state, channel, write_task, senders, next_id,
                       shutdown, active_connections, pings, history>>

\* local_published += published, flushed at the threshold
SkimDone(c) ==
    LET total == local_published[c] + batch[c]
    IN  /\ loop[c] = "skim"
        /\ PubsTaken(c)
        /\ IF total >= FlushThreshold
           THEN /\ messages_published' = messages_published + total
                /\ local_published' = [local_published EXCEPT ![c] = 0]
           ELSE /\ local_published' = [local_published EXCEPT ![c] = total]
                /\ UNCHANGED messages_published
        /\ processed' = [processed EXCEPT ![c] = 0]
        /\ batch' = [batch EXCEPT ![c] = 0]
        /\ Goto(c, "frames")
        /\ UNCHANGED <<client, read_buf, state, channel, write_task, senders, next_id,
                       shutdown, active_connections, pings, history>>

-----------------------------------------------------------------------------
(* The other frames: Frame::decode_from, BrokerCommand::from_frame and dispatch *)

\* A frame that is not a PUB of a connected session is next
Handles(c, kinds) ==
    /\ loop[c] = "frames"
    /\ read_buf[c] # <<>>
    /\ Head(read_buf[c]) \in kinds
    /\ ~ (state[c] = "Connected" /\ NextIsPub(c))

Take(c) == read_buf' = [read_buf EXCEPT ![c] = Tail(@)]

\* CONNECT that validate_auth accepts, also a second one
Connect(c) ==
    /\ Handles(c, {"connect"})
    /\ Take(c)
    /\ state' = [state EXCEPT ![c] = "Connected"]
    /\ active_connections' = (active_connections + 1) % Word
    /\ TrySend(c, "connack")
    /\ UNCHANGED <<client, loop, publish, write_task, senders, next_id, shutdown, messages_published, pings, history>>

\* CONNECT that it refuses: `break' leaves the loop over the frames
RefuseConnect(c) ==
    /\ Handles(c, {"connect_bad"})
    /\ Take(c)
    /\ TrySend(c, "error")
    /\ Goto(c, "select")
    /\ broken_off' = [broken_off EXCEPT ![c] = TRUE]
    /\ UNCHANGED <<client, state, publish, write_task, senders, next_id, shutdown,
                   metrics, pings, pubs, lost, silent>>

\* PING, connected or not; a frame from_frame refuses
Answer(c) ==
    /\ Handles(c, {"ping", "nonsense"} \cup
                  (IF state[c] = "Connected" THEN {} ELSE {"pub_broken"}))
    /\ Take(c)
    /\ TrySend(c, IF Head(read_buf[c]) = "ping" THEN "pong" ELSE "error")
    /\ UNCHANGED <<client, state, loop, publish, write_task, senders, next_id, shutdown,
                   metrics, pings, history>>

\* A command before CONNECT is ignored; so is, in effect, an ACK
Ignore(c) ==
    /\ Handles(c, IF state[c] = "Connected" THEN {"ack"}
                  ELSE {"sub", "sub_denied", "sub_invalid", "unsub", "stream", "ack",
                        "pub", "pub_denied", "pub_invalid"})
    /\ Take(c)
    /\ UNCHANGED <<client, state, loop, publish, channel, write_task, senders, next_id,
                   shutdown, metrics, pings, history>>

\* Bytes that decode_from refuses: the read buffer is cleared
DecodeError(c) ==
    /\ Handles(c, {"garbage", "pub_oversize"})
    /\ read_buf' = [read_buf EXCEPT ![c] = <<>>]
    /\ messages_published' = messages_published + local_published[c]
    /\ local_published' = [local_published EXCEPT ![c] = 0]
    /\ TrySend(c, "error")
    /\ UNCHANGED <<client, state, loop, processed, batch, write_task, senders, next_id,
                   shutdown, active_connections, pings, history>>

\* SUB over the limit or outside the permissions
RefuseSub(c) ==
    /\ state[c] = "Connected"
    /\ Handles(c, {"sub", "sub_denied", "sub_invalid"})
    /\ Cardinality(subs[c]) >= MaxSubscriptions \/ Head(read_buf[c]) = "sub_denied"
    /\ Take(c)
    /\ TrySend(c, "error")
    /\ silent' = [silent EXCEPT ![c] = @ \/ ~ Room(c)]
    /\ UNCHANGED <<client, state, loop, publish, write_task, senders, next_id, shutdown,
                   metrics, pings, pubs, lost, broken_off>>

\* SUB with a pattern that does not parse: dispatch does nothing
InvalidSub(c) ==
    /\ state[c] = "Connected"
    /\ Handles(c, {"sub_invalid"})
    /\ Cardinality(subs[c]) < MaxSubscriptions
    /\ Take(c)
    /\ silent' = [silent EXCEPT ![c] = TRUE]
    /\ UNCHANGED <<client, state, loop, publish, channel, write_task, senders, next_id,
                   shutdown, metrics, pings, pubs, lost, broken_off>>

\* SUB: broker.subscribe, which gives the core a clone of the sender
Sub(c) ==
    /\ state[c] = "Connected"
    /\ Handles(c, {"sub"})
    /\ Cardinality(subs[c]) < MaxSubscriptions
    /\ next_id <= MaxIds
    /\ Take(c)
    /\ next_id' = next_id + 1
    /\ subs' = [subs EXCEPT ![c] = @ \cup {next_id}]
    /\ Goto(c, "suback")
    /\ UNCHANGED <<client, state, publish, channel, write_task, own_tx, inflight, tasks, offered,
                   shutdown, metrics, pings, history>>

\* SUBACK, after publishers may have used the subscription
Suback(c) ==
    /\ loop[c] = "suback"
    /\ TrySend(c, "suback")
    /\ silent' = [silent EXCEPT ![c] = @ \/ ~ Room(c)]
    /\ Goto(c, "frames")
    /\ UNCHANGED <<client, read_buf, state, publish, write_task, senders, next_id, shutdown, metrics, pings, pubs, lost, broken_off>>

\* UNSUB of any id, of any session: broker.unsubscribe
Unsub(c, s) ==
    /\ state[c] = "Connected"
    /\ Handles(c, {"unsub"})
    /\ Take(c)
    /\ subs' = [d \in Conns |-> subs[d] \ {s}]
    /\ Goto(c, "unsuback")
    /\ UNCHANGED <<client, state, publish, channel, write_task, own_tx, inflight, tasks,
                   offered, next_id, shutdown, metrics, pings, history>>

Unsuback(c) ==
    /\ loop[c] = "unsuback"
    /\ TrySend(c, "unsuback")
    /\ Goto(c, "frames")
    /\ UNCHANGED <<client, read_buf, state, publish, write_task, senders, next_id, shutdown,
                   metrics, pings, history>>

\* CREATE_STREAM, DELETE_STREAM: a task with a sender of its own is spawned
SpawnStoreTask(c) ==
    /\ state[c] = "Connected"
    /\ Handles(c, {"stream"})
    /\ Take(c)
    /\ tasks' = [tasks EXCEPT ![c] = @ + 1]
    /\ UNCHANGED <<client, state, loop, publish, channel, write_task, own_tx, subs, inflight,
                   offered, next_id, shutdown, metrics, pings, history>>

-----------------------------------------------------------------------------
(* The end of the session *)

\* Mutant: the sender is dropped only when the write task has ended
Cleanup_KeepsSender(c) ==
    /\ loop[c] = "cleanup"
    /\ messages_published' = messages_published + local_published[c]
    /\ local_published' = [local_published EXCEPT ![c] = 0]
    /\ subs' = [subs EXCEPT ![c] = {}]
    /\ active_connections' = (active_connections - 1) % Word
    /\ Goto(c, "await")
    /\ UNCHANGED <<client, read_buf, state, processed, batch, channel, write_task, own_tx,
                   inflight, tasks, offered, next_id, shutdown, pings, history>>

\* Mutant: what was counted since the last flush is forgotten
Cleanup_ForgetsLocal(c) ==
    /\ loop[c] = "cleanup"
    /\ local_published' = [local_published EXCEPT ![c] = 0]
    /\ subs' = [subs EXCEPT ![c] = {}]
    /\ own_tx' = [own_tx EXCEPT ![c] = FALSE]
    /\ active_connections' = (active_connections - 1) % Word
    /\ Goto(c, "await")
    /\ UNCHANGED <<client, read_buf, state, processed, batch, channel, write_task, inflight,
                   tasks, offered, next_id, shutdown, messages_published, pings, history>>

\* remove_connection, then drop(outbound_tx)
Cleanup(c) ==
    /\ loop[c] = "cleanup"
    /\ messages_published' = messages_published + local_published[c]
    /\ local_published' = [local_published EXCEPT ![c] = 0]
    /\ subs' = [subs EXCEPT ![c] = {}]
    /\ own_tx' = [own_tx EXCEPT ![c] = FALSE]
    /\ active_connections' = (active_connections - 1) % Word
    /\ Goto(c, "await")
    /\ UNCHANGED <<client, read_buf, state, processed, batch, channel, write_task, inflight,
                   tasks, offered, next_id, shutdown, pings, history>>

\* write_handle.await
Await(c) ==
    /\ loop[c] = "await"
    /\ writer[c] = "done"
    /\ Goto(c, "closed")
    /\ UNCHANGED <<client, read_buf, state, publish, channel, write_task, senders, next_id,
                   shutdown, metrics, pings, history>>

-----------------------------------------------------------------------------
(* The write task *)

\* recv().await and the try_recv that follow, up to 128 KB
WriterRecv(c, k) ==
    /\ writer[c] = "recv"
    /\ k \in 1..Len(outbound[c])
    /\ encode_buf' = [encode_buf EXCEPT ![c] = @ \o SubSeq(outbound[c], 1, k)]
    /\ outbound' = [outbound EXCEPT ![c] = SubSeq(@, k + 1, Len(@))]
    /\ writer' = [writer EXCEPT ![c] = "write"]
    /\ UNCHANGED <<client, frames, publish, accepted, wire, failed, senders, next_id,
                   shutdown, metrics, pings, history>>

\* Mutant: encode_buf is not cleared
WriterWrite_Keeps(c) ==
    /\ writer[c] = "write"
    /\ wire' = [wire EXCEPT ![c] = @ \o encode_buf[c]]
    /\ writer' = [writer EXCEPT ![c] = "recv"]
    /\ UNCHANGED <<client, frames, publish, channel, encode_buf, failed, senders, next_id,
                   shutdown, metrics, pings, history>>

\* write_all and flush
WriterWrite(c) ==
    /\ writer[c] = "write"
    /\ wire' = [wire EXCEPT ![c] = @ \o encode_buf[c]]
    /\ encode_buf' = [encode_buf EXCEPT ![c] = <<>>]
    /\ writer' = [writer EXCEPT ![c] = "recv"]
    /\ UNCHANGED <<client, frames, publish, channel, failed, senders, next_id, shutdown,
                   metrics, pings, history>>

\* They fail, the client being gone: the task ends and the receiver goes with it
WriterFails(c) ==
    /\ writer[c] = "write"
    /\ peer[c] = "closed"
    /\ writer' = [writer EXCEPT ![c] = "done"]
    /\ failed' = [failed EXCEPT ![c] = TRUE]
    /\ outbound' = [outbound EXCEPT ![c] = <<>>]
    /\ UNCHANGED <<client, frames, publish, accepted, encode_buf, wire, senders, next_id,
                   shutdown, metrics, pings, history>>

\* Mutant: the task is stopped when the session drops its own sender
WriterEnds_WithSession(c) ==
    /\ writer[c] = "recv"
    /\ ~ own_tx[c]
    /\ writer' = [writer EXCEPT ![c] = "done"]
    /\ UNCHANGED <<client, frames, publish, channel, encode_buf, wire, failed, senders,
                   next_id, shutdown, metrics, pings, history>>

\* recv() returns None: the channel is empty and no sender is left
WriterEnds(c) ==
    /\ writer[c] = "recv"
    /\ outbound[c] = <<>>
    /\ ~ own_tx[c] /\ subs[c] = {} /\ inflight[c] = 0 /\ tasks[c] = 0
    /\ writer' = [writer EXCEPT ![c] = "done"]
    /\ UNCHANGED <<client, frames, publish, channel, encode_buf, wire, failed, senders,
                   next_id, shutdown, metrics, pings, history>>

-----------------------------------------------------------------------------
(* The other users of the channel *)

\* A publisher clones the delivery handle of a subscription; see BrokerCore
Offer(c) ==
    /\ subs[c] # {}
    /\ offered[c] < MaxMsgs
    /\ offered' = [offered EXCEPT ![c] = @ + 1]
    /\ inflight' = [inflight EXCEPT ![c] = @ + 1]
    /\ UNCHANGED <<client, frames, publish, channel, write_task, own_tx, subs, tasks, next_id,
                   shutdown, metrics, pings, history>>

\* ChannelDelivery::deliver; the clone is dropped
Deliver(c) ==
    /\ inflight[c] > 0
    /\ inflight' = [inflight EXCEPT ![c] = @ - 1]
    /\ TrySend(c, "msg")
    /\ UNCHANGED <<client, frames, publish, write_task, own_tx, subs, tasks, offered, next_id,
                   shutdown, metrics, pings, history>>

\* A store task replies with STREAM_INFO or ERROR and ends
StoreReply(c) ==
    /\ tasks[c] > 0
    /\ tasks' = [tasks EXCEPT ![c] = @ - 1]
    /\ TrySend(c, "info")
    /\ UNCHANGED <<client, frames, publish, write_task, own_tx, subs, inflight, offered,
                   next_id, shutdown, metrics, pings, history>>

-----------------------------------------------------------------------------
Select(c) ==
    \/ (\E k \in 1..Len(inbox[c]) : Read(c, k)) \/ ReadEof(c)

HandleFrame(c) ==
    \/ NoFrame(c) \/ PartOfPub(c)
    \/ StartPubs(c) \/ TakePub(c) \/ PubError(c) \/ BatchDone(c) \/ SkimDone(c)
    \/ Connect(c) \/ RefuseConnect(c) \/ Answer(c) \/ Ignore(c) \/ DecodeError(c)
    \/ RefuseSub(c) \/ InvalidSub(c) \/ Sub(c) \/ Suback(c)
    \/ (\E s \in 0..MaxIds : Unsub(c, s)) \/ Unsuback(c) \/ SpawnStoreTask(c)

End(c) == (\E k \in 0..Len(inbox[c]) : Drain(c, k)) \/ Cleanup(c) \/ Await(c)

WriteTask(c) == (\E k \in 1..Len(outbound[c]) : WriterRecv(c, k)) \/ WriterEnds(c)

Socket(c) == WriterWrite(c) \/ WriterFails(c)

Others(c) == Deliver(c) \/ StoreReply(c)

Client(c) == (\E f \in Kinds : ClientSend(c, f)) \/ ClientClose(c)

Next ==
    \/ Shutdown
    \/ \E c \in Conns :
          \/ Client(c) \/ Select(c) \/ Heartbeat(c) \/ ReceiveShutdown(c)
          \/ HandleFrame(c) \/ End(c) \/ WriteTask(c) \/ Socket(c) \/ Offer(c) \/ Others(c)

Spec == Init /\ [][Next]_vars

-----------------------------------------------------------------------------
\* The socket is given what the channel took, in that order and each frame once, however the
\* write task cuts it into batches; only a failed write loses frames.
WrittenInOrder ==
    \A c \in Conns :
        /\ Len(wire[c]) <= Len(accepted[c]) /\ wire[c] = SubSeq(accepted[c], 1, Len(wire[c]))
        /\ ~ failed[c] => wire[c] \o encode_buf[c] \o outbound[c] = accepted[c]

\* "Cleanup: remove subscriptions first so broker stops delivering, then drop the sender to signal
\* the write task to finish" (handler.rs): the connection is closed only when everything the
\* channel took was written, also what publishers and store tasks sent after the cleanup.
ClosedIsFlushed ==
    \A c \in Conns : loop[c] = "closed" /\ ~ failed[c] => wire[c] = accepted[c]

\* messages_published is the "Total de PUB recebidos" (architecture.md): when the sessions are
\* over, no well-formed PUB a session took was left uncounted, whether it went through a batch or
\* was counted in local_published and flushed later; only a malformed PUB takes those before it in
\* its batch along.
PubsAreCounted ==
    (\A c \in Conns : loop[c] = "closed") => messages_published + lost >= pubs

\* The inner loop "Processa todos os frames completos" (architecture.md): the session goes back to
\* wait for more bytes only when no complete frame is left in its read buffer, or when
\* it has just refused a CONNECT.
ReadLoopHandlesAll ==
    \A c \in Conns : loop[c] = "select" /\ ~ broken_off[c] => read_buf[c] = <<>>

-----------------------------------------------------------------------------
(* What the documents say and the sessions do not do *)

\* active_connections are the "Conexoes TCP ativas" (architecture.md): never more than the sessions
\* that are not over.
ActiveIsOpen ==
    active_connections <= Cardinality({c \in Conns : loop[c] # "closed"})

\* "Cliente recebe `SUBACK`" and "Erros viram frame `ERROR`" (task.md): every SUB of a
\* connected client is answered.
SubIsAnswered == \A c \in Conns : ~ silent[c]

\* "Total de PUB recebidos" (architecture.md): every well-formed PUB that was received.
EveryPubIsCounted ==
    (\A c \in Conns : loop[c] = "closed") => messages_published >= pubs

\* "Processa todos os frames completos" (architecture.md): always.
NoFrameWaits ==
    \A c \in Conns : loop[c] = "select" => read_buf[c] = <<>>

\* A draining session goes on to "Continue reading briefly to allow client to finish" (handler.rs):
\* what it reads then it handles.
DrainedIsHandled ==
    \A c \in Conns : loop[c] = "closed" /\ state[c] = "Draining" => read_buf[c] = <<>>

===============================================================================

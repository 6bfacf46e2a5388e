# ZetMQ in TLA+

TLA+ models of the ZetMQ broker, the TLC runs that check them on small instances, and proofs
that TLAPS checks for every instance. `PROJECT.json` lists the runs, the source lines behind each
definition, a mutant for each checked property, the hazards of the code, the findings and
the theorems.

## The system

ZetMQ is a publish/subscribe broker. A client connects over TCP, sends CONNECT, and then SUB, UNSUB,
PUB, stream commands and PING; the server answers and sends MSG frames. Its parts:

| part | source (crates/) | module |
|---|---|---|
| broker core: subscriptions, queue groups, metrics | zetmq-core `broker/core.rs`, `subscription/`, `id.rs`, `metrics.rs` | `SubscriptionTable` |
| broker core: publishing | zetmq-core `broker/core.rs`, `delivery.rs` | `BrokerCore` |
| routing engine, subject trie | zetmq-core `routing/` | `RoutingEngine` |
| subjects and patterns | zetmq-core `subject.rs`, `subject_pattern.rs`, `queue_group.rs` | `Subjects` |
| session: read loop, write task, drain, cleanup | zetmq-server `session/handler.rs`, `state.rs` | `Session` |
| dispatcher | zetmq-server `runtime/dispatcher.rs` | `Session` |
| permissions | zetmq-server `session/auth.rs` | `Permissions` |
| message store, consumers | zetmq-store `stream.rs`, `memory.rs`, `consumer.rs` | `MessageStore` |
| log segment | zetmq-store `segment.rs` | `Segment` |
| store manager | zetmq-server `store.rs` | `StreamLog`, `MessageStoreLog` |
| listener, start-up and shutdown | zetmq-server `network/listener.rs`, `main.rs` | `Server` |
| client library | zetmq-client `client.rs`, `connection.rs`, `subscription.rs` | `Client`, `Wire` |
| wire protocol | zetmq-protocol | `Wire` |
| admin endpoint, configuration | zetmq-server `admin.rs`, `config.rs` | not modelled: read only |

A connection has a session task and a write task. Session tasks run in parallel and share the
`BrokerCore`, whose tables are DashMaps, one RwLock around the trie, and atomics. No lock covers two
of them. A publisher's session puts MSG frames on the bounded channel of each subscriber's session
with `try_send`; a full channel drops the message. Stream commands run in spawned tasks. The store
and its consumers each have a lock of their own. The client library has a read and a write task per
connection, and a loop that reconnects; the calls of an application share the connection behind a lock.

## Modules

**SubscriptionTable.** `subscribe`, `unsubscribe` and `remove_connection`, one action per critical
section: a DashMap operation, a trie lock, an atomic. Each connection has a program counter. The Vecs
of ids are sets (an id is pushed once); the order of a group's members is kept in `joined`. The `Arc`
of an interned queue group key is the id that allocated it, so pointer equality is equality of names.
A session unsubscribes any id whose SUBACK was sent, also one of another session, as the code does;
an UNSUB that names an id before its SUBACK was sent is not modelled. `CountAgrees` rests on that: `core.rs:144`
accepts any id, and would count down one that `subscribe` has registered and not counted yet.

**BrokerCore** extends it with publishers: the test for subscribers in the session's PUB path, then
`publish_batch` with its fast path for a single subscriber, the cached match result, the queue group
deliveries, and the fan-out collected per subscriber and sent at the end. `try_send` may fail at any
call. `publish` and `publish_with_str` are not modelled: a connected session with a PUB frame always
takes the batch path, so the server does not reach them.

**RoutingEngine** holds the trie as functions from paths to lists and compares what its recursive walk
finds with `SubjectPattern::matches` from **Subjects**, where a subject is a sequence of tokens.
**Permissions** extends it with a session whose SUBs `can_subscribe` lets through or refuses, and compares
`is_pattern_covered` with the subjects that then reach it. RBAC of publishing is a plain match and a kind of
PUB in Session.

**Session** is `handle_connection`, its write task and the dispatcher. A frame is its kind: what the
session does with it. Malformed frames are kinds too. The outbound channel is a bounded sequence; its
senders are the session's own, one per subscription, one per publisher that is delivering and one per
store task, and the write task ends when all are gone and the channel is empty. The clock is
not modelled: a heartbeat may find any time elapsed. Frames reach the read buffer whole; a partial
frame is what is still in `inbox`, which is why clearing the buffer never cuts a frame here. The
core's calls are single steps, since SubscriptionTable has their interleavings. (Wire has the frames that
arrive in pieces.)

**Server** extends it with the accept loop of `TcpServer::run`: the connection limit, the TLS handshake
that the loop itself waits for, the session task with its count, the shutdown broadcast of `main.rs`,
and the wait for the count to reach zero. A connection waits in the backlog before it is accepted;
one that is accepted after the broadcast was sent misses it (`missed`). The drain timeout may pass at any
moment. A failed `accept` ends the server without a wait, as `?` does in the code.

**Client** is the client library against a server as the client sees it. Each application task and the
reconnect loop has a program counter with one label per await. `lock` is the mutex around the connection,
held through `subscribe` and `flush` while they wait for the server; the read task's wait for room in
a subscription's channel, with the state's lock held, is `reader = "blocked"`. The link may be lost
with everything in flight, connecting may fail, and `Restarts` lets the server come back with its ids from one.
The write channel and the socket are one queue. `send_frame` for raw frames takes the steps of a publish.

**Wire** is the bytes between them. Encoders and decoders are operators over sequences of bytes,
one for each in the code, and the readers of both sides take what TCP hands them in chunks of any size. It
has the two decoders of PUB (`parse_publish_payload` on the publish path, `from_frame` elsewhere), the
measuring of frames that are skipped when nobody subscribes, and the encoder of MSG that computes its lengths
apart from what it writes. A byte has `Byte` values and u16, u32 and u64 are two bytes: the widths
are constants of the format, and only what a length of one byte cannot say depends on them. Strings are
valid UTF-8. `Accepted` is what `validate_auth` lets in; a CONNECT that it refuses (`RefuseConnect`) ends the loop over
the buffered frames. What the server answers is any reply its code has for the command; whether the channel has room
for it is a matter of Session. A MSG whose reply length points past its end makes the client's read task panic
(`connection.rs:420`); `DecodedAsMeant` includes that the server writes none.

**MessageStore** is the memory store and the consumer manager. `create_consumer` is two steps,
because it reads the stream before it takes the consumers' lock. Retention is stated by how many
messages each loop removes. Arithmetic on times is modulo `Word`, as a release build does it (a debug
build panics on the underflow). Ages are in units of the clock. Both `now_millis` calls of one store
read the same time. A consumer's key is the concatenation of the parts of its names, which keeps
the ambiguity of the colon.

**StreamLog** is what the store promises, without deques, limits or books: a numbered log that gives up
only its oldest entries, and readers that go through it by number. **MessageStoreLog** maps the store to it;
the log of a stream is what the index arithmetic of `Stream::read` finds.

**Segment** is a file of cells, three to a record, with one cursor. The process may be killed at
any time, also in the middle of a write, and a write may return an error part of the way. After that the
scan of a reopened file may misread lengths, so it finds records at arbitrary offsets. `moved` and `torn`
record that an append followed a read and that a write was cut off: the code's promises end there.

`MC*` modules give the constants small values. The modules that end in `_inv` hold inductive invariants, those
that end in `_publish`, `_steps` and `_proofs` the proofs.

## Runs that pass

| run | what it shows | bounds |
|---|---|---|
| `table` | registry, routes, groups and the count stay consistent through every interleaving; a finished session leaves nothing behind; every call on the core returns | 2 sessions, 2 subscriptions, a literal, a wildcard, a group |
| `core_batch` | nothing lost, misrouted or reordered through all paths of `publish_batch` | 1 session, 2 subscriptions, 2 subjects and a wildcard, 2 messages |
| `core_race` | nothing lost on a wildcard subscription, and nothing sent to a subscription that had left, against two sessions that come and go | 2 sessions, 2 subscriptions, 1 message |
| `core_groups` | a stable queue group is served | 1 session, 2 subscriptions, 2 messages |
| `access` | the trie, the flag that skips it and `matches` agree with what a pattern means; a session with permissions is sent only what they cover; what is refused is not covered | 2 ids, patterns up to 3 tokens over 2 literals |
| `session` | the socket gets what the channel took, once and in order; closing flushes; PUBs are counted; no complete frame waits for the next read | 1 session, 3 frames of 16 kinds, channel of 2, 1 MSG, 1 heartbeat PING |
| `server` | the count of connections is exact; a drained server has cut nothing off; a session whose client left ends; a shutdown releases subscriptions and, once the clients are gone, ends | 2 connections, limit 1, TLS, 2 frames, channel of 1 |
| `client` | a message reaches the subscription it was sent for; replay restores what is tracked; flush confirms; a lost link is replaced; calls return | 1 application task with 2 calls of 5 kinds, 2 subscriptions, channels of 1, 2 messages, 1 loss |
| `wire` | frames of both directions are decoded as they were meant, however they are cut; no complete frame is held back, except behind a refused CONNECT | 15 commands of all 10 kinds, 2 in a row, one user |
| `store` | sequence numbers, bytes and limits agree; the newest message is kept; books balance; the store implements `StreamLog` | 3 messages of 2 sizes, 2 limit settings, 4 policies, stream made twice |
| `segment` | until an append follows a read, appended records stay in the file; until a write is cut off, they are read back after restarts | 3 records of 2 payloads, 2 faults |

Two sessions suffice for the table's races: every conflict in the code is between two calls. Its
invariants, and those of every other run but `wire`, are proved for every number of sessions,
publishers, subscriptions, tasks, frames and records (below), so these runs need only be large enough for their mutants and for liveness. Batches of two reach both sides of every limit, since
the limits are constants of the models. One task creates consumers in `store`; that two of them do not
replace each other's consumer is `NoRedelivery`, proved for any set of tasks. In `server` the limit of one
makes two connections meet it, and only the first sends frames. In `client` one application task
against the reconnect loop and the read task reaches every lock; with two tasks, `subscribe`,
`unsubscribe` and `flush`, two calls each, two subscriptions, one message, one loss and a server that restarts,
the same properties hold (over a minute, not a run). Two frames suffice for `wire`, since a reader keeps nothing of a
frame it has taken; with three, out of a CONNECT that is refused, one that is not, PING and PUB, its properties
hold as well (some minutes, not a run). The BrokerCore runs end a behaviour with
its last publish (`StillPublishing`).

The larger modules state a type invariant. All but that of `Wire` are proved, and that of `MessageStore` is checked
in `store` as well; the one of `Wire` holds in the same instance and is kept out of the run, which spends its time on
the properties above.

Deadlock is not checked where a system may come to rest: every session over, or the bounds used up.

**Fairness.** `table`: a session task in the middle of a call continues, since no call waits for
another one's result. `server`: tasks that are ready run (weak fairness). The read branch and the
shutdown branch of `select!`, in the sessions and in the accept loop, are strongly fair, because
`tokio::select!` polls its branches in random order. A write and a handshake are fair only once the client
has closed its socket; with an open socket whose client does not read they may block for ever, and
`ShutdownReleases` does not need them. The drain timeout has no fairness: `ShutdownEnds` is about the other
way out. `client`: a task that waits for the lock gets it (strong), because tokio's mutex serves its waiters in
the order they came; the server answers, an application reads its channels, and a server that is
tried again and again is reached.

## Where the code and its documents disagree

One run is violated. It states what a document says, and TLC finds a behaviour of the code that
contradicts it: in `core_one_member`, `publish_batch` delivers a message to every matched member of a
queue group; `findings` in `PROJECT.json` has the quotation.

Modelling met more of them. They have no run of their own; the statement is a definition of the module, and
a configuration with it as its only INVARIANT or PROPERTY and the constants below is violated in seconds. "As" a run
means with its constants.

| statement | constants | behaviour | what is said |
|---|---|---|---|
| `FlagIsConservative` | as `table`, with `Spec` | a subscribe between the test of the trie and the reset of `has_wildcards` leaves a wildcard subscription no publish finds (`engine.rs:104`) | "the flag is conservative and never produces incorrect results" (`engine.rs:102`) |
| `MembersAreCanonical` | as `table`, with `Spec` | `remove_connection` drops an emptied group with a member that joined meanwhile (`core.rs:484`) | "the canonical member list lives in `QueueGroupState`" (`core.rs:421`) |
| `KeysAreInterned` | as `table`, with `Spec`, `MaxSubs = 3` | members of one group hold different pointers for its key (`core.rs:487`) | "Compare by pointer equality: keys are interned at subscribe time" (`core.rs:365`) |
| `SomeMemberPerMessage` | as `core_one_member` | the picked member has just left and no other is tried (`core.rs:436`) | "**apenas um** membro recebe cada mensagem" (`docs/architecture.md:765`) |
| `FreshIsRetained` | as `store`, `StreamConfigs <- LongAge` | a `max_age_secs` beyond the time since 1970 wraps and expires everything (`stream.rs:172`) | "Maximum age per message in seconds. 0 = unlimited." (`stream.rs:13`) |
| `AllIsServed` | as `store`, `CountLimit`, `AllPolicy` | a consumer behind retention is never served again (`consumer.rs:191`) | "Deliver all messages from the stream." (`consumer.rs:12`) |
| `AllIsSeen` | as `store`, `NoLimit`, `AllPolicy` | a consumer outlives its stream and skips the messages of the next one (`memory.rs:39`) | the same |
| `AckAllAcksBefore` | as `store`, `NoLimit`, `AckAllPolicy` | `ack` removes the one number, whatever the policy (`consumer.rs:111`) | "Acknowledging a message acks all messages before it." (`consumer.rs:31`) |
| `NoAckNeverWaits` | as `store`, `NoLimit`, `NoAckPolicy` | deliveries wait for acknowledgements nobody sends (`consumer.rs:99`) | "No acknowledgement required." (`consumer.rs:26`) |
| `FilterIsApplied` | as `store`, `Subjects = {a, b}`, `NoLimit`, `Filtered` | `filter_subject` is never read (`consumer.rs:191`) | "only deliver messages matching this pattern" (`consumer.rs:42`) |
| `BoundToItsStream` | as `store`, `ColonStreams`, `ColonNames`, `NoLimit`, `AllPolicy` | two consumers share a key (`consumer.rs:228`) | "A durable consumer bound to a stream." (`consumer.rs:67`) |
| `ActiveIsOpen` | as `session` | a connection that ends before CONNECT lowers `active_connections` below zero (`core.rs:497`) | "Conexoes TCP ativas" (`docs/architecture.md:834`) |
| `EveryPubIsCounted` | as `session` | a malformed PUB discards the ones before it in its batch (`handler.rs:356`) | "Total de PUB recebidos" (`docs/architecture.md:837`) |
| `SubIsAnswered` | as `session` | SUBACK is dropped when the channel is full (`dispatcher.rs:144`) | "Cliente recebe `SUBACK`." (`docs/task.md:947`) |
| `SubIsAnswered` | as `session`, `Kinds = {"connect", "sub_invalid"}`, `Capacity = 4` | a SUB that does not parse gets no reply (`dispatcher.rs:127`) | "Erros viram frame `ERROR`." (`docs/task.md:906`) |
| `DrainedIsHandled` | as `session` | what is read while draining is discarded (`handler.rs:536`) | "Continue reading briefly to allow client to finish" (`handler.rs:531`) |
| `NoFrameWaits` | as `session` | frames behind a refused CONNECT wait in the read buffer (`handler.rs:607`) | "Processa todos os frames completos" (`docs/architecture.md:729`) |
| `EverySessionIsTold` | as `server` | a connection accepted after the broadcast, before the accept loop looks at it, goes on for as long as its client (`listener.rs:127`) | "Finalizar sessões ativas." (`docs/prompt.md:516`) |
| `FlushAlwaysConfirms` | as `client`, `Spec`, `Calls = {"publish", "flush"}`, `MaxCalls = 3`, `MaxHandles = 1`, `MaxMsgs = 0`, `MaxDrops = 0` | the PONG of a flush that timed out resolves the next one (`connection.rs:385`) | "confirming the server processed prior frames" (`client.rs:222`) |
| `AlwaysRecovers` | as `client`, `Calls = {"subscribe"}`, `MaxCalls = 1`, `MaxHandles = 1`, `MaxMsgs = 0` | a `subscribe` whose link is lost waits for its SUBACK with the lock held (`connection.rs:508`) | "automatic reconnection with backoff and subscription replay" (`README.md:97`) |
| `UnsubscribeIsFinal` | as `client`, `Spec`, `Calls = {"subscribe", "unsubscribe"}`, `MaxHandles = 1`, `MaxMsgs = 1` | a replay from a copy subscribes again what was dropped meanwhile (`client.rs:366`) | "Unsubscribe from a subscription." (`client.rs:165`) |
| `ClosedStaysClosed` | as `client`, `Spec`, `Calls = {"close"}`, `MaxCalls = 1`, `MaxHandles = 1`, `MaxMsgs = 0` | the loop looked at `closed` before and reconnects after (`client.rs:306`) | "Close the connection: shut down background tasks and release resources." (`connection.rs:569`) |
| `RequestsCleanUp` | as `client`, `Spec`, `Calls = {"request"}`, `MaxCalls = 1`, `MaxHandles = 1`, `MaxMsgs = 0`, `MaxDrops = 0` | a request that times out leaves its subscription (`client.rs:202`) | "Clean up temporary subscription" (`client.rs:207`) |
| `ClearingRecovers` | as `wire`, `Commands <- TooLarge` | the rest of a frame that was cleared is taken for the start of the next (`handler.rs:721`) | "Clear the buffer to recover from corrupted data" (`handler.rs:720`) |
| `AcceptedIsReadable` | as `wire`, `Commands <- Largest`, `MaxFrames = 1` | a MSG is longer than its PUB, and one beyond the client's fixed limit of 2 MiB stops its reader (`connection.rs:321`) | "Maximum frame size the client will accept (default: 2MB)." (`options.rs:20`) |
| `NoPubIsMalformed` | as `wire` | a PUB without a reply length is a decode error on the publish path (`handler.rs:198`) | "subject_len(2) + subject + [reply_len(2) + reply] + payload" (`command/mod.rs:55`) |
| `EveryFrameIsKnown` | as `wire` | the client answers a heartbeat PING with a PONG that the server counts as a protocol error (`command/mod.rs:175`) | "O broker deve suportar `PING` e `PONG`." (`docs/prompt.md:331`) |
| `DecodedAsMeant` | as `wire`, `Commands <- LongPattern`, `MaxFrames = 1` | the length of a pattern is cast to u8 (`client.rs:278`) | the frame's own format: pattern_len, then the pattern (`docs/architecture.md:235`) |
| `AppendOnly` without `moved` | as `segment` | an append after a read overwrites a record (`segment.rs:120`) | "Append-only log segment" (`segment.rs:1`) |
| `ReadsBack` without `torn` | as `segment` | after a write that was cut off records are looked up at wrong offsets (`segment.rs:100`) | "An in-memory index maps sequence numbers to file offsets" (`segment.rs:4`) |

The passing runs stay clear of these by their constants or by a condition that the property states, not
by changes to the models. `PubsAreCounted` sets aside what a malformed PUB takes along, `ReadLoopHandlesAll`
and `NothingIsHeldBack` what a refused CONNECT leaves in the buffer, `FlushConfirms` a PONG left over from a timeout, `LostLinkRecovers` and `CallsReturn`
the two ways in which a call jams the client (`Jammed`); `store` uses ages up to the clock's start, and the
patterns of `wire` are shorter than a byte counts. `NothingLostOnWildcard` says, apart from `NothingLost`, what
a wildcard subscriber may rely on while the flag can be wrong.

Two more things the models of the client show and no document speaks of: a MSG that arrives between SUBACK and
the entry of its subscription is dropped (`connection.rs:463`), and when a server that restarted numbers from one,
a new subscription may be given the id under which an older one is tracked and take its place
(`client.rs:148`); `ReplayRestores` therefore asks that the server goes on numbering.

## Proofs

Every proof follows one pattern: the safety property is not inductive, an invariant that is implies it, and one
lemma per action (or per group of actions that disturb the same part) shows that the action keeps it. Where the
proofs are long, an `_inv` module comes before the `_proofs` module. Where a definition is recursive (sums, the walk
of the trie, `retain`), it is a recursive function, and what it computes is proved by a least counterexample: the set
of places where it goes wrong, if there were any, has a least element (`LeastNumber`).

**SubscriptionTable_inv** defines the invariant, and what the publishers of BrokerCore need of the tables.
**SubscriptionTable_proofs** has the steps of `subscribe`, `unsubscribe` and `remove_connection`, the theorems, and the
proof that a step of a session keeps what publishers need. They hold for any
sets of connections, patterns and groups and any number of ids, under `TableAssumption` (a literal is no
wildcard, the absence of a group is no group):

* `TableInvariant`, the inductive invariant `IInv`. That a registered subscription is reachable depends on where
  the calls that add and remove it stand. `IInv` adds, for each session, what its program counter implies about
  the id it works on (`Subscriber`, `Remover`, `Loops`, `Caller`), that ids not drawn occur nowhere (`Drawn`), that
  lists hold patterns of their kind (`RouteKind`) and that group members are owned (`MemberIsOwned`).
* from it `TypeCorrect`, `RegisteredReachable`, `RoutesOwned`, `CountExact`, `MembersSound`,
  `DisconnectIsClean`, and `NeverDrainsUnderSubscriber`: the PUB path never skips the core while
  someone is subscribed.

**BrokerCore_inv** defines the invariants of publishing, **BrokerCore_publish** has the steps of a publisher one by one,
and **BrokerCore_proofs** puts publishers and sessions together. They prove what publishers promise while sessions subscribe, unsubscribe and disconnect between
any two of their steps, for any numbers of both, any matching relation and any sizes of batches (`CoreAssumption`: wildcards match
subjects, a batch has 1 to 128 messages). The invariant `CoreInv` has two parts.

* `TableInv`: `IInv` still holds, `joined` numbers the members of groups without repetition (`JoinedOrder`), and
  while no wildcard subscription was removed a registered one has raised the flag (`FlagHolds`).
* `PubInv`, per publisher: where `publish_batch` stands and what its locals hold there (`Stage`, `Holding`), that match
  results and collected messages match (`Sound`), that nothing is kept for what had left when the batch was read
  (`Silent`), and that what is owed to a subscription is collected, yet to be routed or settled (`Served`).

A publisher reads the tables without a lock, so everything it knows may change under it. What it relies on is small
(`Relies`): ids are drawn once, the fields of a subscription never change, and an acknowledged
subscription that left the registry does not come back. A step of a session satisfies `Relies`, and `Relies` alone
keeps what a publisher knows; another publisher adds to logs and changes nothing else (`Spared`, `Grows`). So only
the publisher's own steps are looked at one by one. The theorems are `CoreInvariant`; `CoreTables`, the
tables' properties with publishers running; `DeliversOnlyMatching`, `RemovedGetsNothing`, `PublishLosesNothing` and
`WildcardLosesNothing`; and `DeliversInOrder`, which assumes one publisher (`OnePublisher`), since `InOrder` compares
messages by number and the code orders nothing between two publishers. Its invariant `Ordered` says that a
batch and what is collected of it ascend, that what is collected is older than what is to come
(`ToCome`), and what a channel has taken older than both (`Older`).

`GroupLosesNothing` proves `StableGroupServed` from a second invariant, `GroupInv`. A publisher that comes to a queue
group reads the canonical list of its members, which two sessions may have changed since it matched the subject, and
delivers to the one the round robin names. `GroupsHold` says what can be relied on: only a removal takes
anyone off a list, whoever else it takes along, so while nobody of a key has left, all who are registered under it are on
the list. Then the member that is named is one of the group, the group is in the match result, and the message is offered
to one of it before the publisher goes on (`GroupServed`). The hypothesis of the property, that the group is complete and
stays, is needed at each of these steps.

**Session_inv** holds the invariant of the sessions. **Server_proofs** proves from it `SessionTypes`, `SessionWritesInOrder`, `SessionClosesFlushed`, `SessionCountsPubs` and
`SessionHandlesFrames` for any finite set of connections, any kinds of frames and any limits (`SessionAssumption`). `Written` follows each frame from the
channel through the encode buffer to the socket; `Counting` says where PUBs not yet counted can be. Their sum
over the sessions is the number of pairs of a session and a number up to its count (`Pairs`), which
spares a recursive sum. To these it adds the accept loop: each of its steps is a
step of a session, the opening of one (`OpenIInv`) or leaves the sessions alone. `ServerTypes`, `ServerCountsConnections`
and `ServerDrainsAll` hold for any limit, with TLS and without. That a drained server cut nothing off follows
from the exact count together with `SessionClosesFlushed`.

**MessageStore_inv** holds the invariant of the store, `StoreInvariant` (types, contiguous
deques, limits, bytes, the books of consumers), for any names, configurations and bounds. From it **Store_proofs** proves
`StoreTypeCorrect`, `StreamContiguous`, `LimitsHold`, `ConsumerBooks`, `NoRedelivery` (an action property), `StoreBytesAgree` and
`NewestRetained`. The last
one assumes that no `max_age` exceeds the clock's start; the configuration with `LongAge` above shows that it is needed.
`StoreBytesAgree` is about a sum over the deque that retention shortens at its head: `current_bytes` is lowered by what is
removed, message by message, and stays the sum of what is left.
`StoreImplementsLog` says that `Spec` implies `ImplementsLog`, the specification of
StreamLog under the mapping of MessageStoreLog. The initial states map to its initial states and each action to
one of its actions or to a stutter. That the deque is contiguous is what makes
a message keep its number when retention moves `first_seq` (`StoreIsSuffix`), and what makes the index computed
from a sequence number find the message that carries it.

**Store_proofs** also proves `SegmentIsAppendOnly` and `SegmentReadsBack`, from **Segment_inv**, for any payloads and any number
of records, failed writes and kills. Until an append follows a read the cursor is at or beyond the end of the file whenever an
append writes; until a write is cut off as well, the file is a whole number of records (`Whole`), which the scan of a
reopened file finds again.

**Permissions_proofs** is about patterns, the trie and the permissions, for any literals, any bound on the tokens of patterns and
subjects and any set of ids. `AccessMatchesAgree` says that the trie, the flag and the exact table together find the live
subscriptions whose pattern selects the subject, and each once. The invariant (`EngineInv`) says that the lists at
a node hold the ids whose pattern ends there, without repetition, and that the flag and the counter agree with them. That
`match_recursive` then collects the right ids is proved by induction on the number of tokens below a node: what
it returns there are the ids whose pattern continues the node's path and selects the rest of the subject.
`AccessWithinPermissions` and `AccessDeniesOnlyTheUncovered`, for permissions of one pattern, rest on a lemma each way: what
`is_pattern_covered` lets through selects nothing that the allowed pattern does not (`CoverSound`), and what it denies selects a
subject that the allowed pattern does not (`CoverComplete`). The second constructs that subject from the requested pattern, with a
token that no pattern names in the place of wildcards; like the property, it sets aside patterns of MAX_TOKENS tokens, for
which a longer subject cannot be sent. `RoutingAssumption` says that the absence of a pattern is no pattern.

**Client_inv** holds the invariant of the client library; **Client_steps** and **Client_proofs** prove that each step keeps it, and from
it `ClientTypesHold`, `ClientRoutesToOwner`, `ClientFlushConfirms` and `ClientReplayRestores`, for any finite set of tasks (`ClientAssumption`), any
number of calls, subscriptions, messages and lost connections, with a server that restarts and without. The invariant speaks of
an assignment `own` of ids to subscriptions, which exists in every state and is extended when the server draws an
id. With it a message, an entry of the connection's table, a SUBACK and a tracked subscription agree when they have the same
id (`Owned`, `Known`). What makes it inductive is the lock: only its holder can have a SUB or a PING under
way, at most one, and either the frame or its answer (`Asked`, `Pinged`), so a SUBACK belongs to the call
that takes it. A flush that timed out ends that for PONGs, which is why `FlushConfirms` sets `late` aside. `Restored` says that
each tracked subscription is live on the connection or that the replay will come to it; it needs that the copy that is
replayed, `tracked` and the handles agree (`Kept`) and that nothing is subscribed twice (`Single`).

Only model-checked:

* liveness, which needs fairness;
* `DecodedAsMeant` and `NothingIsHeldBack`: the codecs of `Wire` are recursive operators over sequences of bytes, which
  TLAPS cannot reason about.

## Not modelled

* `BrokerCore::publish` and `publish_with_str`, and with them the Publish arm of `dispatch` and its permission
  check: a connected session with a PUB frame always takes the batch path, so the server does not reach them.
* `SubConsumerMap` of the dispatcher: it selects the consumer an ACK names. Nothing in the server creates the
  consumers it names, so an ACK over the wire finds none; the acknowledgement itself is in MessageStore.
* `subject_cache`: it only grows, and its content never changes an outcome.
* Client and session are not composed in one model: each is checked against what it sees of the other.
  Together they are beyond TLC at sizes that show more than the two do apart.
* In `Client`, the PONG to a heartbeat and a write channel that is full (256 frames): the queue to the server is
  bounded by the calls of an instance. `connect_timeout` and the backoff only choose when an attempt ends.
* TLS certificates, names of inboxes, option builders, the admin endpoint (it reads metrics), configuration
  files (read once) and logging hold no state that the properties tell apart.

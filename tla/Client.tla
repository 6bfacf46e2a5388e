-------------------------------- MODULE Client --------------------------------
(***************************************************************************)
(* The client library: Client (client.rs) over Connection (connection.rs)  *)
(* of zetmq-client, with its reconnect loop.                               *)
(*                                                                         *)
(* The calls of the application and the reconnect loop are tasks.  A call  *)
(* holds the lock of the connection from the moment it uses it until it    *)
(* returns, also while it waits for the server.  The read task shares a    *)
(* state with the calls behind a second lock, which it alone holds across  *)
(* an await: while the channel of a subscription is full.                  *)
(*                                                                         *)
(* The write channel and the socket are one queue, to_server; that it      *)
(* never holds the 256 frames at which a sender would wait is a bound.     *)
(* The server is modelled from what the client sees of it; Session has its *)
(* side.  Subscriptions are numbered in the order they are asked for; a    *)
(* message is the number of the subscription the server sent it for.       *)
(***************************************************************************)
EXTENDS Integers, Sequences, FiniteSets, Functions

CONSTANTS
    Apps, LoopTask, None,   \* tasks of the application, the reconnect loop, and no task
    Calls,                  \* the calls the application makes
    MaxAttempts,            \* max_reconnect_attempts
    SubBuffer,              \* DEFAULT_SUB_BUFFER
    Restarts,               \* whether the server may start again and number from one
    MaxCalls, MaxHandles,   \* bounds: calls of a task, subscriptions asked for
    MaxMsgs, MaxDrops       \* bounds: messages the server sends, connections that are lost

ASSUME ClientAssumption ==
    /\ IsFiniteSet(Apps)
    /\ LoopTask \notin Apps /\ None \notin Apps \cup {LoopTask}
    /\ Calls \subseteq {"subscribe", "unsubscribe", "request", "publish", "flush", "close"}
    /\ {MaxAttempts, SubBuffer} \subseteq Nat \ {0}
    /\ Restarts \in BOOLEAN
    /\ {MaxCalls, MaxHandles, MaxMsgs, MaxDrops} \subseteq Nat

Tasks == Apps \cup {LoopTask}
Subscribing == {"subscribe", "request"}
Handles == 1..MaxHandles

VARIABLES
    link, to_server, to_client,         \* the socket and what is under way on it
    server_subs, next_id, served,       \* the server: subscriptions of the connection, its counter,
                                        \* and how many frames of the connection it has handled
    connected, write_tx, writer,        \* Connection
    reader, sub_counter,
    pending_subs, pending_flush, subscriptions,    \* ConnState
    held,                               \* the message the read task waits to hand over
    lock,                               \* who holds Client.conn
    corr, got, cur, todo, remapped,     \* locals of the holder
    tracked, closed,                    \* Client.subscriptions and Client.closed
    pc, goal, hand, target, attempts,   \* locals of each task
    made, id, rx, buffer,               \* subscriptions: how many, Subscription.id, receiver, channel
    calls, msgs, drops,                 \* counters of the bounds
    sent,                               \* history: frames given to this connection
    late,                               \* history: a flush on this connection has timed out
    flushed,                            \* history: what was true when flush last returned Ok
    done,                               \* history: subscriptions whose unsubscribe has returned Ok
    restarted                           \* history: the server has started again

network == <<link, to_server, to_client>>
server == <<server_subs, next_id, served>>
tasks_of_conn == <<connected, write_tx, writer, reader, held>>
conn_state == <<pending_subs, pending_flush, subscriptions>>
holder == <<lock, corr, got, cur, todo, remapped>>
client == <<tracked, closed>>
call == <<pc, goal, hand, target, attempts>>
handles == <<made, id, rx, buffer>>
bounds == <<calls, msgs, drops>>
history == <<sent, late, flushed, done, restarted>>
vars == <<network, server, tasks_of_conn, sub_counter, conn_state, holder, client, call, handles,
          bounds, history>>

Frame == [type : {"SUB"}, corr : Nat, handle : Handles]
         \cup [type : {"UNSUB"}, id : Nat] \cup [type : {"PING", "PUB"}]
Reply == [type : {"SUBACK"}, corr : Nat, id : Nat]
         \cup [type : {"MSG"}, id : Nat, of : Handles] \cup [type : {"PONG"}]

ASSUME NoneAssumption == None \notin Reply

PC == {"idle", "ensure", "begin", "attempt", "connecting", "replay", "sub_pending", "sub_send",
       "sub_wait", "flush_pending", "flush_send", "flush_wait", "flush_expired", "reply_wait",
       "unsub", "unsub_lock", "unsub_remove", "close", "sleep", "look", "exit"}
NoOne == [stable |-> 0, handle |-> 0]      \* no entry of the map is being replayed

ClientTypeOK ==
    /\ link \in {"up", "down"} /\ to_server \in Seq(Frame) /\ to_client \in Seq(Reply)
    /\ DOMAIN server_subs \subseteq Nat /\ Range(server_subs) \subseteq Handles
    /\ next_id \in Nat /\ served \in Nat
    /\ connected \in BOOLEAN /\ write_tx \in BOOLEAN /\ writer \in {"alive", "gone"}
    /\ reader \in {"read", "blocked", "gone"} /\ sub_counter \in Nat
    /\ pending_subs \subseteq Nat /\ pending_flush \subseteq Nat
    /\ DOMAIN subscriptions \subseteq Nat /\ Range(subscriptions) \subseteq Handles
    /\ (reader = "blocked") <=> held # None
    /\ lock \in Tasks \cup {None} /\ corr \in Nat /\ got \in Nat
    /\ DOMAIN tracked \subseteq Nat /\ Range(tracked) \subseteq [handle : Handles, server : Nat]
    /\ closed \in BOOLEAN
    /\ pc \in [Tasks -> PC] /\ hand \in [Tasks -> Handles \cup {0}]
    /\ attempts \in [Tasks -> 0..MaxAttempts]
    /\ made \in 0..MaxHandles /\ id \in [Handles -> Nat] /\ rx \in [Handles -> BOOLEAN]
    /\ buffer \in [Handles -> Seq(Handles)] /\ \A h \in Handles : Len(buffer[h]) <= SubBuffer

Empty == [x \in {} |-> 0]                  \* the empty map
Put(map, key, value) == [k \in DOMAIN map \cup {key} |-> IF k = key THEN value ELSE map[k]]
Drop(map, key) == Restrict(map, DOMAIN map \ {key})

\* Connection::connect succeeded: a new socket, new tasks, a new ConnState and a new counter
NewConnection ==
    /\ link' = "up" /\ to_server' = <<>> /\ to_client' = <<>>
    /\ server_subs' = Empty /\ served' = 0
    /\ connected' = TRUE /\ write_tx' = TRUE /\ writer' = "alive" /\ reader' = "read" /\ held' = None
    /\ pending_subs' = {} /\ pending_flush' = {} /\ subscriptions' = Empty
    /\ sub_counter' = 1
    /\ sent' = 0 /\ late' = FALSE

\* Client::connect_with_options has returned, with reconnect_enabled
Init ==
    /\ link = "up" /\ to_server = <<>> /\ to_client = <<>>
    /\ server_subs = Empty /\ next_id = 1 /\ served = 0
    /\ connected = TRUE /\ write_tx = TRUE /\ writer = "alive" /\ reader = "read" /\ held = None
    /\ pending_subs = {} /\ pending_flush = {} /\ subscriptions = Empty
    /\ sub_counter = 1
    /\ lock = None /\ corr = 0 /\ got = 0 /\ cur = NoOne /\ todo = {} /\ remapped = Empty
    /\ tracked = Empty /\ closed = FALSE
    /\ pc = [t \in Tasks |-> IF t = LoopTask THEN "sleep" ELSE "idle"]
    /\ goal = [t \in Tasks |-> "none"]
    /\ hand = [t \in Tasks |-> 0] /\ target = [t \in Tasks |-> 0] /\ attempts = [t \in Tasks |-> 0]
    /\ made = 0 /\ id = [h \in Handles |-> 0] /\ rx = [h \in Handles |-> TRUE]
    /\ buffer = [h \in Handles |-> <<>>]
    /\ calls = [t \in Apps |-> 0] /\ msgs = 0 /\ drops = 0
    /\ sent = 0 /\ late = FALSE /\ flushed = [served |-> TRUE, late |-> FALSE] /\ done = {}
    /\ restarted = FALSE

Goto(t, label) == pc' = [pc EXCEPT ![t] = label]

\* The lock of the connection is dropped, and the holder's locals with it
Release == lock' = None /\ corr' = 0 /\ got' = 0 /\ cur' = NoOne /\ todo' = {} /\ remapped' = Empty

\* Mutant: the loop ends when its attempts are exhausted
Return_EndsLoop(t) ==
    /\ Goto(t, IF t = LoopTask THEN "exit" ELSE "idle")
    /\ goal' = [goal EXCEPT ![t] = "none"]
    /\ hand' = [hand EXCEPT ![t] = 0] /\ target' = [target EXCEPT ![t] = 0]
    /\ attempts' = [attempts EXCEPT ![t] = 0]
    /\ IF goal[t] = "reply"
       THEN rx' = [rx EXCEPT ![hand[t]] = FALSE] /\ buffer' = [buffer EXCEPT ![hand[t]] = <<>>]
       ELSE UNCHANGED <<rx, buffer>>
    /\ UNCHANGED <<made, id>>

\* The call returns, or reconnect_once to its loop.  A request drops the subscription it made.
Return(t) ==
    /\ Goto(t, IF t = LoopTask THEN "sleep" ELSE "idle")
    /\ goal' = [goal EXCEPT ![t] = "none"]
    /\ hand' = [hand EXCEPT ![t] = 0] /\ target' = [target EXCEPT ![t] = 0]
    /\ attempts' = [attempts EXCEPT ![t] = 0]
    /\ IF goal[t] = "reply"
       THEN rx' = [rx EXCEPT ![hand[t]] = FALSE] /\ buffer' = [buffer EXCEPT ![hand[t]] = <<>>]
       ELSE UNCHANGED <<rx, buffer>>
    /\ UNCHANGED <<made, id>>

CanSend == write_tx /\ writer = "alive"
Enqueue(frame) == to_server' = Append(to_server, frame) /\ sent' = sent + 1

StateFree == reader # "blocked"         \* the lock of ConnState is free

-----------------------------------------------------------------------------
(* Calls *)

\* A call of subscribe, request, publish or flush starts with ensure_connected
Start(t, c) ==
    /\ pc[t] = "idle"
    /\ c \in Subscribing => made + Cardinality({u \in Apps : goal[u] \in Subscribing}) < MaxHandles
    /\ calls[t] < MaxCalls
    /\ \A u \in Apps : pc[u] # "close"
    /\ calls' = [calls EXCEPT ![t] = @ + 1]
    /\ goal' = [goal EXCEPT ![t] = c]
    /\ Goto(t, "ensure")
    /\ UNCHANGED <<network, server, tasks_of_conn, sub_counter, conn_state, holder, client, hand,
                   target, attempts, handles, msgs, drops, history>>

\* unsubscribe of a subscription some call has returned
StartUnsubscribe(t, h) ==
    /\ pc[t] = "idle"
    /\ calls[t] < MaxCalls
    /\ \A u \in Apps : pc[u] # "close"
    /\ id[h] # 0 /\ rx[h] /\ \A u \in Apps : hand[u] # h
    /\ calls' = [calls EXCEPT ![t] = @ + 1]
    /\ goal' = [goal EXCEPT ![t] = "unsubscribe"]
    /\ hand' = [hand EXCEPT ![t] = h]
    /\ Goto(t, "unsub")
    /\ UNCHANGED <<network, server, tasks_of_conn, sub_counter, conn_state, holder, client, target,
                   attempts, handles, msgs, drops, history>>

\* close takes the client exclusively: no other call is going on
StartClose(t) ==
    /\ \A u \in Apps : pc[u] = "idle"
    /\ ~ closed
    /\ calls[t] < MaxCalls
    /\ calls' = [calls EXCEPT ![t] = @ + 1]
    /\ closed' = TRUE
    /\ Goto(t, "close")
    /\ UNCHANGED <<network, server, tasks_of_conn, sub_counter, conn_state, holder, tracked, goal,
                   hand, target, attempts, handles, msgs, drops, history>>

\* Connection::close: the read task is aborted, the write task ends and the socket is closed.
\* What the server still reads of it concerns nobody any more.
CloseConnection ==
    /\ connected' = FALSE /\ write_tx' = FALSE /\ writer' = "gone"
    /\ reader' = "gone" /\ held' = None
    /\ link' = "down" /\ to_server' = <<>> /\ to_client' = <<>> /\ server_subs' = Empty

Close(t) ==
    /\ pc[t] = "close"
    /\ lock = None
    /\ CloseConnection
    /\ Return(t)
    /\ UNCHANGED <<next_id, served, sub_counter, conn_state, holder, client, bounds, history>>

\* ensure_connected
Ensure(t) ==
    /\ pc[t] = "ensure"
    /\ lock = None
    /\ Goto(t, IF connected THEN "begin" ELSE "attempt")
    /\ UNCHANGED <<network, server, tasks_of_conn, sub_counter, conn_state, holder, client, goal,
                   hand, target, attempts, handles, bounds, history>>

\* publish_with_reply: the lock is held for one send
Publish(t) ==
    /\ pc[t] = "begin" /\ goal[t] \in {"publish", "reply"}
    /\ lock = None
    /\ IF CanSend THEN Enqueue([type |-> "PUB"]) ELSE UNCHANGED <<to_server, sent>>
    /\ IF CanSend /\ goal[t] = "reply"
       THEN Goto(t, "reply_wait") /\ UNCHANGED <<goal, hand, target, attempts, handles>>
       ELSE Return(t)
    /\ UNCHANGED <<link, to_client, server, tasks_of_conn, sub_counter, conn_state, holder, client,
                   bounds, late, flushed, done, restarted>>

\* request: the reply comes, and the temporary subscription is given up
GetReply(t) ==
    /\ pc[t] = "reply_wait"
    /\ buffer[hand[t]] # <<>>
    /\ buffer' = [buffer EXCEPT ![hand[t]] = Tail(@)]
    /\ Goto(t, "unsub")
    /\ UNCHANGED <<network, server, tasks_of_conn, sub_counter, conn_state, holder, client, goal, hand,
                   target, attempts, made, id, rx, bounds, history>>

\* request: the timeout, or the loss of the only sender with the old connection, returns at once
ReplyTimeout(t) ==
    /\ pc[t] = "reply_wait"
    /\ buffer[hand[t]] = <<>>
    /\ Return(t)
    /\ UNCHANGED <<network, server, tasks_of_conn, sub_counter, conn_state, holder, client, bounds, history>>

-----------------------------------------------------------------------------
(* subscribe_send, for a new subscription and for one that is replayed *)

\* subscribe_internal takes the lock
BeginSubscribe(t) ==
    /\ pc[t] = "begin" /\ goal[t] \in Subscribing
    /\ lock = None
    /\ lock' = t
    /\ corr' = sub_counter /\ sub_counter' = sub_counter + 1
    /\ made' = made + 1
    /\ cur' = [stable |-> 0, handle |-> made + 1]
    /\ Goto(t, "sub_pending")
    /\ UNCHANGED <<network, server, tasks_of_conn, conn_state, got, todo, remapped, client, goal, hand,
                   target, attempts, id, rx, buffer, bounds, history>>

SubPending(t) ==
    /\ pc[t] = "sub_pending"
    /\ StateFree
    /\ pending_subs' = pending_subs \cup {corr}
    /\ Goto(t, "sub_send")
    /\ UNCHANGED <<network, server, tasks_of_conn, sub_counter, pending_flush, subscriptions, holder,
                   client, goal, hand, target, attempts, handles, bounds, history>>

SubSend(t) ==
    /\ pc[t] = "sub_send"
    /\ CanSend
    /\ Enqueue([type |-> "SUB", corr |-> corr, handle |-> cur.handle])
    /\ Goto(t, "sub_wait")
    /\ UNCHANGED <<link, to_client, server, tasks_of_conn, sub_counter, conn_state, holder, client, goal,
                   hand, target, attempts, handles, bounds, late, flushed, done, restarted>>

\* Disconnected: `?' leaves the call, and the replay
SubFails(t) ==
    /\ pc[t] = "sub_send"
    /\ ~ CanSend
    /\ Release
    /\ Return(t)
    /\ UNCHANGED <<network, server, tasks_of_conn, sub_counter, conn_state, client, bounds, history>>

\* The SUBACK of a new subscription has come: the channel is registered under the server's id,
\* and a subscription that is to survive a reconnect is put into Client.subscriptions
Subscribed(t) ==
    /\ pc[t] = "sub_wait" /\ got # 0 /\ cur.stable = 0
    /\ StateFree
    /\ subscriptions' = Put(subscriptions, got, cur.handle)
    /\ id' = [id EXCEPT ![cur.handle] = got]
    /\ IF goal[t] = "subscribe"
       THEN /\ tracked' = Put(tracked, got, [handle |-> cur.handle, server |-> got])
            /\ Goto(t, "idle")
            /\ goal' = [goal EXCEPT ![t] = "none"]
            /\ UNCHANGED hand
       ELSE /\ Goto(t, "ensure")
            /\ goal' = [goal EXCEPT ![t] = "reply"]
            /\ hand' = [hand EXCEPT ![t] = cur.handle]
            /\ UNCHANGED tracked
    /\ Release
    /\ UNCHANGED <<network, server, tasks_of_conn, sub_counter, pending_subs, pending_flush, closed,
                   target, attempts, made, rx, buffer, bounds, history>>

-----------------------------------------------------------------------------
(* Reconnecting *)

\* The loop of spawn_reconnect_loop looks at closed, then waits for the lock
LoopWakes ==
    /\ pc[LoopTask] = "sleep"
    /\ Goto(LoopTask, IF closed THEN "exit" ELSE "look")
    /\ UNCHANGED <<network, server, tasks_of_conn, sub_counter, conn_state, holder, client, goal, hand,
                   target, attempts, handles, bounds, history>>

LoopLooks ==
    /\ pc[LoopTask] = "look"
    /\ lock = None
    /\ Goto(LoopTask, IF connected THEN "sleep" ELSE "attempt")
    /\ UNCHANGED <<network, server, tasks_of_conn, sub_counter, conn_state, holder, client, goal, hand,
                   target, attempts, handles, bounds, history>>

\* reconnect_once is done: a call goes on
Reconnected(t) ==
    /\ Goto(t, IF t = LoopTask THEN "sleep" ELSE "begin")
    /\ attempts' = [attempts EXCEPT ![t] = 0]
    /\ UNCHANGED <<goal, hand, target>>

\* reconnect_once takes the lock and finds that someone else has reconnected
FoundConnected(t) ==
    /\ pc[t] = "attempt"
    /\ lock = None
    /\ connected
    /\ Reconnected(t)
    /\ UNCHANGED <<network, server, tasks_of_conn, sub_counter, conn_state, holder, client, handles, bounds, history>>

\* It closes what is left of the old connection and connects
Attempt(t) ==
    /\ pc[t] = "attempt"
    /\ lock = None
    /\ ~ connected
    /\ lock' = t
    /\ CloseConnection
    /\ Goto(t, "connecting")
    /\ UNCHANGED <<next_id, served, sub_counter, conn_state, corr, got, cur, todo, remapped, client,
                   goal, hand, target, attempts, handles, bounds, history>>

ConnectFails(t) ==
    /\ pc[t] = "connecting"
    /\ Release
    /\ IF attempts[t] + 1 < MaxAttempts
       THEN /\ attempts' = [attempts EXCEPT ![t] = @ + 1]
            /\ Goto(t, "attempt")
            /\ UNCHANGED <<goal, hand, target, handles>>
       ELSE Return(t)
    /\ UNCHANGED <<network, server, tasks_of_conn, sub_counter, conn_state, client, bounds, history>>

\* replay_subscriptions starts from a copy of Client.subscriptions
ConnectSucceeds(t) ==
    /\ pc[t] = "connecting"
    /\ NewConnection
    /\ todo' = {[stable |-> s, handle |-> tracked[s].handle] : s \in DOMAIN tracked}
    /\ Goto(t, "replay")
    /\ UNCHANGED <<next_id, lock, corr, got, cur, remapped, client, goal, hand, target, attempts,
                   handles, bounds, flushed, done, restarted>>

ReplayNext(t, e) ==
    /\ pc[t] = "replay"
    /\ e \in todo
    /\ todo' = todo \ {e}
    /\ cur' = e
    /\ corr' = sub_counter /\ sub_counter' = sub_counter + 1
    /\ Goto(t, "sub_pending")
    /\ UNCHANGED <<network, server, tasks_of_conn, conn_state, lock, got, remapped, client, goal, hand,
                   target, attempts, handles, bounds, history>>

\* The SUBACK of a replayed subscription has come
Replayed(t) ==
    /\ pc[t] = "sub_wait" /\ got # 0 /\ cur.stable # 0
    /\ StateFree
    /\ subscriptions' = Put(subscriptions, got, cur.handle)
    /\ remapped' = Put(remapped, cur.stable, got)
    /\ got' = 0 /\ cur' = NoOne
    /\ Goto(t, "replay")
    /\ UNCHANGED <<network, server, tasks_of_conn, sub_counter, pending_subs, pending_flush, lock, corr,
                   todo, client, goal, hand, target, attempts, handles, bounds, history>>

\* Mutant: the entries keep their old ids
ReplayDone_KeepsIds(t) ==
    /\ pc[t] = "replay"
    /\ todo = {}
    /\ Release
    /\ Reconnected(t)
    /\ UNCHANGED <<network, server, tasks_of_conn, sub_counter, conn_state, client, handles, bounds, history>>

\* The new ids are entered for the subscriptions that are still there
ReplayDone(t) ==
    /\ pc[t] = "replay"
    /\ todo = {}
    /\ tracked' = [s \in DOMAIN tracked |->
                      IF s \in DOMAIN remapped THEN [tracked[s] EXCEPT !.server = remapped[s]]
                      ELSE tracked[s]]
    /\ Release
    /\ Reconnected(t)
    /\ UNCHANGED <<network, server, tasks_of_conn, sub_counter, conn_state, closed, handles, bounds, history>>

-----------------------------------------------------------------------------
(* unsubscribe *)

\* The entry of Client.subscriptions is removed; it says which id the server knows
UnsubTake(t) ==
    LET s == id[hand[t]]
    IN  /\ pc[t] = "unsub"
        /\ target' = [target EXCEPT ![t] = IF s \in DOMAIN tracked THEN tracked[s].server ELSE s]
        /\ tracked' = Drop(tracked, s)
        /\ Goto(t, "unsub_lock")
        /\ UNCHANGED <<network, server, tasks_of_conn, sub_counter, conn_state, holder, closed, goal,
                       hand, attempts, handles, bounds, history>>

UnsubSend(t) ==
    /\ pc[t] = "unsub_lock"
    /\ lock = None
    /\ IF CanSend
       THEN /\ lock' = t
            /\ Enqueue([type |-> "UNSUB", id |-> target[t]])
            /\ Goto(t, "unsub_remove")
            /\ UNCHANGED <<goal, hand, target, attempts, handles>>
       ELSE Return(t) /\ UNCHANGED <<to_server, sent, lock>>
    /\ UNCHANGED <<link, to_client, server, tasks_of_conn, sub_counter, conn_state, corr, got, cur, todo,
                   remapped, client, bounds, late, flushed, done, restarted>>

\* remove_subscription
UnsubRemove(t) ==
    /\ pc[t] = "unsub_remove"
    /\ StateFree
    /\ subscriptions' = Drop(subscriptions, target[t])
    /\ done' = done \cup {hand[t]}
    /\ Release
    /\ Return(t)
    /\ UNCHANGED <<network, server, tasks_of_conn, sub_counter, pending_subs, pending_flush, client,
                   bounds, sent, late, flushed, restarted>>

-----------------------------------------------------------------------------
(* flush *)

BeginFlush(t) ==
    /\ pc[t] = "begin" /\ goal[t] = "flush"
    /\ lock = None
    /\ lock' = t
    /\ corr' = sub_counter /\ sub_counter' = sub_counter + 1
    /\ Goto(t, "flush_pending")
    /\ UNCHANGED <<network, server, tasks_of_conn, conn_state, got, cur, todo, remapped, client, goal,
                   hand, target, attempts, handles, bounds, history>>

FlushPending(t) ==
    /\ pc[t] = "flush_pending"
    /\ StateFree
    /\ pending_flush' = pending_flush \cup {corr}
    /\ Goto(t, "flush_send")
    /\ UNCHANGED <<network, server, tasks_of_conn, sub_counter, pending_subs, subscriptions, holder,
                   client, goal, hand, target, attempts, handles, bounds, history>>

\* Mutant: the PING goes out ahead of what is queued
FlushSend_Overtakes(t) ==
    /\ pc[t] = "flush_send"
    /\ CanSend
    /\ to_server' = <<[type |-> "PING"]>> \o to_server
    /\ sent' = sent + 1
    /\ target' = [target EXCEPT ![t] = sent + 1]
    /\ Goto(t, "flush_wait")
    /\ UNCHANGED <<link, to_client, server, tasks_of_conn, sub_counter, conn_state, holder, client,
                   goal, hand, attempts, handles, bounds, late, flushed, done, restarted>>

\* target remembers how many frames the connection was given, the PING included
FlushSend(t) ==
    /\ pc[t] = "flush_send"
    /\ CanSend
    /\ Enqueue([type |-> "PING"])
    /\ target' = [target EXCEPT ![t] = sent + 1]
    /\ Goto(t, "flush_wait")
    /\ UNCHANGED <<link, to_client, server, tasks_of_conn, sub_counter, conn_state, holder, client,
                   goal, hand, attempts, handles, bounds, late, flushed, done, restarted>>

\* The send failed, or the timeout has passed: the entry is removed and the call returns an error
FlushFails(t) ==
    /\ \/ pc[t] = "flush_send" /\ ~ CanSend
       \/ pc[t] = "flush_expired"
    /\ StateFree
    /\ pending_flush' = pending_flush \ {corr}
    /\ Release
    /\ Return(t)
    /\ UNCHANGED <<network, server, tasks_of_conn, sub_counter, pending_subs, subscriptions, client, bounds, history>>

\* Mutant: the PONG is waited for without a timeout
FlushTimeout_Never(t) ==
    /\ pc[t] = "flush_wait" /\ got # got
    /\ UNCHANGED vars

FlushTimeout(t) ==
    /\ pc[t] = "flush_wait" /\ got = 0
    /\ late' = TRUE
    /\ Goto(t, "flush_expired")
    /\ UNCHANGED <<network, server, tasks_of_conn, sub_counter, conn_state, holder, client, goal, hand,
                   target, attempts, handles, bounds, sent, flushed, done, restarted>>

FlushOk(t) ==
    /\ pc[t] = "flush_wait" /\ got # 0
    /\ flushed' = [served |-> served >= target[t], late |-> late]
    /\ Release
    /\ Return(t)
    /\ UNCHANGED <<network, server, tasks_of_conn, sub_counter, conn_state, client, bounds, sent, late, done, restarted>>

-----------------------------------------------------------------------------
(* The tasks of the connection *)

\* Mutant: the message goes to the channel that was made last
Dispatch_ToLast(h, m) ==
    IF ~ rx[h]
    THEN /\ subscriptions' = Drop(subscriptions, m.id)
         /\ reader' = "read" /\ held' = None
         /\ UNCHANGED buffer
    ELSE /\ Len(buffer[made]) < SubBuffer
         /\ buffer' = [buffer EXCEPT ![made] = Append(@, m.of)]
         /\ reader' = "read" /\ held' = None
         /\ UNCHANGED subscriptions

\* dispatch_msg, once it has the lock: the subscription is there or not, its receiver is
\* there or not, its channel has room or not
Dispatch(h, m) ==
    IF ~ rx[h]
    THEN /\ subscriptions' = Drop(subscriptions, m.id)
         /\ reader' = "read" /\ held' = None
         /\ UNCHANGED buffer
    ELSE /\ Len(buffer[h]) < SubBuffer
         /\ buffer' = [buffer EXCEPT ![h] = Append(@, m.of)]
         /\ reader' = "read" /\ held' = None
         /\ UNCHANGED subscriptions

ReadMsg ==
    LET m == Head(to_client)
    IN  /\ reader = "read"
        /\ to_client # <<>> /\ m.type = "MSG"
        /\ to_client' = Tail(to_client)
        /\ IF m.id \notin DOMAIN subscriptions
           THEN UNCHANGED <<subscriptions, buffer, reader, held>>
           ELSE LET h == subscriptions[m.id]
                IN  IF rx[h] /\ Len(buffer[h]) >= SubBuffer
                    THEN reader' = "blocked" /\ held' = m /\ UNCHANGED <<subscriptions, buffer>>
                    ELSE Dispatch(h, m)
        /\ UNCHANGED <<link, to_server, server, connected, write_tx, writer, sub_counter, pending_subs,
                       pending_flush, holder, client, call, made, id, rx, bounds, history>>

\* tx.send(msg).await ends: there is room, or nobody to receive
Unblock ==
    /\ reader = "blocked"
    /\ Dispatch(subscriptions[held.id], held)
    /\ UNCHANGED <<network, server, connected, write_tx, writer, sub_counter, pending_subs,
                   pending_flush, holder, client, call, made, id, rx, bounds, history>>

\* SUBACK: the call that waits for this correlation id is told the server's id
ReadSuback ==
    LET m == Head(to_client)
    IN  /\ reader = "read"
        /\ to_client # <<>> /\ m.type = "SUBACK"
        /\ to_client' = Tail(to_client)
        /\ pending_subs' = pending_subs \ {m.corr}
        /\ got' = IF m.corr \in pending_subs /\ m.corr = corr THEN m.id ELSE got
        /\ UNCHANGED <<link, to_server, server, tasks_of_conn, sub_counter, pending_flush,
                       subscriptions, lock, corr, cur, todo, remapped, client, call, handles, bounds, history>>

\* PONG: the server sends no correlation id, so resolve_flush takes the smallest that waits
ReadPong ==
    /\ reader = "read"
    /\ to_client # <<>> /\ Head(to_client).type = "PONG"
    /\ to_client' = Tail(to_client)
    /\ IF pending_flush = {} THEN UNCHANGED <<pending_flush, got>>
       ELSE LET least == CHOOSE c \in pending_flush : \A d \in pending_flush : c <= d
            IN  /\ pending_flush' = pending_flush \ {least}
                /\ got' = IF least = corr THEN corr ELSE got
    /\ UNCHANGED <<link, to_server, server, tasks_of_conn, sub_counter, pending_subs, subscriptions,
                   lock, corr, cur, todo, remapped, client, call, handles, bounds, history>>

\* read_buf returns 0 or an error
ReadEof ==
    /\ reader = "read"
    /\ link = "down" /\ to_client = <<>>
    /\ reader' = "gone" /\ connected' = FALSE
    /\ UNCHANGED <<network, server, write_tx, writer, held, sub_counter, conn_state, holder, client,
                   call, handles, bounds, history>>

\* write_all or flush fails: the write task ends
WriteFails ==
    /\ writer = "alive"
    /\ link = "down" /\ to_server # <<>>
    /\ writer' = "gone" /\ connected' = FALSE
    /\ to_server' = <<>>
    /\ UNCHANGED <<link, to_client, server, write_tx, reader, held, sub_counter, conn_state, holder,
                   client, call, handles, bounds, history>>

-----------------------------------------------------------------------------
(* The application's use of its subscriptions *)

\* Subscription::next, of a subscription that no call has borrowed
Receive(h) ==
    /\ buffer[h] # <<>> /\ \A t \in Apps : hand[t] # h
    /\ buffer' = [buffer EXCEPT ![h] = Tail(@)]
    /\ UNCHANGED <<network, server, tasks_of_conn, sub_counter, conn_state, holder, client, call, made,
                   id, rx, bounds, history>>

\* A Subscription is dropped, which no call is told
DropSubscription(h) ==
    /\ id[h] # 0 /\ rx[h] /\ \A t \in Apps : hand[t] # h
    /\ rx' = [rx EXCEPT ![h] = FALSE]
    /\ buffer' = [buffer EXCEPT ![h] = <<>>]
    /\ UNCHANGED <<network, server, tasks_of_conn, sub_counter, conn_state, holder, client, call, made,
                   id, bounds, history>>

-----------------------------------------------------------------------------
(* The server and the network *)

Serve ==
    LET f == Head(to_server)
    IN  /\ link = "up" /\ to_server # <<>>
        /\ to_server' = Tail(to_server)
        /\ served' = served + 1
        /\ \/ /\ f.type = "SUB"
              /\ server_subs' = Put(server_subs, next_id, f.handle)
              /\ next_id' = next_id + 1
              /\ to_client' = Append(to_client, [type |-> "SUBACK", corr |-> f.corr, id |-> next_id])
           \/ /\ f.type = "SUB"                 \* refused: the answer is an ERROR, which nobody waits for
              /\ UNCHANGED <<server_subs, next_id, to_client>>
           \/ /\ f.type = "UNSUB"
              /\ server_subs' = Drop(server_subs, f.id)
              /\ UNCHANGED <<next_id, to_client>>
           \/ /\ f.type = "PING"
              /\ to_client' = Append(to_client, [type |-> "PONG"])
              /\ UNCHANGED <<server_subs, next_id>>
           \/ /\ f.type = "PUB"
              /\ UNCHANGED <<server_subs, next_id, to_client>>
        /\ UNCHANGED <<link, tasks_of_conn, sub_counter, conn_state, holder, client, call, handles, bounds, history>>

SendMsg(i) ==
    /\ link = "up"
    /\ i \in DOMAIN server_subs
    /\ msgs < MaxMsgs
    /\ msgs' = msgs + 1
    /\ to_client' = Append(to_client, [type |-> "MSG", id |-> i, of |-> server_subs[i]])
    /\ UNCHANGED <<link, to_server, server, tasks_of_conn, sub_counter, conn_state, holder, client, call,
                   handles, calls, drops, history>>

\* The connection is lost, with what was under way to the server and some of what was
\* under way to the client; or the server starts again
LoseLink(k, restart) ==
    /\ link = "up"
    /\ drops < MaxDrops
    /\ k \in 0..Len(to_client)
    /\ link' = "down"
    /\ drops' = drops + 1
    /\ to_server' = <<>> /\ to_client' = SubSeq(to_client, 1, k)
    /\ server_subs' = Empty
    /\ next_id' = IF restart THEN 1 ELSE next_id
    /\ restarted' = (restarted \/ restart)
    /\ UNCHANGED <<served, tasks_of_conn, sub_counter, conn_state, holder, client, call, handles,
                   calls, msgs, sent, late, flushed, done>>

-----------------------------------------------------------------------------
Step(t) ==
    \/ Ensure(t) \/ Publish(t) \/ GetReply(t) \/ ReplyTimeout(t) \/ Close(t)
    \/ BeginSubscribe(t) \/ SubPending(t) \/ SubSend(t) \/ SubFails(t) \/ Subscribed(t)
    \/ FoundConnected(t) \/ Attempt(t) \/ ConnectFails(t) \/ ConnectSucceeds(t)
    \/ (\E e \in todo : ReplayNext(t, e)) \/ Replayed(t) \/ ReplayDone(t)
    \/ UnsubTake(t) \/ UnsubSend(t) \/ UnsubRemove(t)
    \/ BeginFlush(t) \/ FlushPending(t) \/ FlushSend(t) \/ FlushFails(t) \/ FlushTimeout(t) \/ FlushOk(t)

LoopStep == LoopWakes \/ LoopLooks

Application(t) ==
    \/ \E c \in Calls \ {"unsubscribe", "close"} : Start(t, c)
    \/ "unsubscribe" \in Calls /\ \E h \in Handles : StartUnsubscribe(t, h)
    \/ "close" \in Calls /\ StartClose(t)

ReadTask == ReadMsg \/ Unblock \/ ReadSuback \/ ReadPong \/ ReadEof

Faults == \E k \in 0..Len(to_client), restart \in {FALSE, Restarts} : LoseLink(k, restart)

Next ==
    \/ \E t \in Apps : Application(t)
    \/ \E t \in Tasks : Step(t)
    \/ LoopStep \/ ReadTask \/ WriteFails \/ Serve \/ Faults
    \/ \E h \in Handles : Receive(h) \/ DropSubscription(h)
    \/ \E i \in DOMAIN server_subs : SendMsg(i)

Spec == Init /\ [][Next]_vars

\* Tasks that can go on do.  tokio's Mutex serves its waiters in the order they came, so a
\* task that waits for it and finds it free again and again gets it.  The server answers, the
\* application empties its channels, and a server that is tried again and again is reached.
Fairness ==
    /\ \A t \in Tasks : SF_vars(Step(t) \/ (t = LoopTask /\ LoopStep)) /\ SF_vars(ConnectSucceeds(t))
    /\ WF_vars(ReadTask) /\ WF_vars(WriteFails) /\ WF_vars(Serve)
    /\ \A h \in Handles : WF_vars(Receive(h))

FairSpec == Spec /\ Fairness

-----------------------------------------------------------------------------
\* The channel of a subscription is given only what the server sent for that subscription,
\* through every reconnect and every reuse of an id: ConnState is made anew with the connection.
RoutedToOwner ==
    \A h \in Handles : \A i \in DOMAIN buffer[h] : buffer[h][i] = h

\* Nothing of the client is under way
Quiet ==
    /\ connected /\ link = "up" /\ lock = None /\ to_server = <<>>
    /\ \A t \in Apps : pc[t] # "unsub_lock"

\* "Opt-in automatic reconnection with backoff and subscription replay" (README.md): once the
\* client is connected again, every subscription it keeps is live under exactly one
\* id of the server, the id that unsubscribe will use and its messages are routed by,
\* as long as the server goes on numbering where it was.
ReplayRestores ==
    Quiet /\ ~ restarted => \A s \in DOMAIN tracked :
        LET e == tracked[s]
        IN  /\ {i \in DOMAIN server_subs : server_subs[i] = e.handle} = {e.server}
            /\ rx[e.handle] => e.server \in DOMAIN subscriptions /\ subscriptions[e.server] = e.handle

\* flush is there for "confirming the server processed prior frames" (client.rs): where no
\* flush has timed out on the connection, Ok means that the server has handled every
\* frame given to it before the PING.
FlushConfirms == flushed.served \/ flushed.late

\* A call waits, with the lock held, for a SUBACK that is not to come, as the connection is lost
\* or the SUB was refused; or the read task waits for room in the channel of a subscription
\* that its own call keeps borrowed.
Jammed ==
    \/ /\ \E t \in Tasks : pc[t] = "sub_wait"
       /\ got = 0 /\ held = None
       /\ \A f \in Range(to_server) : f.type # "SUB"
       /\ \A r \in Range(to_client) : r.type # "SUBACK"
    \/ reader = "blocked" /\ \E t \in Apps : pc[t] = "unsub_remove" /\ hand[t] = subscriptions[held.id]

\* A client that lost its connection is connected again, however often max_reconnect_attempts
\* runs out, unless a call jams it or it is closed.
LostLinkRecovers == ~ connected ~> (connected \/ closed \/ Jammed)

\* A call returns, whatever is lost meanwhile, unless some call jams the client: the timeouts
\* of flush and request, the errors of a dead write task and the reconnect see to it.
CallsReturn == \A t \in Apps : pc[t] # "idle" ~> (pc[t] = "idle" \/ Jammed)

-----------------------------------------------------------------------------
(* What the documents say and the client does not do *)

\* "Send a PING and wait for PONG, confirming the server processed prior frames." (client.rs):
\* Ok means that the server has handled every frame given to it before.
FlushAlwaysConfirms == flushed.served

\* "Opt-in automatic reconnection with backoff and subscription replay" (README.md): a client
\* that is not closed and lost its connection is connected again.
AlwaysRecovers == ~ connected ~> (connected \/ closed)

\* "Unsubscribe from a subscription." (client.rs): when the call has returned Ok, the
\* subscription is given nothing more.
UnsubscribeIsFinal == [][\A h \in done : Len(buffer'[h]) <= Len(buffer[h])]_vars

\* "Close the connection: shut down background tasks and release resources." (connection.rs):
\* a closed client does not connect again of itself.
ClosedStaysClosed == closed /\ (\A t \in Apps : pc[t] = "idle") => ~ connected

\* "Clean up temporary subscription" (client.rs): a request that has returned left no subscription
\* on the server.
RequestsCleanUp ==
    Quiet /\ (\A t \in Apps : pc[t] = "idle") =>
        \A i \in DOMAIN server_subs : \E s \in DOMAIN tracked : tracked[s].server = i

===============================================================================

------------------------------ MODULE Client_inv ------------------------------
(***************************************************************************)
(* The inductive invariant of Client.                                      *)
(***************************************************************************)
EXTENDS Client

SubPhases == {"sub_pending", "sub_send", "sub_wait"}
FlushPhases == {"flush_pending", "flush_send", "flush_wait", "flush_expired"}
Holding == {"connecting", "replay", "unsub_remove"} \cup SubPhases \cup FlushPhases

\* What the holder of the lock is doing
Phase == IF lock = None THEN "free" ELSE pc[lock]

\* The lock is held by the task that is where a holder can be
Agree == \A t \in Tasks : pc[t] \in Holding <=> lock = t

Goals == {"none", "subscribe", "unsubscribe", "request", "reply", "publish", "flush"}

MSG == [type : {"MSG"}, id : Nat, of : Handles]

\* The types, with those of the locals
NetTypes == link \in {"up", "down"} /\ to_server \in Seq(Frame) /\ to_client \in Seq(Reply)
ServerTypes ==
    /\ DOMAIN server_subs \subseteq Nat /\ \A i \in DOMAIN server_subs : server_subs[i] \in Handles
    /\ next_id \in Nat \ {0} /\ served \in Nat
ConnTypes ==
    /\ connected \in BOOLEAN /\ write_tx \in BOOLEAN /\ writer \in {"alive", "gone"}
    /\ reader \in {"read", "blocked", "gone"} /\ sub_counter \in Nat
    /\ pending_subs \subseteq Nat /\ pending_flush \subseteq Nat
    /\ DOMAIN subscriptions \subseteq Nat /\ \A i \in DOMAIN subscriptions : subscriptions[i] \in Handles
    /\ (reader = "blocked") <=> held # None
    /\ held # None => held \in MSG /\ held.id \in DOMAIN subscriptions
HolderTypes ==
    /\ lock \in Tasks \cup {None} /\ corr \in Nat /\ got \in Nat
    /\ cur \in [stable : Nat, handle : Handles \cup {0}]
    /\ todo \subseteq [stable : Nat \ {0}, handle : Handles]
    /\ DOMAIN remapped \subseteq Nat /\ \A s \in DOMAIN remapped : remapped[s] \in Nat
ClientTypes ==
    /\ DOMAIN tracked \subseteq Nat \ {0}
    /\ \A s \in DOMAIN tracked : tracked[s] \in [handle : Handles, server : Nat]
    /\ closed \in BOOLEAN
CallTypes ==
    /\ pc \in [Tasks -> PC] /\ goal \in [Tasks -> Goals] /\ hand \in [Tasks -> Handles \cup {0}]
    /\ target \in [Tasks -> Nat] /\ attempts \in [Tasks -> 0..MaxAttempts]
HandleTypes ==
    /\ made \in 0..MaxHandles /\ id \in [Handles -> Nat] /\ rx \in [Handles -> BOOLEAN]
    /\ buffer \in [Handles -> Seq(Handles)] /\ \A h \in Handles : Len(buffer[h]) <= SubBuffer
HistoryTypes == sent \in Nat /\ late \in BOOLEAN /\ restarted \in BOOLEAN

Types ==
    /\ NetTypes /\ ServerTypes /\ ConnTypes /\ HolderTypes /\ ClientTypes /\ CallTypes
    /\ HandleTypes /\ HistoryTypes

\* The lock, and what its holder's locals are in each phase
Locked ==
    /\ goal[LoopTask] = "none"
    /\ Agree
    /\ Phase \in {"free", "connecting", "unsub_remove"} \cup FlushPhases =>
           cur = NoOne /\ todo = {} /\ remapped = Empty
    /\ Phase = "replay" => cur = NoOne
    /\ Phase \in SubPhases => cur.handle # 0 /\ (cur.stable = 0 => todo = {} /\ remapped = Empty)
    /\ got # 0 => Phase \in {"sub_wait", "flush_send", "flush_wait", "flush_expired"}

\* A subscription is numbered within the bound: calls that have yet to number theirs are counted
Waiting(t) == goal[t] \in Subscribing /\ ~ (pc[t] \in SubPhases /\ cur.stable = 0)

\* Sets of calls are counted as finite sets are
Counted ==
    \A V \in SUBSET Apps :
        /\ Cardinality(V) \in Nat
        /\ \A W \in SUBSET V : Cardinality(W) <= Cardinality(V)
        /\ \A t \in Apps \ V : Cardinality(V \cup {t}) = Cardinality(V) + 1

Room ==
    /\ Counted
    /\ made + Cardinality({t \in Apps : Waiting(t)}) <= MaxHandles

\* A connection that cannot be written to is dead, and so is the one that is being replaced
Network ==
    /\ ~ CanSend => link = "down"
    /\ Phase = "connecting" => link = "down"

\* A call that has borrowed a subscription borrowed one the server has numbered
Hands ==
    \A t \in Tasks :
        pc[t] \in {"unsub", "unsub_lock", "unsub_remove", "reply_wait"} \/ goal[t] = "reply" =>
            hand[t] \in Handles /\ id[hand[t]] # 0

\* At most one f is under way in q, or else one answer r in p
OneOf(f, r, q, p) ==
    /\ \A i, j \in DOMAIN q : q[i].type = f /\ q[j].type = f => i = j
    /\ \A i, j \in DOMAIN p : p[i].type = r /\ p[j].type = r => i = j
    /\ \A i \in DOMAIN q, j \in DOMAIN p : ~ (q[i].type = f /\ p[j].type = r)

\* A SUB or its SUBACK is under way only for the holder that waits for it
Asking == Phase = "sub_wait" /\ got = 0
Asked ==
    /\ \A j \in DOMAIN to_server : to_server[j].type = "SUB" => Asking /\ to_server[j].handle = cur.handle
    /\ \A j \in DOMAIN to_client : to_client[j].type = "SUBACK" => Asking
    /\ OneOf("SUB", "SUBACK", to_server, to_client)

\* Until a flush has timed out, a PING or its PONG is under way only for the holder that waits
\* for it, behind every frame given before it
Pinging == Phase = "flush_wait" /\ got = 0
Pinged ==
    /\ pending_flush \subseteq {corr}
    /\ pending_flush # {} => got = 0 /\ Phase \in {"flush_send", "flush_wait", "flush_expired"}
    /\ link = "up" => served + Len(to_server) = sent
    /\ ~ late =>
           /\ \A j \in DOMAIN to_server : to_server[j].type = "PING" =>
                  Pinging /\ (link = "up" => target[lock] <= served + j)
           /\ \A j \in DOMAIN to_client : to_client[j].type = "PONG" => Pinging /\ target[lock] <= served
           /\ OneOf("PING", "PONG", to_server, to_client)
           /\ Phase = "flush_send" => got = 0
           /\ Phase = "flush_wait" /\ got # 0 => target[lock] <= served
    /\ FlushConfirms

\* Client.subscriptions, its copy that is replayed and Subscription.id agree
Kept ==
    /\ \A h \in Handles : h > made => id[h] = 0
    /\ Phase \in SubPhases /\ cur.stable = 0 => cur.handle = made /\ id[cur.handle] = 0 /\ lock # LoopTask
    /\ cur.stable # 0 => id[cur.handle] = cur.stable
    /\ \A e \in todo : id[e.handle] = e.stable /\ e.stable # cur.stable
    /\ \A e, f \in todo : e.stable = f.stable => e = f
    /\ \A s \in DOMAIN tracked : id[tracked[s].handle] = s

\* A subscription is asked for once on a connection
Single ==
    /\ \A i, j \in DOMAIN server_subs : server_subs[i] = server_subs[j] => i = j
    /\ \A i \in DOMAIN server_subs : server_subs[i] <= made
    /\ Phase \in {"sub_pending", "sub_send"} => \A i \in DOMAIN server_subs : server_subs[i] # cur.handle
    /\ \A j \in DOMAIN to_server : to_server[j].type = "SUB" =>
           \A i \in DOMAIN server_subs : server_subs[i] # cur.handle
    /\ \A e \in todo : \A i \in DOMAIN server_subs : server_subs[i] # e.handle

\* An id that is in use on the connection was given to one subscription, own[i].  An id that the
\* server may still give away is in use nowhere.
Given(i) == link = "up" \/ ~ restarted => i < next_id
Owned(own) ==
    /\ \A i \in DOMAIN server_subs : server_subs[i] = own[i] /\ Given(i)
    /\ \A i \in DOMAIN subscriptions : subscriptions[i] = own[i] /\ Given(i)
    /\ \A j \in DOMAIN to_client : to_client[j].type = "MSG" =>
           to_client[j].of = own[to_client[j].id] /\ Given(to_client[j].id)
    /\ held # None => held.of = own[held.id] /\ Given(held.id)
    /\ \A j \in DOMAIN to_client : to_client[j].type = "SUBACK" =>
           own[to_client[j].id] = cur.handle /\ Given(to_client[j].id)
    /\ Phase = "sub_wait" /\ got # 0 => own[got] = cur.handle /\ Given(got)
    /\ RoutedToOwner

\* The subscription has left Client.subscriptions, or was never there
GivenUp(h) == h \in Handles /\ id[h] # 0 /\ id[h] \notin DOMAIN tracked

\* The same of the ids of earlier connections, as long as the server goes on numbering
Known(own) ==
    /\ \A h \in Handles : id[h] # 0 => own[id[h]] = h /\ id[h] < next_id
    /\ \A s \in DOMAIN tracked : own[tracked[s].server] = tracked[s].handle /\ tracked[s].server < next_id
    /\ \A s \in DOMAIN remapped :
           own[remapped[s]] \in Handles /\ id[own[remapped[s]]] = s /\ remapped[s] < next_id
    /\ \A t \in Tasks : pc[t] \in {"unsub_lock", "unsub_remove"} =>
           own[target[t]] = hand[t] /\ target[t] < next_id /\ GivenUp(hand[t])
    /\ \A j \in DOMAIN to_server : to_server[j].type = "UNSUB" =>
           to_server[j].id < next_id /\ GivenUp(own[to_server[j].id])

\* The subscription h is live under the id i
Live(i, h) ==
    /\ i \in DOMAIN server_subs /\ server_subs[i] = h
    /\ rx[h] => i \in DOMAIN subscriptions

\* The replay is under way
Replaying == Phase = "replay" \/ cur.stable # 0

\* The subscription that is asked for has not been given up meanwhile
Wanted == cur.stable = 0 \/ cur.stable \in DOMAIN tracked

\* What is kept is live on the connection, or the replay will come to it
Restored ==
    link = "up" =>
        /\ \A s \in DOMAIN tracked :
               IF Replaying
               THEN \/ s = cur.stable
                    \/ \E e \in todo : e.stable = s
                    \/ s \in DOMAIN remapped /\ Live(remapped[s], tracked[s].handle)
               ELSE Live(tracked[s].server, tracked[s].handle)
        /\ Wanted => \A j \in DOMAIN to_client : to_client[j].type = "SUBACK" =>
               to_client[j].id \in DOMAIN server_subs
        /\ Wanted /\ Phase = "sub_wait" /\ got # 0 => got \in DOMAIN server_subs

IInvOf(own) ==
    /\ Types /\ Locked /\ Room /\ Network /\ Hands /\ Asked /\ Pinged /\ Kept /\ Single
    /\ Owned(own)
    /\ ~ restarted => Known(own) /\ Restored

IInv == \E own \in [Nat -> Nat] : IInvOf(own)
===============================================================================

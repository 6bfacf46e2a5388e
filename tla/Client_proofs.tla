--------------------------- MODULE Client_proofs ---------------------------
(***************************************************************************)
(* The safety invariants of Client hold for any number of tasks, calls,    *)
(* subscriptions, messages and lost connections.                           *)
(***************************************************************************)
EXTENDS Client_steps

USE Zenon

-----------------------------------------------------------------------------
(* Closing and reconnecting *)

\* Connection::close leaves nothing of the connection.
LEMMA CloseFacts ==
    ASSUME NEW own, IInvOf(own), CloseConnection, UNCHANGED <<next_id, served, sub_counter>>,
           UNCHANGED <<pending_subs, pending_flush, subscriptions>>, UNCHANGED <<corr, got, cur, todo, remapped>>,
           UNCHANGED <<tracked, closed>>, UNCHANGED <<made, id>>,
           UNCHANGED <<sent, late, flushed, restarted>>,
           Phase = "free", Phase' \in {"free", "connecting"}, RoutedToOwner', Agree', Room', Hands',
           goal'[LoopTask] = "none", lock' \in Tasks \cup {None}, CallTypes', HandleTypes',
           \A u \in Tasks : pc'[u] \in {"unsub_lock", "unsub_remove"} =>
               /\ pc[u] \in {"unsub_lock", "unsub_remove"}
               /\ target'[u] = target[u] /\ hand'[u] = hand[u]
    PROVE  IInvOf(own)'
<1>1. /\ NetTypes /\ ServerTypes /\ ConnTypes /\ HolderTypes /\ ClientTypes
      /\ HistoryTypes /\ Locked /\ Pinged /\ Kept /\ Owned(own) /\ (~ restarted => Known(own))
  BY DEF IInvOf, Types
<1>2. /\ connected' = FALSE /\ write_tx' = FALSE /\ writer' = "gone" /\ reader' = "gone" /\ held' = None
      /\ link' = "down" /\ to_server' = <<>> /\ to_client' = <<>> /\ server_subs' = Empty
  BY DEF CloseConnection
<1>3. DOMAIN <<>> = {} /\ DOMAIN Empty = {}
  BY EmptyMap, SMT
<1>4. NetTypes' /\ ServerTypes'
  <2>1. <<>> \in Seq(Frame) /\ <<>> \in Seq(Reply)
    BY SMT
  <2> QED
    BY <1>1, <1>2, <1>3, <2>1 DEF NetTypes, ServerTypes
<1>5. ConnTypes'
  BY <1>1, <1>2 DEF ConnTypes
<1>6. HolderTypes' /\ ClientTypes' /\ HistoryTypes'
  BY <1>1 DEF HolderTypes, ClientTypes, HistoryTypes
<1>7. cur = NoOne /\ todo = {} /\ remapped = Empty /\ got = 0
  BY <1>1 DEF Locked
<1>8. Locked'
  BY <1>7 DEF Locked, SubPhases
<1>9. Network'
  BY <1>2 DEF Network
<1>10. Asked'
  BY <1>2, <1>3, OneOfNothing DEF Asked
<1>11. Pinged'
  <2>1. pending_flush = {}
    BY <1>1 DEF Pinged
  <2>2. FlushConfirms'
    BY <1>1 DEF Pinged, FlushConfirms
  <2> QED
    BY <1>2, <1>3, <1>7, <2>1, <2>2, OneOfNothing DEF Pinged
<1>12. Kept'
  <2>1. Phase' \notin SubPhases
    BY DEF SubPhases
  <2> QED
    BY <1>1, <1>7, <2>1, KeptFrame
<1>13. Single'
  BY <1>2, <1>3, <1>7 DEF Single
<1>14. Owned(own)'
  <2>1. \A i \in DOMAIN subscriptions' : subscriptions'[i] = own[i] /\ Given(i)'
    BY <1>1, <1>2 DEF Owned, Given
  <2> QED
    BY <1>2, <1>3, <1>7, <2>1 DEF Owned
<1>15. ~ restarted' => Known(own)'
  <2>1. (\A t \in Tasks : pc[t] \in {"unsub_lock", "unsub_remove"} =>
             own[target[t]] = hand[t] /\ target[t] < next_id /\ GivenUp(hand[t]))' \/ restarted
    BY <1>1, ZenonT(40) DEF Known, GivenUp
  <2> QED
    BY <1>1, <1>2, <1>3, <2>1 DEF Known
<1>16. Restored'
  BY <1>2 DEF Restored
<1> QED
  BY <1>4, <1>5, <1>6, <1>8, <1>9, <1>10, <1>11, <1>12, <1>13, <1>14, <1>15, <1>16 DEF IInvOf,
     Types

\* close.
LEMMA CloseKeeps ==
    ASSUME NEW own, IInvOf(own), NEW t \in Tasks, Close(t)
    PROVE  IInvOf(own)'
<1>1. /\ HolderTypes /\ CallTypes /\ HandleTypes /\ Agree /\ Room /\ Hands /\ goal[LoopTask] = "none"
  BY DEF IInvOf, Types, Locked
<1>2. RoutedToOwner /\ made \in Nat
  BY <1>1, SMT DEF IInvOf, Owned, HandleTypes
<1>3. pc[t] = "close" /\ lock = None /\ pc[t] \notin Holding
  BY DEF Close, Holding, SubPhases, FlushPhases
<1>4. /\ CloseConnection /\ UNCHANGED <<next_id, served, sub_counter>>
      /\ UNCHANGED <<pending_subs, pending_flush, subscriptions>>
      /\ UNCHANGED <<corr, got, cur, todo, remapped>> /\ lock' = lock
      /\ UNCHANGED <<tracked, closed>> /\ UNCHANGED <<sent, late, flushed, restarted>>
  BY DEF Close, conn_state, holder, client, history
<1>5. /\ CallTypes' /\ HandleTypes' /\ made' = made /\ id' = id
      /\ pc'[t] \in {"sleep", "idle"} /\ goal'[t] = "none"
      /\ \A u \in Tasks : u # t =>
             pc'[u] = pc[u] /\ goal'[u] = goal[u] /\ hand'[u] = hand[u] /\ target'[u] = target[u]
      /\ RoutedToOwner' /\ Hands'
  BY <1>1, <1>2, ReturnFacts DEF Close
<1>6. PICK l \in {"sleep", "idle"} : Goto(t, l)
  BY DEF Close, Return
<1>7. l \notin Holding
  BY <1>6 DEF Holding, SubPhases, FlushPhases
<1>8. Agree' /\ Phase' = Phase /\ Phase = "free"
  <2>1. Agree' /\ Phase' = Phase
    BY <1>1, <1>3, <1>4, <1>6, <1>7, PhaseStays
  <2> QED
    BY <1>3, <2>1 DEF Phase
<1>9. Room'
  <2>1. ~ Waiting(t)'
    BY <1>5 DEF Waiting, Subscribing
  <2> QED
    BY <1>1, <1>2, <1>3, <1>5, <2>1, RoomHolder
<1>10. goal'[LoopTask] = "none" /\ lock' \in Tasks \cup {None} /\ Phase' \in {"free", "connecting"}
  BY <1>1, <1>4, <1>5, <1>8 DEF Tasks, HolderTypes
<1>11. \A u \in Tasks : pc'[u] \in {"unsub_lock", "unsub_remove"} =>
           /\ pc[u] \in {"unsub_lock", "unsub_remove"}
           /\ target'[u] = target[u] /\ hand'[u] = hand[u]
  BY <1>5
<1> HIDE DEF CloseConnection
<1> QED
  BY <1>4, <1>5, <1>8, <1>9, <1>10, <1>11, CloseFacts

\* reconnect_once takes the lock and closes what is left of the old connection.
LEMMA AttemptKeeps ==
    ASSUME NEW own, IInvOf(own), NEW t \in Tasks, Attempt(t)
    PROVE  IInvOf(own)'
<1>1. /\ HolderTypes /\ CallTypes /\ HandleTypes /\ Agree /\ Room /\ Hands /\ goal[LoopTask] = "none"
  BY DEF IInvOf, Types, Locked
<1>2. RoutedToOwner /\ made \in Nat
  BY <1>1, SMT DEF IInvOf, Owned, HandleTypes
<1>3. pc[t] = "attempt" /\ lock = None /\ lock' = t /\ Goto(t, "connecting") /\ "connecting" \in Holding
  BY DEF Attempt, Holding
<1>4. /\ CloseConnection /\ UNCHANGED <<next_id, served, sub_counter>>
      /\ UNCHANGED <<pending_subs, pending_flush, subscriptions>>
      /\ UNCHANGED <<corr, got, cur, todo, remapped>>
      /\ UNCHANGED <<tracked, closed>> /\ UNCHANGED <<sent, late, flushed, restarted>>
      /\ UNCHANGED <<goal, hand, target, attempts>> /\ UNCHANGED <<made, id, rx, buffer>>
  BY DEF Attempt, conn_state, client, history, handles
<1>5. /\ Agree' /\ Phase = "free" /\ Phase' = "connecting"
      /\ pc'[t] = "connecting" /\ \A u \in Tasks : u # t => pc'[u] = pc[u]
  BY <1>1, <1>3, PhaseBegins
<1>6. pc' \in [Tasks -> PC]
  BY <1>1, <1>3, ExceptAt DEF CallTypes, Goto, PC
<1>7. CallTypes' /\ HandleTypes' /\ RoutedToOwner'
  BY <1>1, <1>2, <1>4, <1>6 DEF CallTypes, HandleTypes, RoutedToOwner
<1>8. Hands'
  BY <1>1, <1>3, <1>4, <1>5 DEF Hands
<1>9. Room'
  <2>1. Waiting(t)' => Waiting(t)
    BY <1>3, <1>4 DEF Waiting, SubPhases
  <2> QED
    BY <1>1, <1>2, <1>3, <1>4, <1>5, <2>1, RoomHolder
<1>10. goal'[LoopTask] = "none" /\ lock' \in Tasks \cup {None} /\ Phase' \in {"free", "connecting"}
  BY <1>1, <1>3, <1>4, <1>5
<1>11. \A u \in Tasks : pc'[u] \in {"unsub_lock", "unsub_remove"} =>
           /\ pc[u] \in {"unsub_lock", "unsub_remove"}
           /\ target'[u] = target[u] /\ hand'[u] = hand[u]
  BY <1>4, <1>5
<1> HIDE DEF CloseConnection
<1> QED
  BY <1>4, <1>5, <1>7, <1>8, <1>9, <1>10, <1>11, CloseFacts

\* The holder drops the lock, on a connection that is dead or when no replay is under way.
LEMMA Releases ==
    ASSUME NEW own, IInvOf(own), Release, NEW t \in Tasks, pc[t] \in Holding, NEW l, l \notin Holding, l # "unsub_lock",
           Goto(t, l), UNCHANGED <<network, server, tasks_of_conn, sub_counter>>, UNCHANGED client,
           UNCHANGED <<made, id>>, UNCHANGED <<sent, late, restarted>>, UNCHANGED subscriptions,
           pending_subs' \subseteq Nat, pending_flush' = {}, FlushConfirms',
           Asking => /\ \A j \in DOMAIN to_server : to_server[j].type # "SUB"
                     /\ \A j \in DOMAIN to_client : to_client[j].type # "SUBACK",
           ~ late => ~ Pinging,
           link = "down" \/ ~ Replaying,
           CallTypes', HandleTypes', RoutedToOwner', Hands', Waiting(t)' => Waiting(t),
           \A h \in Handles : rx'[h] => rx[h],
           goal'[LoopTask] = "none",
           \A u \in Tasks : u # t => goal'[u] = goal[u] /\ target'[u] = target[u] /\ hand'[u] = hand[u]
    PROVE  IInvOf(own)'
<1>1. /\ NetTypes /\ ServerTypes /\ ConnTypes /\ HolderTypes /\ ClientTypes /\ CallTypes /\ HandleTypes
      /\ HistoryTypes /\ Locked /\ Agree /\ Room /\ Network /\ Asked /\ Pinged /\ Kept /\ Single
      /\ Owned(own) /\ (~ restarted => Known(own) /\ Restored)
  BY DEF IInvOf, Types, Locked
<1>2. /\ lock' = None /\ corr' = 0 /\ got' = 0 /\ cur' = NoOne /\ todo' = {} /\ remapped' = Empty
  BY ReleaseFacts
<1>3. /\ Agree' /\ Phase' = "free" /\ pc'[t] = l /\ \A u \in Tasks : u # t => pc'[u] = pc[u]
  BY <1>1, <1>2, PhaseEnds
<1>4. lock = t /\ Phase = pc[t]
  BY <1>1, PhaseOf
<1>5. /\ UNCHANGED <<link, to_server, to_client>> /\ UNCHANGED <<server_subs, next_id, served>>
      /\ UNCHANGED <<connected, write_tx, writer, reader, held>> /\ UNCHANGED <<tracked, closed>>
  BY DEF network, server, tasks_of_conn, client
<1>6. Types' /\ Locked'
  <2>1. NetTypes' /\ ServerTypes'
    BY <1>1, <1>5 DEF NetTypes, ServerTypes
  <2>2. ConnTypes'
    BY <1>1, <1>5 DEF ConnTypes
  <2>3. ClientTypes' /\ HistoryTypes'
    BY <1>1, <1>5 DEF ClientTypes, HistoryTypes
  <2>4. HolderTypes' /\ Locked'
    BY <1>3, ReleaseFacts
  <2> QED
    BY <2>1, <2>2, <2>3, <2>4 DEF Types
<1>7. Room'
  <2>1. made \in Nat
    BY <1>1, SMT DEF HandleTypes
  <2> QED
    BY <1>1, <1>3, <1>4, <2>1, RoomHolder
<1>8. Network'
  BY <1>1, <1>3, <1>5, NetworkFrame
<1>9. /\ \A j \in DOMAIN to_server : to_server[j].type # "SUB"
      /\ \A j \in DOMAIN to_client : to_client[j].type # "SUBACK"
  BY <1>1 DEF Asked
<1>10. Asked'
  BY <1>1, <1>5, <1>9 DEF Asked
<1>11. Pinged'
  <2>1. ~ late => /\ \A j \in DOMAIN to_server : to_server[j].type # "PING"
                  /\ \A j \in DOMAIN to_client : to_client[j].type # "PONG"
    BY <1>1 DEF Pinged
  <2>2. /\ link' = "up" => served' + Len(to_server') = sent'
        /\ ~ late' => OneOf("PING", "PONG", to_server', to_client')
    BY <1>1, <1>5 DEF Pinged
  <2> QED
    BY <1>2, <1>3, <1>5, <2>1, <2>2 DEF Pinged
<1>12. Kept'
  <2>1. Phase' \notin SubPhases /\ todo' \subseteq todo
    BY <1>2, <1>3 DEF SubPhases
  <2> QED
    BY <1>1, <1>2, <1>5, <2>1, KeptFrame
<1>13. Single'
  BY <1>1, <1>2, <1>3, <1>5, <1>9 DEF Single
<1>14. Owned(own)'
  BY <1>1, <1>3, <1>5, <1>9 DEF Owned, Given
<1>15. ~ restarted' => Known(own)'
  <2>1. \A u \in Tasks : pc'[u] \in {"unsub_lock", "unsub_remove"} =>
            /\ pc[u] \in {"unsub_lock", "unsub_remove"}
            /\ target'[u] = target[u] /\ hand'[u] = hand[u]
    BY <1>3 DEF Holding
  <2>2. \A s \in DOMAIN remapped' : s \in DOMAIN remapped /\ remapped'[s] = remapped[s]
    BY <1>2, EmptyMap
  <2>3. SendsNothing
    BY <1>5 DEF SendsNothing
  <2> QED
    BY <1>1, <1>5, <2>1, <2>2, <2>3, KnownFrame
<1>16. ~ restarted' => Restored'
  <2>1. CASE link = "down"
    BY <1>5, <2>1 DEF Restored
  <2>2. CASE ~ Replaying
    <3>1. cur.stable = 0 /\ Phase # "replay" /\ cur'.stable = 0 /\ Phase' # "replay"
      BY <1>2, <1>3, <2>2 DEF Replaying, NoOne
    <3>2. \A s \in DOMAIN tracked : tracked[s].handle \in Handles /\ s # 0
      BY <1>1 DEF ClientTypes
    <3>3. ~ Replaying'
      BY <3>1 DEF Replaying
    <3>4. ~ restarted /\ link = "up" => (\A s \in DOMAIN tracked : Live(tracked[s].server, tracked[s].handle))'
      BY <1>1, <1>5, <2>2, <3>2 DEF Restored, Live
    <3> QED
      BY <1>2, <1>3, <1>5, <1>9, <3>3, <3>4 DEF Restored
  <2> QED
    BY <2>1, <2>2
<1> QED
  BY <1>6, <1>7, <1>8, <1>10, <1>11, <1>12, <1>13, <1>14, <1>15, <1>16 DEF IInvOf

\* A call that holds the lock gives up.
LEMMA FailsReturning ==
    ASSUME NEW own, IInvOf(own), Release, NEW t \in Tasks, pc[t] \in Holding, Return(t),
           UNCHANGED <<network, server, tasks_of_conn, sub_counter>>, UNCHANGED client,
           UNCHANGED <<sent, late, restarted>>, UNCHANGED subscriptions,
           pending_subs' \subseteq Nat, pending_flush' = {}, FlushConfirms',
           ~ Asking, ~ late => ~ Pinging, link = "down" \/ ~ Replaying
    PROVE  IInvOf(own)'
<1>1. /\ CallTypes /\ HandleTypes /\ RoutedToOwner /\ Hands /\ goal[LoopTask] = "none"
  BY DEF IInvOf, Types, Locked, Owned
<1>2. /\ CallTypes' /\ HandleTypes' /\ made' = made /\ id' = id
      /\ pc'[t] \in {"sleep", "idle"} /\ goal'[t] = "none"
      /\ \A u \in Tasks : u # t =>
             pc'[u] = pc[u] /\ goal'[u] = goal[u] /\ hand'[u] = hand[u] /\ target'[u] = target[u]
      /\ \A h \in Handles : rx'[h] => rx[h]
      /\ RoutedToOwner' /\ Hands'
  BY <1>1, ReturnFacts
<1>3. PICK l \in {"sleep", "idle"} : Goto(t, l)
  BY DEF Return
<1>4. l \notin Holding /\ l # "unsub_lock"
  BY <1>3 DEF Holding, SubPhases, FlushPhases
<1>5. ~ Waiting(t)' /\ goal'[LoopTask] = "none"
  BY <1>1, <1>2 DEF Waiting, Subscribing, Tasks
<1> HIDE DEF Return
<1> QED
  BY <1>2, <1>3, <1>4, <1>5, Releases

\* The SUB cannot be sent.
LEMMA SubFailsKeeps ==
    ASSUME NEW own, IInvOf(own), NEW t \in Tasks, SubFails(t)
    PROVE  IInvOf(own)'
<1>1. Agree /\ Network /\ Pinged /\ ConnTypes
  BY DEF IInvOf, Types, Locked
<1>2. pc[t] = "sub_send" /\ pc[t] \in Holding /\ link = "down"
  BY <1>1 DEF SubFails, Network, Holding, SubPhases
<1>3. Phase = "sub_send"
  BY <1>1, <1>2, PhaseOf
<1>4. /\ Release /\ Return(t) /\ UNCHANGED <<network, server, tasks_of_conn, sub_counter>> /\ UNCHANGED client
      /\ UNCHANGED <<sent, late, restarted>> /\ UNCHANGED subscriptions
      /\ UNCHANGED <<pending_subs, pending_flush, flushed>>
  BY DEF SubFails, conn_state, history
<1>5. pending_subs' \subseteq Nat /\ pending_flush' = {} /\ FlushConfirms'
  BY <1>1, <1>3, <1>4 DEF Pinged, ConnTypes, FlushConfirms
<1>6. ~ Asking /\ ~ Pinging
  BY <1>3 DEF Asking, Pinging
<1> QED
  BY <1>2, <1>4, <1>5, <1>6, FailsReturning

\* The PING cannot be sent, or its PONG has not come in time.
LEMMA FlushFailsKeeps ==
    ASSUME NEW own, IInvOf(own), NEW t \in Tasks, FlushFails(t)
    PROVE  IInvOf(own)'
<1>1. Agree /\ Locked /\ Pinged /\ ConnTypes
  BY DEF IInvOf, Types, Locked
<1>2. pc[t] \in {"flush_send", "flush_expired"} /\ pc[t] \in Holding
  BY DEF FlushFails, Holding, FlushPhases
<1>3. Phase \in {"flush_send", "flush_expired"}
  BY <1>1, <1>2, PhaseOf
<1>4. /\ Release /\ Return(t) /\ UNCHANGED <<network, server, tasks_of_conn, sub_counter>> /\ UNCHANGED client
      /\ UNCHANGED <<sent, late, restarted>> /\ UNCHANGED subscriptions
      /\ UNCHANGED <<pending_subs, flushed>> /\ pending_flush' = pending_flush \ {corr}
  BY DEF FlushFails, history
<1>5. pending_subs' \subseteq Nat /\ pending_flush' = {} /\ FlushConfirms'
  BY <1>1, <1>4 DEF Pinged, ConnTypes, FlushConfirms
<1>6. ~ Asking /\ ~ Pinging
  BY <1>3 DEF Asking, Pinging
<1>7. ~ Replaying
  <2>1. cur = NoOne /\ Phase # "replay"
    BY <1>1, <1>3 DEF Locked, FlushPhases
  <2> QED
    BY <2>1 DEF Replaying, NoOne
<1> QED
  BY <1>2, <1>4, <1>5, <1>6, <1>7, FailsReturning

\* flush returns Ok: unless a flush has timed out, every frame before the PING was handled.
LEMMA FlushOkKeeps ==
    ASSUME NEW own, IInvOf(own), NEW t \in Tasks, FlushOk(t)
    PROVE  IInvOf(own)'
<1>1. Agree /\ Locked /\ Pinged /\ ConnTypes /\ ServerTypes /\ CallTypes
  BY DEF IInvOf, Types, Locked
<1>2. pc[t] = "flush_wait" /\ pc[t] \in Holding /\ got # 0
  BY DEF FlushOk, Holding, FlushPhases
<1>3. Phase = "flush_wait" /\ lock = t
  BY <1>1, <1>2, PhaseOf
<1>4. /\ Release /\ Return(t) /\ UNCHANGED <<network, server, tasks_of_conn, sub_counter>> /\ UNCHANGED client
      /\ UNCHANGED <<sent, late, restarted>> /\ UNCHANGED subscriptions
      /\ UNCHANGED <<pending_subs, pending_flush>>
      /\ flushed' = [served |-> served >= target[t], late |-> late]
  BY DEF FlushOk, conn_state
<1>5. FlushConfirms' /\ pending_flush' = {} /\ pending_subs' \subseteq Nat
  <2>1. ~ late => target[t] <= served
    BY <1>1, <1>2, <1>3 DEF Pinged
  <2>2. target[t] <= served => served >= target[t]
    BY <1>1 DEF ServerTypes, CallTypes
  <2>3. FlushConfirms'
    BY <1>4, <2>1, <2>2 DEF FlushConfirms
  <2> QED
    BY <1>1, <1>2, <1>4, <2>3 DEF Pinged, ConnTypes
<1>6. ~ Asking /\ ~ Pinging
  BY <1>2, <1>3 DEF Asking, Pinging
<1>7. ~ Replaying
  <2>1. cur = NoOne /\ Phase # "replay"
    BY <1>1, <1>3 DEF Locked, FlushPhases
  <2> QED
    BY <2>1 DEF Replaying, NoOne
<1> QED
  BY <1>2, <1>4, <1>5, <1>6, <1>7, FailsReturning

\* The server cannot be reached: another attempt, or the call gives up.
LEMMA ConnectFailsKeeps ==
    ASSUME NEW own, IInvOf(own), NEW t \in Tasks, ConnectFails(t)
    PROVE  IInvOf(own)'
<1>1. /\ Agree /\ Locked /\ Network /\ Pinged /\ ConnTypes /\ CallTypes /\ HandleTypes /\ Hands
      /\ RoutedToOwner /\ goal[LoopTask] = "none"
  BY DEF IInvOf, Types, Locked, Owned
<1>2. pc[t] = "connecting" /\ pc[t] \in Holding
  BY DEF ConnectFails, Holding
<1>3. Phase = "connecting" /\ link = "down"
  BY <1>1, <1>2, PhaseOf DEF Network
<1>4. /\ Release /\ UNCHANGED <<network, server, tasks_of_conn, sub_counter>> /\ UNCHANGED client
      /\ UNCHANGED <<sent, late, restarted>> /\ UNCHANGED subscriptions
      /\ UNCHANGED <<pending_subs, pending_flush, flushed>>
  BY DEF ConnectFails, conn_state, history
<1>5. pending_subs' \subseteq Nat /\ pending_flush' = {} /\ FlushConfirms'
  BY <1>1, <1>3, <1>4 DEF Pinged, ConnTypes, FlushConfirms
<1>6. ~ Asking /\ ~ Pinging
  BY <1>3 DEF Asking, Pinging
<1>7. CASE attempts[t] + 1 < MaxAttempts
  <2>1. /\ attempts' = [attempts EXCEPT ![t] = attempts[t] + 1] /\ Goto(t, "attempt")
        /\ UNCHANGED <<goal, hand, target>> /\ UNCHANGED <<made, id, rx, buffer>>
    BY <1>7 DEF ConnectFails, handles
  <2>2. pc' \in [Tasks -> PC]
    BY <1>1, <2>1, ExceptAt DEF CallTypes, Goto, PC
  <2>3. attempts[t] + 1 \in 0..MaxAttempts
    BY <1>1, <1>7, ClientAssumption, SMT DEF CallTypes
  <2>4. attempts' \in [Tasks -> 0..MaxAttempts]
    BY <1>1, <2>1, <2>3, ExceptAt DEF CallTypes
  <2>5. CallTypes' /\ HandleTypes' /\ RoutedToOwner'
    BY <1>1, <2>1, <2>2, <2>4 DEF CallTypes, HandleTypes, RoutedToOwner
  <2>6. pc'[t] = "attempt" /\ \A u \in Tasks : u # t => pc'[u] = pc[u]
    BY <1>1, <2>1, ExceptAt DEF CallTypes, Goto, PC
  <2>7. Hands' /\ (Waiting(t)' => Waiting(t))
    BY <1>1, <1>2, <2>1, <2>6 DEF Hands, Waiting, SubPhases
  <2>8. "attempt" \notin Holding /\ "attempt" # "unsub_lock"
    BY DEF Holding, SubPhases, FlushPhases
  <2>9. /\ goal'[LoopTask] = "none" /\ \A h \in Handles : rx'[h] => rx[h]
        /\ \A u \in Tasks : u # t => goal'[u] = goal[u] /\ target'[u] = target[u] /\ hand'[u] = hand[u]
    BY <1>1, <2>1
  <2> QED
    BY <1>2, <1>3, <1>4, <1>5, <1>6, <2>1, <2>5, <2>7, <2>8, <2>9, Releases
<1>8. CASE ~ (attempts[t] + 1 < MaxAttempts)
  <2>1. Return(t)
    BY <1>8 DEF ConnectFails
  <2> QED
    BY <1>2, <1>3, <1>4, <1>5, <1>6, <2>1, FailsReturning
<1> QED
  BY <1>7, <1>8

-----------------------------------------------------------------------------
(* Asking for a subscription, and flush *)

\* The holder goes on to where it waits, or gives up waiting; nothing is sent.
LEMMA HolderMoves ==
    ASSUME NEW own, IInvOf(own), NEW t \in Tasks, NEW l,
           \/ pc[t] = "sub_pending" /\ l = "sub_send"
           \/ pc[t] = "flush_pending" /\ l = "flush_send"
           \/ pc[t] = "flush_wait" /\ got = 0 /\ l = "flush_expired",
           Goto(t, l), UNCHANGED <<network, server, tasks_of_conn, sub_counter>>, UNCHANGED holder,
           UNCHANGED client, UNCHANGED <<goal, hand, target, attempts>>, UNCHANGED handles,
           UNCHANGED <<sent, flushed, restarted>>, late' \in BOOLEAN, UNCHANGED subscriptions,
           pending_subs' \subseteq Nat, pending_flush' \subseteq Nat, Pinged'
    PROVE  IInvOf(own)'
<1>1. /\ NetTypes /\ ServerTypes /\ ConnTypes /\ HolderTypes /\ ClientTypes /\ CallTypes /\ HandleTypes
      /\ HistoryTypes /\ Locked /\ Agree /\ Room /\ Network /\ Hands /\ Asked /\ Kept /\ Single
      /\ Owned(own) /\ (~ restarted => Known(own) /\ Restored) /\ goal[LoopTask] = "none" /\ RoutedToOwner
  BY DEF IInvOf, Types, Locked, Owned
<1>2. pc[t] \in Holding /\ l \in Holding /\ l \in PC
  BY DEF Holding, SubPhases, FlushPhases, PC
<1>3. /\ UNCHANGED <<link, to_server, to_client>> /\ UNCHANGED <<server_subs, next_id, served>>
      /\ UNCHANGED <<connected, write_tx, writer, reader, held>> /\ UNCHANGED <<tracked, closed>>
      /\ UNCHANGED <<lock, corr, got, cur, todo, remapped>> /\ UNCHANGED <<made, id, rx, buffer>>
      /\ SendsNothing
  BY DEF network, server, tasks_of_conn, client, holder, handles, SendsNothing
<1>4. Agree' /\ Phase' = l /\ pc'[t] = l /\ \A u \in Tasks : u # t => pc'[u] = pc[u]
  BY <1>1, <1>2, <1>3, PhaseMoves
<1>5. lock = t /\ Phase = pc[t]
  BY <1>1, <1>2, PhaseOf
<1>6. Types'
  <2>1. pc' \in [Tasks -> PC]
    BY <1>1, <1>2, ExceptAt DEF CallTypes, Goto
  <2>2. CallTypes' /\ HandleTypes'
    BY <1>1, <1>3, <2>1 DEF CallTypes, HandleTypes
  <2>3. NetTypes' /\ ServerTypes'
    BY <1>1, <1>3 DEF NetTypes, ServerTypes
  <2>4. ConnTypes'
    BY <1>1, <1>3 DEF ConnTypes
  <2>5. ClientTypes' /\ HistoryTypes' /\ HolderTypes'
    BY <1>1, <1>3 DEF ClientTypes, HistoryTypes, HolderTypes
  <2> QED
    BY <2>2, <2>3, <2>4, <2>5 DEF Types
<1>7. Locked'
  <2>1. goal'[LoopTask] = "none"
    BY <1>1
  <2>2. got # 0 => Phase' \in {"sub_wait", "flush_send", "flush_wait", "flush_expired"}
    BY <1>1, <1>4, <1>5 DEF Locked
  <2>3. CASE l = "sub_send"
    <3>1. Phase \in SubPhases /\ Phase' = "sub_send"
      BY <1>4, <1>5, <2>3 DEF SubPhases
    <3> QED
      BY <1>1, <1>3, <1>4, <2>1, <2>2, <3>1 DEF Locked, FlushPhases
  <2>4. CASE l # "sub_send"
    <3>1. Phase \in FlushPhases /\ Phase' \in FlushPhases
      BY <1>4, <1>5, <2>4 DEF FlushPhases
    <3> QED
      BY <1>1, <1>3, <1>4, <2>1, <2>2, <3>1 DEF Locked, FlushPhases, SubPhases
  <2> QED
    BY <2>3, <2>4
<1>8. Room'
  <2>1. Waiting(t)' => Waiting(t)
    BY <1>3, <1>4 DEF Waiting, SubPhases
  <2>2. made \in Nat
    BY <1>1, SMT DEF HandleTypes
  <2> QED
    BY <1>1, <1>3, <1>4, <1>5, <2>1, <2>2, RoomHolder
<1>9. Network'
  BY <1>1, <1>3, <1>4, NetworkFrame
<1>10. Hands'
  BY <1>1, <1>3, <1>4 DEF Hands
<1>11. ~ Asking /\ Phase' # "sub_wait" /\ Phase # "replay" /\ Phase' # "replay"
  BY <1>4, <1>5 DEF Asking
<1>12. Asked'
  BY <1>1, <1>3, <1>11, AskedFrame
<1>13. Kept'
  <2>1. Phase' \in SubPhases => Phase \in SubPhases
    BY <1>4, <1>5 DEF SubPhases
  <2> QED
    BY <1>1, <1>3, <2>1, KeptFrame
<1>14. Single'
  <2>1. Phase' \in {"sub_pending", "sub_send"} => \A i \in DOMAIN server_subs : server_subs[i] # cur'.handle
    BY <1>1, <1>3, <1>4, <1>5 DEF Single
  <2> QED
    BY <1>1, <1>3, <1>11, <2>1, SingleFrame
<1>15. Owned(own)'
  <2>1. RoutedToOwner'
    BY <1>1, <1>3 DEF RoutedToOwner
  <2> QED
    BY <1>1, <1>3, <1>11, <2>1, OwnedFrame
<1>16. ~ restarted' => Known(own)'
  <2>1. \A u \in Tasks : pc'[u] \in {"unsub_lock", "unsub_remove"} =>
            /\ pc[u] \in {"unsub_lock", "unsub_remove"}
            /\ target'[u] = target[u] /\ hand'[u] = hand[u]
    BY <1>4
  <2> QED
    BY <1>1, <1>3, <2>1, KnownFrame
<1>17. ~ restarted' => Restored'
  BY <1>1, <1>3, <1>11, RestoredFrame
<1> QED
  BY <1>6, <1>7, <1>8, <1>9, <1>10, <1>12, <1>13, <1>14, <1>15, <1>16, <1>17 DEF IInvOf

\* subscribe_send enters its number among those that wait.
LEMMA SubPendingKeeps ==
    ASSUME NEW own, IInvOf(own), NEW t \in Tasks, SubPending(t)
    PROVE  IInvOf(own)'
<1>1. /\ NetTypes /\ ServerTypes /\ ConnTypes /\ HolderTypes /\ HistoryTypes /\ CallTypes /\ Agree /\ Pinged
  BY DEF IInvOf, Types, Locked
<1>2. /\ pc[t] = "sub_pending" /\ Goto(t, "sub_send") /\ UNCHANGED <<network, server, tasks_of_conn, sub_counter>>
      /\ UNCHANGED holder /\ UNCHANGED client /\ UNCHANGED <<goal, hand, target, attempts>> /\ UNCHANGED handles
      /\ UNCHANGED <<sent, flushed, restarted>> /\ UNCHANGED subscriptions
      /\ pending_subs' = pending_subs \cup {corr} /\ UNCHANGED <<pending_flush, late>>
  BY DEF SubPending, history
<1>3. pending_subs' \subseteq Nat /\ pending_flush' \subseteq Nat /\ late' \in BOOLEAN
  BY <1>1, <1>2 DEF ConnTypes, HolderTypes, HistoryTypes
<1>4. "sub_pending" \in Holding /\ "sub_send" \in Holding
  BY DEF Holding, SubPhases
<1>5. lock = t /\ Phase = "sub_pending"
  BY <1>1, <1>2, <1>4, PhaseOf
<1>6. UNCHANGED <<lock, corr, got, to_server, to_client, link, served>> /\ SendsNothing
  BY <1>2 DEF holder, network, server, SendsNothing
<1>7. Phase' = "sub_send"
  BY <1>1, <1>2, <1>4, <1>6, PhaseMoves
<1>8. /\ pending_flush' = {} /\ ~ Pinging /\ FlushConfirms'
  BY <1>1, <1>2, <1>5 DEF Pinged, Pinging, FlushConfirms
<1>9. Pinged'
  BY <1>1, <1>2, <1>6, <1>7, <1>8, PingedFrame
<1> QED
  BY <1>2, <1>3, <1>9, HolderMoves

\* flush does the same.
LEMMA FlushPendingKeeps ==
    ASSUME NEW own, IInvOf(own), NEW t \in Tasks, FlushPending(t)
    PROVE  IInvOf(own)'
<1>1. /\ NetTypes /\ ServerTypes /\ ConnTypes /\ HolderTypes /\ HistoryTypes /\ CallTypes /\ Agree /\ Pinged /\ Locked
  BY DEF IInvOf, Types, Locked
<1>2. /\ pc[t] = "flush_pending" /\ Goto(t, "flush_send") /\ UNCHANGED <<network, server, tasks_of_conn, sub_counter>>
      /\ UNCHANGED holder /\ UNCHANGED client /\ UNCHANGED <<goal, hand, target, attempts>> /\ UNCHANGED handles
      /\ UNCHANGED <<sent, flushed, restarted>> /\ UNCHANGED subscriptions
      /\ pending_flush' = pending_flush \cup {corr} /\ UNCHANGED <<pending_subs, late>>
  BY DEF FlushPending, history
<1>3. pending_subs' \subseteq Nat /\ pending_flush' \subseteq Nat /\ late' \in BOOLEAN
  BY <1>1, <1>2 DEF ConnTypes, HolderTypes, HistoryTypes
<1>4. "flush_pending" \in Holding /\ "flush_send" \in Holding
  BY DEF Holding, FlushPhases
<1>5. lock = t /\ Phase = "flush_pending"
  BY <1>1, <1>2, <1>4, PhaseOf
<1>6. UNCHANGED <<lock, corr, got, to_server, to_client, link, served>> /\ SendsNothing
  BY <1>2 DEF holder, network, server, SendsNothing
<1>7. Phase' = "flush_send"
  BY <1>1, <1>2, <1>4, <1>6, PhaseMoves
<1>8. /\ pending_flush' \subseteq {corr'} /\ ~ Pinging /\ FlushConfirms' /\ got = 0
  BY <1>1, <1>2, <1>5, <1>6 DEF Pinged, Pinging, FlushConfirms, Locked
<1>9. Pinged'
  BY <1>1, <1>2, <1>6, <1>7, <1>8, PingedFrame
<1> QED
  BY <1>2, <1>3, <1>9, HolderMoves

\* The PONG has not come in time.
LEMMA FlushTimeoutKeeps ==
    ASSUME NEW own, IInvOf(own), NEW t \in Tasks, FlushTimeout(t)
    PROVE  IInvOf(own)'
<1>1. /\ ConnTypes /\ CallTypes /\ Agree /\ Pinged
  BY DEF IInvOf, Types, Locked
<1>2. /\ pc[t] = "flush_wait" /\ got = 0 /\ Goto(t, "flush_expired")
      /\ UNCHANGED <<network, server, tasks_of_conn, sub_counter>>
      /\ UNCHANGED holder /\ UNCHANGED client /\ UNCHANGED <<goal, hand, target, attempts>> /\ UNCHANGED handles
      /\ UNCHANGED <<sent, flushed, restarted>> /\ UNCHANGED subscriptions
      /\ UNCHANGED <<pending_subs, pending_flush>> /\ late' = TRUE
  BY DEF FlushTimeout, conn_state
<1>3. pending_subs' \subseteq Nat /\ pending_flush' \subseteq Nat /\ late' \in BOOLEAN
  BY <1>1, <1>2 DEF ConnTypes
<1>4. "flush_wait" \in Holding /\ "flush_expired" \in Holding
  BY DEF Holding, FlushPhases
<1>5. UNCHANGED <<lock, corr, got, to_server, link, served>>
  BY <1>2 DEF holder, network, server
<1>6. Phase' = "flush_expired"
  BY <1>1, <1>2, <1>4, <1>5, PhaseMoves
<1>7. FlushConfirms'
  BY <1>1, <1>2 DEF Pinged, FlushConfirms
<1>8. /\ pending_flush' \subseteq {corr'} /\ (link' = "up" => served' + Len(to_server') = sent')
  BY <1>1, <1>2, <1>5 DEF Pinged
<1>9. Pinged'
  BY <1>2, <1>5, <1>6, <1>7, <1>8 DEF Pinged
<1> QED
  BY <1>2, <1>3, <1>9, HolderMoves

\* The holder goes on, or a task takes the lock.
LEMMA Advance ==
    ASSUME CallTypes, Agree, NEW t \in Tasks, NEW l \in Holding, lock = None \/ pc[t] \in Holding,
           Goto(t, l), lock' = t
    PROVE  /\ Agree' /\ Phase' = l /\ pc'[t] = l /\ \A u \in Tasks : u # t => pc'[u] = pc[u]
           /\ lock = None => Phase = "free"
           /\ pc[t] \in Holding => lock = t /\ Phase = pc[t]
           /\ lock = t \/ lock = None
<1>1. CASE lock = None
  <2>1. pc[t] \notin Holding
    BY <1>1, ClientAssumption DEF Agree, Tasks
  <2> QED
    BY <1>1, <2>1, PhaseBegins
<1>2. CASE pc[t] \in Holding
  <2>1. lock = t /\ Phase = pc[t]
    BY <1>2, PhaseOf
  <2>2. lock # None
    BY <2>1, ClientAssumption DEF Tasks
  <2> QED
    BY <1>2, <2>1, <2>2, PhaseMoves
<1> QED
  BY <1>1, <1>2

\* What such a step leaves alone when it sends at most a frame and nobody is asking.
LEMMA HolderSteps ==
    ASSUME NEW own, IInvOf(own), NEW t \in Tasks, NEW l \in Holding, lock = None \/ pc[t] \in Holding,
           Goto(t, l), lock' = t, l # "connecting", l = "unsub_remove" => pc[t] = "unsub_lock",
           UNCHANGED <<link, to_client>>, UNCHANGED server, UNCHANGED tasks_of_conn, UNCHANGED conn_state,
           UNCHANGED client, UNCHANGED <<goal, hand, attempts>>, UNCHANGED <<id, rx, buffer>>,
           UNCHANGED <<late, flushed, restarted>>, SendsNothing \/ \E x \in Frame : Sends(x),
           HolderTypes', sub_counter' \in Nat, target' \in [Tasks -> Nat], made' \in 0..MaxHandles,
           ~ Asking, got' = 0,
           Locked', Room', Asked', Pinged', Kept', Single', ~ restarted => Known(own)' /\ Restored'
    PROVE  IInvOf(own)'
<1>1. /\ NetTypes /\ ServerTypes /\ ConnTypes /\ ClientTypes /\ CallTypes /\ HandleTypes
      /\ HistoryTypes /\ Agree /\ Network /\ Hands /\ Asked /\ Owned(own) /\ RoutedToOwner
  BY DEF IInvOf, Types, Locked, Owned
<1>2. /\ UNCHANGED <<server_subs, next_id, served>>
      /\ UNCHANGED <<connected, write_tx, writer, reader, held>> /\ UNCHANGED <<tracked, closed>>
      /\ UNCHANGED <<pending_subs, pending_flush, subscriptions>>
  BY DEF server, tasks_of_conn, client, conn_state
<1>3. Phase' = l /\ pc'[t] = l /\ \A u \in Tasks : u # t => pc'[u] = pc[u]
  BY <1>1, Advance
<1>4. Types'
  <2>1. pc' \in [Tasks -> PC]
    <3>1. l \in PC
      BY DEF PC, Holding, SubPhases, FlushPhases
    <3> QED
      BY <1>1, <3>1, ExceptAt DEF CallTypes, Goto
  <2>2. CallTypes' /\ HandleTypes'
    BY <1>1, <1>2, <2>1 DEF CallTypes, HandleTypes
  <2>3. NetTypes' /\ HistoryTypes'
    <3>1. CASE SendsNothing
      BY <1>1, <3>1 DEF SendsNothing, NetTypes, HistoryTypes
    <3>2. ASSUME NEW x \in Frame, Sends(x) PROVE NetTypes' /\ HistoryTypes'
      <4>1. to_server' \in Seq(Frame) /\ sent' \in Nat
        BY <1>1, <3>2, AppendAt, SMT DEF Sends, NetTypes, HistoryTypes
      <4> QED
        BY <1>1, <4>1 DEF NetTypes, HistoryTypes
    <3> QED
      BY <3>1, <3>2
  <2>4. ServerTypes' /\ ClientTypes'
    BY <1>1, <1>2 DEF ServerTypes, ClientTypes
  <2>5. ConnTypes'
    BY <1>1, <1>2 DEF ConnTypes
  <2> QED
    BY <2>2, <2>3, <2>4, <2>5 DEF Types
<1>5. Network'
  BY <1>1, <1>2, <1>3, NetworkFrame
<1>6. Hands'
  <2>1. pc'[t] \in {"unsub", "unsub_lock", "unsub_remove", "reply_wait"} =>
            pc[t] \in {"unsub", "unsub_lock", "unsub_remove", "reply_wait"}
    BY <1>3 DEF Holding, SubPhases, FlushPhases
  <2> QED
    BY <1>1, <1>3, <2>1 DEF Hands
<1>7. Owned(own)'
  <2>1. RoutedToOwner'
    BY <1>1 DEF RoutedToOwner
  <2> QED
    BY <1>1, <1>2, <2>1, OwnedFrame
<1> QED
  BY <1>4, <1>5, <1>6, <1>7, ZenonT(40) DEF IInvOf

\* What is known while nobody holds the lock.
LEMMA FreeFacts ==
    ASSUME NEW own, IInvOf(own), lock = None
    PROVE  /\ Phase = "free" /\ cur = NoOne /\ todo = {} /\ remapped = Empty /\ got = 0 /\ pending_flush = {}
           /\ ~ Asking /\ ~ Pinging /\ cur.stable = 0
<1>1. Phase = "free"
  BY DEF Phase
<1>2. cur = NoOne /\ todo = {} /\ remapped = Empty /\ got = 0 /\ pending_flush = {}
  BY <1>1 DEF IInvOf, Locked, Pinged
<1> QED
  BY <1>1, <1>2 DEF Asking, Pinging, NoOne

\* Only an application's task has a goal.
LEMMA GoalOfApp ==
    ASSUME goal[LoopTask] = "none", NEW t \in Tasks, goal[t] # "none"
    PROVE  t \in Apps
BY DEF Tasks

\* flush takes the lock.
LEMMA BeginFlushKeeps ==
    ASSUME NEW own, IInvOf(own), NEW t \in Tasks, BeginFlush(t)
    PROVE  IInvOf(own)'
<1>1. /\ NetTypes /\ ServerTypes /\ ConnTypes /\ HolderTypes /\ ClientTypes /\ CallTypes /\ HandleTypes
      /\ HistoryTypes /\ Locked /\ Agree /\ Room /\ Asked /\ Pinged /\ Kept /\ Single
      /\ (~ restarted => Known(own) /\ Restored) /\ goal[LoopTask] = "none"
  BY DEF IInvOf, Types, Locked
<1>2. /\ lock = None /\ lock' = t /\ Goto(t, "flush_pending") /\ corr' = sub_counter /\ sub_counter' = sub_counter + 1
      /\ UNCHANGED <<link, to_server, to_client>> /\ UNCHANGED server /\ UNCHANGED tasks_of_conn
      /\ UNCHANGED conn_state /\ UNCHANGED <<got, cur, todo, remapped>> /\ UNCHANGED client
      /\ UNCHANGED <<goal, hand, target, attempts>> /\ UNCHANGED <<made, id, rx, buffer>>
      /\ UNCHANGED <<sent, late, flushed, restarted>> /\ SendsNothing /\ goal[t] = "flush" /\ pc[t] = "begin"
  BY DEF BeginFlush, network, history, handles, SendsNothing
<1>3. /\ UNCHANGED <<server_subs, next_id, served>> /\ UNCHANGED tracked
      /\ UNCHANGED <<pending_subs, pending_flush, subscriptions>>
  BY <1>2 DEF server, client, conn_state
<1>4. "flush_pending" \in Holding /\ "flush_pending" \in FlushPhases /\ "flush_pending" \notin SubPhases
  BY DEF Holding, FlushPhases, SubPhases
<1>5. /\ Agree' /\ Phase' = "flush_pending" /\ pc'[t] = "flush_pending"
      /\ \A u \in Tasks : u # t => pc'[u] = pc[u]
  BY <1>1, <1>2, <1>4, Advance
<1>6. /\ Phase = "free" /\ cur = NoOne /\ todo = {} /\ remapped = Empty /\ got = 0 /\ pending_flush = {}
      /\ ~ Asking /\ ~ Pinging
  BY <1>2, FreeFacts
<1>7. sub_counter \in Nat /\ sub_counter' \in Nat /\ made \in Nat
  BY <1>1, <1>2, SMT DEF ConnTypes, HandleTypes
<1>8. HolderTypes'
  BY <1>1, <1>2, <1>7 DEF HolderTypes
<1>9. Locked'
  BY <1>1, <1>2, <1>4, <1>5, <1>6 DEF Locked
<1>10. Room'
  <2>1. ~ Waiting(t)'
    BY <1>2 DEF Waiting, Subscribing
  <2> QED
    BY <1>1, <1>2, <1>5, <1>7, <2>1, RoomHolder
<1>11. Asked'
  BY <1>1, <1>2, <1>6, AskedFrame
<1>12. Pinged'
  <2>1. FlushConfirms' /\ pending_flush' = {}
    BY <1>1, <1>2, <1>3, <1>6 DEF Pinged, FlushConfirms
  <2> QED
    BY <1>1, <1>2, <1>3, <1>5, <1>6, <2>1, PingedFrame
<1>13. Kept'
  BY <1>1, <1>2, <1>3, <1>4, <1>5, KeptFrame
<1>14. Single'
  BY <1>1, <1>2, <1>3, <1>5, <1>6, SingleFrame
<1>15. ~ restarted => Known(own)' /\ Restored'
  <2>1. ~ restarted => Known(own)'
    BY <1>1, <1>2, <1>3, <1>5, KnownFrame
  <2>2. ~ restarted => Restored'
    BY <1>1, <1>2, <1>3, <1>5, <1>6, RestoredFrame
  <2> QED
    BY <2>1, <2>2
<1>16. target' \in [Tasks -> Nat] /\ made' \in 0..MaxHandles /\ got' = 0
  BY <1>1, <1>2, <1>6 DEF CallTypes, HandleTypes
<1> QED
  BY <1>2, <1>4, <1>6, <1>7, <1>8, <1>9, <1>10, <1>11, <1>12, <1>13, <1>14, <1>15, <1>16,
     HolderSteps

\* subscribe takes the lock and numbers its subscription, which nobody has asked for yet.
LEMMA BeginSubscribeKeeps ==
    ASSUME NEW own, IInvOf(own), NEW t \in Tasks, BeginSubscribe(t)
    PROVE  IInvOf(own)'
<1>1. /\ NetTypes /\ ServerTypes /\ ConnTypes /\ HolderTypes /\ ClientTypes /\ CallTypes /\ HandleTypes
      /\ HistoryTypes /\ Locked /\ Agree /\ Room /\ Asked /\ Pinged /\ Kept /\ Single
      /\ (~ restarted => Known(own) /\ Restored) /\ goal[LoopTask] = "none"
  BY DEF IInvOf, Types, Locked
<1>2. /\ lock = None /\ lock' = t /\ Goto(t, "sub_pending") /\ corr' = sub_counter /\ sub_counter' = sub_counter + 1
      /\ UNCHANGED <<link, to_server, to_client>> /\ UNCHANGED server /\ UNCHANGED tasks_of_conn
      /\ UNCHANGED conn_state /\ UNCHANGED <<got, todo, remapped>> /\ UNCHANGED client
      /\ UNCHANGED <<goal, hand, target, attempts>> /\ UNCHANGED <<id, rx, buffer>>
      /\ made' = made + 1 /\ cur' = [stable |-> 0, handle |-> made + 1]
      /\ UNCHANGED <<sent, late, flushed, restarted>> /\ SendsNothing
      /\ goal[t] \in Subscribing /\ pc[t] = "begin"
  BY DEF BeginSubscribe, network, history, SendsNothing
<1>3. /\ UNCHANGED <<server_subs, next_id, served>> /\ UNCHANGED tracked
      /\ UNCHANGED <<pending_subs, pending_flush, subscriptions>>
  BY <1>2 DEF server, client, conn_state
<1>4. "sub_pending" \in Holding /\ "sub_pending" \in SubPhases
  BY DEF Holding, SubPhases
<1>5. /\ Agree' /\ Phase' = "sub_pending" /\ pc'[t] = "sub_pending"
      /\ \A u \in Tasks : u # t => pc'[u] = pc[u]
  BY <1>1, <1>2, <1>4, Advance
<1>6. /\ Phase = "free" /\ cur = NoOne /\ todo = {} /\ remapped = Empty /\ got = 0 /\ pending_flush = {}
      /\ ~ Asking /\ ~ Pinging /\ cur.stable = 0
  BY <1>2, FreeFacts
<1>7. /\ sub_counter \in Nat /\ sub_counter' \in Nat /\ made \in Nat /\ MaxHandles \in Nat
      /\ cur'.stable = 0 /\ cur'.handle = made + 1 /\ cur' \in [stable : {0}, handle : {made + 1}]
  BY <1>1, <1>2, ClientAssumption, SMT DEF ConnTypes, HandleTypes
<1>8. Room' /\ made + 1 <= MaxHandles
  <2> DEFINE W == {u \in Apps : Waiting(u)}
  <2> DEFINE V == {u \in Apps : Waiting(u)'}
  <2>1. t \in Apps
    <3>1. goal[t] # "none"
      BY <1>2 DEF Subscribing
    <3> QED
      BY <1>1, <3>1, GoalOfApp
  <2>2. \A u \in Apps : u \in Tasks /\ pc[u] \notin SubPhases
    <3>1. \A u \in Apps : u \in Tasks /\ u # None
      BY ClientAssumption DEF Tasks
    <3> QED
      BY <1>1, <1>2, <3>1 DEF Agree, Holding
  <2>3. t \in W
    BY <1>2, <2>1, <2>2 DEF Waiting
  <2>4. V \subseteq W \ {t}
    <3>1. ~ Waiting(t)'
      BY <1>4, <1>5, <1>7 DEF Waiting
    <3>2. \A u \in Apps : Waiting(u)' => Waiting(u)
      BY <1>2, <2>2 DEF Waiting
    <3> QED
      BY <3>1, <3>2
  <2>5. W \in SUBSET Apps /\ W \ {t} \in SUBSET Apps /\ t \in Apps \ (W \ {t}) /\ (W \ {t}) \cup {t} = W
    BY <2>1, <2>3
  <2>6. made + Cardinality(W) <= MaxHandles /\ Counted
    BY <1>1 DEF Room
  <2> HIDE DEF W, V
  <2>7. Cardinality(W) = Cardinality(W \ {t}) + 1 /\ Cardinality(W \ {t}) \in Nat
    BY <2>5, <2>6 DEF Counted
  <2>8. Cardinality(V) <= Cardinality(W \ {t}) /\ Cardinality(V) \in Nat
    <3>1. V \in SUBSET (W \ {t}) /\ V \in SUBSET Apps
      BY <2>4, <2>5
    <3> QED
      BY <2>5, <2>6, <3>1 DEF Counted
  <2>9. made + 1 + Cardinality(V) <= MaxHandles /\ made + 1 <= MaxHandles
    BY <1>7, <2>6, <2>7, <2>8, SMT
  <2>10. made' + Cardinality(V) <= MaxHandles
    BY <1>2, <2>9
  <2> QED
    BY <2>6, <2>9, <2>10 DEF Room, V
<1>9. made + 1 \in Handles /\ made' \in 0..MaxHandles /\ made + 1 # 0 /\ made + 1 > made
  BY <1>2, <1>7, <1>8, SMT DEF Handles
<1>10. HolderTypes'
  <2>1. cur' \in [stable : Nat, handle : Handles \cup {0}]
    BY <1>2, <1>9
  <2> QED
    BY <1>1, <1>2, <1>7, <2>1 DEF HolderTypes
<1>11. Locked'
  <2>1. Phase' \notin {"free", "connecting", "unsub_remove"} \cup FlushPhases
    BY <1>5 DEF FlushPhases
  <2> QED
    BY <1>1, <1>2, <1>4, <1>5, <1>6, <1>7, <1>9, <2>1 DEF Locked
<1>12. Asked'
  BY <1>1, <1>2, <1>6, AskedFrame
<1>13. Pinged'
  <2>1. FlushConfirms' /\ pending_flush' = {}
    BY <1>1, <1>2, <1>3, <1>6 DEF Pinged, FlushConfirms
  <2> QED
    BY <1>1, <1>2, <1>3, <1>5, <1>6, <2>1, PingedFrame
<1>14. Kept'
  <2>1. (\A h \in Handles : h > made => id[h] = 0)'
    <3>1. \A h \in Handles : h > made + 1 => h > made
      BY <1>7, SMT DEF Handles
    <3> QED
      BY <1>1, <1>2, <3>1 DEF Kept
  <2>2. id[made + 1] = 0
    BY <1>1, <1>9 DEF Kept
  <2>3. t # LoopTask
    BY <1>1, <1>2 DEF Subscribing
  <2> QED
    BY <1>1, <1>2, <1>3, <1>6, <1>7, <2>1, <2>2, <2>3 DEF Kept
<1>15. Single'
  <2>1. \A i \in DOMAIN server_subs : server_subs[i] <= made + 1 /\ server_subs[i] # made + 1
    BY <1>1, <1>7, SMT DEF Single, ServerTypes, Handles
  <2>2. \A j \in DOMAIN to_server : to_server[j].type # "SUB"
    BY <1>1, <1>6 DEF Asked
  <2>3. \A i, j \in DOMAIN server_subs : server_subs[i] = server_subs[j] => i = j
    BY <1>1 DEF Single
  <2> QED
    BY <1>2, <1>3, <1>6, <1>7, <2>1, <2>2, <2>3 DEF Single
<1>16. ~ restarted => Known(own)' /\ Restored'
  <2>1. ~ restarted => Known(own)'
    BY <1>1, <1>2, <1>3, <1>5, KnownFrame
  <2>2. ~ restarted => Restored'
    BY <1>1, <1>2, <1>3, <1>5, <1>6, <1>7, RestoredFrame
  <2> QED
    BY <2>1, <2>2
<1>17. target' \in [Tasks -> Nat] /\ got' = 0
  BY <1>1, <1>2, <1>6 DEF CallTypes
<1> QED
  BY <1>2, <1>4, <1>6, <1>7, <1>8, <1>9, <1>10, <1>11, <1>12, <1>13, <1>14, <1>15, <1>16, <1>17,
     HolderSteps

\* The SUB is sent: the first and only one.
LEMMA SubSendKeeps ==
    ASSUME NEW own, IInvOf(own), NEW t \in Tasks, SubSend(t)
    PROVE  IInvOf(own)'
<1>1. /\ NetTypes /\ ServerTypes /\ ConnTypes /\ HolderTypes /\ ClientTypes /\ CallTypes /\ HandleTypes
      /\ HistoryTypes /\ Locked /\ Agree /\ Room /\ Asked /\ Pinged /\ Kept /\ Single
      /\ (~ restarted => Known(own) /\ Restored) /\ goal[LoopTask] = "none"
  BY DEF IInvOf, Types, Locked
<1> DEFINE x == [type |-> "SUB", corr |-> corr, handle |-> cur.handle]
<1>2. /\ pc[t] = "sub_send" /\ Goto(t, "sub_wait") /\ Sends(x)
      /\ UNCHANGED <<link, to_client>> /\ UNCHANGED server /\ UNCHANGED tasks_of_conn
      /\ UNCHANGED conn_state /\ UNCHANGED <<lock, corr, got, cur, todo, remapped>> /\ UNCHANGED client
      /\ UNCHANGED <<goal, hand, target, attempts>> /\ UNCHANGED <<made, id, rx, buffer>>
      /\ UNCHANGED <<late, flushed, restarted>> /\ UNCHANGED sub_counter
  BY DEF SubSend, holder, handles, Sends, Enqueue
<1>3. /\ UNCHANGED <<server_subs, next_id, served>> /\ UNCHANGED tracked
      /\ UNCHANGED <<pending_subs, pending_flush, subscriptions>>
  BY <1>2 DEF server, client, conn_state
<1>4. {"sub_send", "sub_wait"} \subseteq Holding \cap SubPhases
  BY DEF Holding, SubPhases
<1>5. lock = t /\ Phase = "sub_send" /\ lock' = t
  BY <1>1, <1>2, <1>4, PhaseOf
<1>6. /\ Agree' /\ Phase' = "sub_wait" /\ pc'[t] = "sub_wait"
      /\ \A u \in Tasks : u # t => pc'[u] = pc[u]
  BY <1>1, <1>2, <1>4, <1>5, Advance
<1>7. ~ Asking /\ ~ Pinging /\ got = 0 /\ got' = 0 /\ Asking' /\ pending_flush = {}
  BY <1>1, <1>2, <1>5, <1>6 DEF Asking, Pinging, Locked, Pinged
<1>8. x \in Frame /\ x.type = "SUB" /\ x.handle = cur.handle
  <2>1. cur.handle # 0 /\ cur.handle \in Handles \cup {0} /\ corr \in Nat
    BY <1>1, <1>4, <1>5 DEF HolderTypes, Locked
  <2> QED
    BY <2>1 DEF Frame
<1> HIDE DEF x
<1>9. /\ \A j \in DOMAIN to_server : to_server[j].type # "SUB"
      /\ \A j \in DOMAIN to_client : to_client[j].type # "SUBACK"
  BY <1>1, <1>7 DEF Asked
<1>10. Asked'
  <2>1. OneOf("SUB", "SUBACK", to_server', to_client')
    BY <1>1, <1>2, <1>8, <1>9, OneOfFirst DEF NetTypes, Sends
  <2>2. \A j \in DOMAIN to_server' : to_server'[j].type = "SUB" => to_server'[j] = x
    BY <1>1, <1>2, <1>8, <1>9, AppendAt DEF NetTypes, Sends
  <2> QED
    BY <1>2, <1>7, <1>8, <1>9, <2>1, <2>2 DEF Asked
<1>11. Locked'
  <2>1. Phase' \notin {"free", "connecting", "unsub_remove"} \cup FlushPhases
    BY <1>6 DEF FlushPhases
  <2> QED
    BY <1>1, <1>2, <1>4, <1>5, <1>6, <1>7, <2>1 DEF Locked
<1>12. Room'
  <2>1. Waiting(t)' => Waiting(t)
    BY <1>2, <1>4, <1>6 DEF Waiting
  <2>2. made \in Nat
    BY <1>1, SMT DEF HandleTypes
  <2> QED
    BY <1>1, <1>2, <1>5, <1>6, <2>1, <2>2, RoomHolder
<1>13. Pinged'
  <2>1. FlushConfirms' /\ pending_flush' = {} /\ \E y \in Frame : y.type # "PING" /\ Sends(y)
    BY <1>1, <1>2, <1>3, <1>7, <1>8 DEF Pinged, FlushConfirms
  <2> QED
    BY <1>1, <1>2, <1>3, <1>6, <1>7, <2>1, PingedFrame
<1>14. Kept'
  BY <1>1, <1>2, <1>3, <1>4, <1>5, <1>6, KeptFrame
<1>15. Single'
  <2>1. \A i \in DOMAIN server_subs : server_subs[i] # cur.handle
    BY <1>1, <1>5 DEF Single
  <2> QED
    BY <1>1, <1>2, <1>3, <2>1 DEF Single
<1>16. ~ restarted => Known(own)' /\ Restored'
  <2>1. ~ restarted => Known(own)'
    <3>1. \E y \in Frame : y.type # "UNSUB" /\ Sends(y)
      BY <1>2, <1>8
    <3> QED
      BY <1>1, <1>2, <1>3, <1>6, <3>1, KnownFrame
  <2>2. ~ restarted => Restored'
    BY <1>1, <1>2, <1>3, <1>5, <1>6, <1>7, RestoredFrame
  <2> QED
    BY <2>1, <2>2
<1>17. target' \in [Tasks -> Nat] /\ made' \in 0..MaxHandles /\ sub_counter' \in Nat /\ HolderTypes'
  BY <1>1, <1>2 DEF CallTypes, HandleTypes, ConnTypes, HolderTypes
<1> QED
  BY <1>2, <1>4, <1>5, <1>7, <1>8, <1>10, <1>11, <1>12, <1>13, <1>14, <1>15, <1>16, <1>17,
     HolderSteps

\* The PING is sent, behind every frame given before it.
LEMMA FlushSendKeeps ==
    ASSUME NEW own, IInvOf(own), NEW t \in Tasks, FlushSend(t)
    PROVE  IInvOf(own)'
<1>1. /\ NetTypes /\ ServerTypes /\ ConnTypes /\ HolderTypes /\ ClientTypes /\ CallTypes /\ HandleTypes
      /\ HistoryTypes /\ Locked /\ Agree /\ Room /\ Asked /\ Pinged /\ Kept /\ Single
      /\ (~ restarted => Known(own) /\ Restored) /\ goal[LoopTask] = "none"
  BY DEF IInvOf, Types, Locked
<1> DEFINE x == [type |-> "PING"]
<1>2. /\ pc[t] = "flush_send" /\ Goto(t, "flush_wait") /\ Sends(x)
      /\ target' = [target EXCEPT ![t] = sent + 1]
      /\ UNCHANGED <<link, to_client>> /\ UNCHANGED server /\ UNCHANGED tasks_of_conn
      /\ UNCHANGED conn_state /\ UNCHANGED <<lock, corr, got, cur, todo, remapped>> /\ UNCHANGED client
      /\ UNCHANGED <<goal, hand, attempts>> /\ UNCHANGED <<made, id, rx, buffer>>
      /\ UNCHANGED <<late, flushed, restarted>> /\ UNCHANGED sub_counter
  BY DEF FlushSend, holder, handles, Sends, Enqueue
<1>3. /\ UNCHANGED <<server_subs, next_id, served>> /\ UNCHANGED tracked
      /\ UNCHANGED <<pending_subs, pending_flush, subscriptions>>
  BY <1>2 DEF server, client, conn_state
<1>4. {"flush_send", "flush_wait"} \subseteq Holding \cap FlushPhases
  BY DEF Holding, FlushPhases
<1>5. lock = t /\ Phase = "flush_send" /\ lock' = t
  BY <1>1, <1>2, <1>4, PhaseOf
<1>6. /\ Agree' /\ Phase' = "flush_wait" /\ pc'[t] = "flush_wait"
      /\ \A u \in Tasks : u # t => pc'[u] = pc[u]
  BY <1>1, <1>2, <1>4, <1>5, Advance
<1>7. ~ Asking /\ ~ Pinging
  BY <1>5 DEF Asking, Pinging
<1>8. x \in Frame /\ x.type = "PING"
  BY DEF Frame
<1> HIDE DEF x
<1>9. sent \in Nat /\ sent + 1 \in Nat /\ made \in Nat /\ served \in Nat
  BY <1>1, SMT DEF HistoryTypes, HandleTypes, ServerTypes
<1>10. /\ target' \in [Tasks -> Nat] /\ target'[t] = sent + 1
       /\ \A u \in Tasks : u # t => target'[u] = target[u]
  BY <1>1, <1>2, <1>9, ExceptAt DEF CallTypes
<1>11. Locked'
  BY <1>1, <1>2, <1>4, <1>5, <1>6, <1>7 DEF Locked, SubPhases
<1>12. Room'
  <2>1. Waiting(t)' => Waiting(t)
    BY <1>2, <1>5 DEF Waiting, SubPhases
  <2> QED
    BY <1>1, <1>2, <1>5, <1>6, <1>9, <2>1, RoomHolder
<1>13. Asked'
  <2>1. \E y \in Frame : y.type # "SUB" /\ Sends(y)
    BY <1>2, <1>8
  <2> QED
    BY <1>1, <1>2, <1>7, <2>1, AskedFrame
<1>14. Pinged'
  <2>1. ~ late => /\ \A j \in DOMAIN to_server : to_server[j].type # "PING"
                  /\ \A j \in DOMAIN to_client : to_client[j].type # "PONG"
                  /\ got = 0
    BY <1>1, <1>5, <1>7 DEF Pinged
  <2>2. to_server \in Seq(Frame) /\ to_client \in Seq(Reply) /\ to_server' = Append(to_server, x) /\ sent' = sent + 1
    BY <1>1, <1>2 DEF NetTypes, Sends
  <2>3. /\ Len(to_server') = Len(to_server) + 1 /\ Len(to_server) \in Nat
        /\ \A j \in DOMAIN to_server' :
               \/ j \in DOMAIN to_server /\ to_server'[j] = to_server[j]
               \/ j = Len(to_server) + 1
    BY <1>8, <2>2, AppendAt, IndexOf
  <2>4. link = "up" => /\ served + Len(to_server') = sent'
                       /\ sent + 1 <= served + (Len(to_server) + 1)
    <3>1. link = "up" => served + Len(to_server) = sent
      BY <1>1 DEF Pinged
    <3>2. Len(to_server) \in Nat /\ Len(to_server') = Len(to_server) + 1 /\ sent' = sent + 1
      BY <2>2, <2>3
    <3> HIDE DEF x
    <3> QED
      BY <1>9, <3>1, <3>2, SMT
  <2>5. ~ late => OneOf("PING", "PONG", to_server', to_client')
    BY <1>2, <1>8, <2>1, <2>2, OneOfFirst
  <2>6. ~ late => \A j \in DOMAIN to_server' : to_server'[j].type = "PING" =>
                      (link = "up" => target'[lock'] <= served + j)
    BY <1>5, <1>10, <2>1, <2>3, <2>4
  <2>7. /\ pending_flush \subseteq {corr} /\ FlushConfirms' /\ (pending_flush # {} => got = 0)
    BY <1>1, <1>2 DEF Pinged, FlushConfirms
  <2>8. ~ late => Pinging'
    BY <1>2, <1>6, <2>1 DEF Pinging
  <2> QED
    BY <1>2, <1>3, <1>6, <2>1, <2>4, <2>5, <2>6, <2>7, <2>8 DEF Pinged
<1>15. Kept'
  BY <1>1, <1>2, <1>3, <1>6, KeptFrame DEF SubPhases
<1>16. Single'
  <2>1. \E y \in Frame : y.type # "SUB" /\ Sends(y)
    BY <1>2, <1>8
  <2> QED
    BY <1>1, <1>2, <1>3, <1>6, <2>1, SingleFrame
<1>17. ~ restarted => Known(own)' /\ Restored'
  <2>1. ~ restarted => Known(own)'
    <3>1. \E y \in Frame : y.type # "UNSUB" /\ Sends(y)
      BY <1>2, <1>8
    <3> QED
      BY <1>1, <1>2, <1>3, <1>6, <1>10, <3>1, KnownFrame
  <2>2. ~ restarted => Restored'
    BY <1>1, <1>2, <1>3, <1>5, <1>6, RestoredFrame, ZenonT(40)
  <2> QED
    BY <2>1, <2>2
<1>18. Network /\ Hands /\ Owned(own) /\ RoutedToOwner
  BY DEF IInvOf, Owned
<1>19. Types'
  <2>1. pc' \in [Tasks -> PC]
    BY <1>1, <1>2, ExceptAt DEF CallTypes, Goto, PC
  <2>2. CallTypes' /\ HandleTypes' /\ HolderTypes'
    BY <1>1, <1>2, <1>10, <2>1 DEF CallTypes, HandleTypes, HolderTypes
  <2>3. to_server' \in Seq(Frame) /\ sent' \in Nat
    BY <1>1, <1>2, <1>8, <1>9, AppendAt DEF Sends, NetTypes, HistoryTypes
  <2>4. NetTypes' /\ HistoryTypes' /\ ServerTypes' /\ ClientTypes'
    BY <1>1, <1>2, <1>3, <2>3 DEF NetTypes, HistoryTypes, ServerTypes, ClientTypes, client
  <2>5. ConnTypes'
    BY <1>1, <1>2, <1>3 DEF ConnTypes, tasks_of_conn
  <2> QED
    BY <2>2, <2>4, <2>5 DEF Types
<1>20. UNCHANGED <<write_tx, writer, held>>
  BY <1>2 DEF tasks_of_conn
<1>21. Network'
  BY <1>2, <1>6, <1>18, <1>20, NetworkFrame
<1>22. Hands'
  BY <1>2, <1>6, <1>18 DEF Hands
<1>23. Owned(own)'
  <2>1. RoutedToOwner'
    BY <1>2, <1>18 DEF RoutedToOwner
  <2> QED
    BY <1>1, <1>2, <1>3, <1>6, <1>18, <1>20, <2>1, OwnedFrame
<1> QED
  BY <1>2, <1>11, <1>12, <1>13, <1>14, <1>15, <1>16, <1>17, <1>19, <1>21, <1>22, <1>23 DEF IInvOf

\* The replay takes up the next subscription.
LEMMA ReplayNextKeeps ==
    ASSUME NEW own, IInvOf(own), NEW t \in Tasks, NEW e \in todo, ReplayNext(t, e)
    PROVE  IInvOf(own)'
<1>1. /\ NetTypes /\ ServerTypes /\ ConnTypes /\ HolderTypes /\ ClientTypes /\ CallTypes /\ HandleTypes
      /\ HistoryTypes /\ Locked /\ Agree /\ Room /\ Asked /\ Pinged /\ Kept /\ Single
      /\ (~ restarted => Known(own) /\ Restored) /\ goal[LoopTask] = "none"
  BY DEF IInvOf, Types, Locked
<1>2. /\ pc[t] = "replay" /\ Goto(t, "sub_pending") /\ corr' = sub_counter /\ sub_counter' = sub_counter + 1
      /\ todo' = todo \ {e} /\ cur' = e
      /\ UNCHANGED <<link, to_server, to_client>> /\ UNCHANGED server /\ UNCHANGED tasks_of_conn
      /\ UNCHANGED conn_state /\ UNCHANGED <<lock, got, remapped>> /\ UNCHANGED client
      /\ UNCHANGED <<goal, hand, target, attempts>> /\ UNCHANGED <<made, id, rx, buffer>>
      /\ UNCHANGED <<sent, late, flushed, restarted>> /\ SendsNothing
  BY DEF ReplayNext, network, history, handles, SendsNothing
<1>3. /\ UNCHANGED <<server_subs, next_id, served>> /\ UNCHANGED tracked
      /\ UNCHANGED <<pending_subs, pending_flush, subscriptions>>
  BY <1>2 DEF server, client, conn_state
<1>4. "replay" \in Holding /\ "sub_pending" \in Holding /\ "sub_pending" \in SubPhases
  BY DEF Holding, SubPhases
<1>5. lock = t /\ Phase = "replay" /\ lock' = t
  BY <1>1, <1>2, <1>4, PhaseOf
<1>6. /\ Agree' /\ Phase' = "sub_pending" /\ pc'[t] = "sub_pending"
      /\ \A u \in Tasks : u # t => pc'[u] = pc[u]
  BY <1>1, <1>2, <1>4, <1>5, Advance
<1>7. ~ Asking /\ ~ Pinging /\ got = 0 /\ got' = 0 /\ pending_flush = {} /\ cur = NoOne
  BY <1>1, <1>2, <1>5 DEF Asking, Pinging, Locked, Pinged
<1>8. /\ e.stable \in Nat /\ e.stable # 0 /\ e.handle \in Handles /\ e.handle # 0
      /\ e \in [stable : Nat, handle : Handles \cup {0}] /\ cur.stable = 0
      /\ sub_counter \in Nat /\ sub_counter' \in Nat /\ made \in Nat
  BY <1>1, <1>2, <1>7, SMT DEF HolderTypes, ConnTypes, HandleTypes, Handles, NoOne
<1>9. HolderTypes'
  BY <1>1, <1>2, <1>8 DEF HolderTypes
<1>10. Locked'
  <2>1. Phase' \notin {"free", "connecting", "unsub_remove"} \cup FlushPhases
    BY <1>6 DEF FlushPhases
  <2> QED
    BY <1>1, <1>2, <1>4, <1>5, <1>6, <1>7, <1>8, <2>1 DEF Locked
<1>11. Room'
  <2>1. Waiting(t)' => Waiting(t)
    BY <1>2 DEF Waiting, SubPhases
  <2> QED
    BY <1>1, <1>2, <1>5, <1>6, <1>8, <2>1, RoomHolder
<1>12. Asked'
  BY <1>1, <1>2, <1>7, AskedFrame
<1>13. Pinged'
  <2>1. FlushConfirms' /\ pending_flush' = {}
    BY <1>1, <1>2, <1>3, <1>7 DEF Pinged, FlushConfirms
  <2> QED
    BY <1>1, <1>2, <1>3, <1>6, <1>7, <2>1, PingedFrame
<1>14. Kept'
  <2>1. id[e.handle] = e.stable /\ \A f \in todo \ {e} : id[f.handle] = f.stable /\ f.stable # e.stable
    BY <1>1 DEF Kept
  <2>2. \A f, g \in todo \ {e} : f.stable = g.stable => f = g
    BY <1>1 DEF Kept
  <2>3. /\ \A h \in Handles : h > made => id[h] = 0
        /\ \A s \in DOMAIN tracked : id[tracked[s].handle] = s
    BY <1>1 DEF Kept
  <2> QED
    BY <1>2, <1>3, <1>8, <2>1, <2>2, <2>3 DEF Kept
<1>15. Single'
  <2>1. \A i \in DOMAIN server_subs : server_subs[i] # cur'.handle
    BY <1>1, <1>2 DEF Single
  <2> QED
    BY <1>1, <1>2, <1>3, <1>7, <2>1, SingleFrame
<1>16. ~ restarted => Known(own)' /\ Restored'
  <2>1. ~ restarted => Known(own)'
    BY <1>1, <1>2, <1>3, <1>6, KnownFrame
  <2>2. ASSUME ~ restarted, link = "up" PROVE Restored'
    <3>1. \A s \in DOMAIN tracked :
              \/ \E f \in todo : f.stable = s
              \/ s \in DOMAIN remapped /\ Live(remapped[s], tracked[s].handle)
      <4>1. \A s \in DOMAIN tracked : s # cur.stable
        BY <1>1, <1>8 DEF ClientTypes
      <4> QED
        BY <1>1, <1>5, <2>2, <4>1 DEF Restored, Replaying
    <3>2. (\A s \in DOMAIN tracked :
              \/ s = cur.stable
              \/ \E f \in todo : f.stable = s
              \/ s \in DOMAIN remapped /\ Live(remapped[s], tracked[s].handle))'
      BY <1>2, <1>3, <3>1 DEF Live
    <3>3. Replaying'
      BY <1>2, <1>8 DEF Replaying
    <3>4. (\A j \in DOMAIN to_client : to_client[j].type # "SUBACK")'
      BY <1>1, <1>2, <1>7 DEF Asked
    <3> QED
      BY <1>7, <3>2, <3>3, <3>4 DEF Restored
  <2>3. link # "up" => Restored'
    BY <1>2 DEF Restored
  <2> QED
    BY <2>1, <2>2, <2>3
<1>17. target' \in [Tasks -> Nat] /\ made' \in 0..MaxHandles
  BY <1>1, <1>2 DEF CallTypes, HandleTypes
<1> QED
  BY <1>2, <1>4, <1>5, <1>7, <1>8, <1>9, <1>10, <1>11, <1>12, <1>13, <1>14, <1>15, <1>16, <1>17,
     HolderSteps

-----------------------------------------------------------------------------
(* unsubscribe *)

\* The entry of Client.subscriptions is removed: the id that is taken from it is the subscription's.
LEMMA UnsubTakeKeeps ==
    ASSUME NEW own, IInvOf(own), NEW t \in Tasks, UnsubTake(t)
    PROVE  IInvOf(own)'
<1>1. /\ NetTypes /\ ServerTypes /\ ConnTypes /\ HolderTypes /\ ClientTypes /\ CallTypes /\ HandleTypes
      /\ HistoryTypes /\ Locked /\ Agree /\ Room /\ Network /\ Hands /\ Asked /\ Pinged /\ Kept /\ Single
      /\ Owned(own) /\ (~ restarted => Known(own) /\ Restored) /\ goal[LoopTask] = "none" /\ RoutedToOwner
  BY DEF IInvOf, Types, Locked, Owned
<1> DEFINE s0 == id[hand[t]]
<1> DEFINE i0 == IF s0 \in DOMAIN tracked THEN tracked[s0].server ELSE s0
<1>2. /\ pc[t] = "unsub" /\ target' = [target EXCEPT ![t] = i0] /\ tracked' = Drop(tracked, s0)
      /\ Goto(t, "unsub_lock")
      /\ UNCHANGED <<link, to_server, to_client>> /\ UNCHANGED <<server_subs, next_id, served>>
      /\ UNCHANGED <<connected, write_tx, writer, reader, held>> /\ UNCHANGED sub_counter
      /\ UNCHANGED <<pending_subs, pending_flush, subscriptions>>
      /\ UNCHANGED <<lock, corr, got, cur, todo, remapped>> /\ UNCHANGED closed
      /\ UNCHANGED <<goal, hand, attempts>> /\ UNCHANGED <<made, id, rx, buffer>>
      /\ UNCHANGED <<sent, late, flushed, restarted>> /\ SendsNothing
  BY DEF UnsubTake, network, server, tasks_of_conn, conn_state, holder, handles, history,
     SendsNothing
<1>3. hand[t] \in Handles /\ s0 # 0
  BY <1>1, <1>2 DEF Hands
<1>4. /\ DOMAIN tracked' = DOMAIN tracked \ {s0} /\ \A s \in DOMAIN tracked' : tracked'[s] = tracked[s]
  <2>1. tracked' = Drop(tracked, s0)
    BY <1>2
  <2> HIDE DEF s0
  <2>2. /\ DOMAIN Drop(tracked, s0) = DOMAIN tracked \ {s0}
        /\ \A k \in DOMAIN tracked \ {s0} : Drop(tracked, s0)[k] = tracked[k]
    BY DropAt
  <2> QED
    BY <2>1, <2>2
<1>5. i0 \in Nat
  BY <1>1, <1>3 DEF ClientTypes, HandleTypes
<1> HIDE DEF i0, s0
<1>6. "unsub" \notin Holding /\ "unsub_lock" \notin Holding /\ "unsub" \notin SubPhases
  BY DEF Holding, SubPhases, FlushPhases
<1>7. Agree' /\ Phase' = Phase /\ lock # t /\ (\A u \in Tasks : u # t => pc'[u] = pc[u]) /\ pc'[t] = "unsub_lock"
  BY <1>1, <1>2, <1>6, PhaseStays
<1>8. target' \in [Tasks -> Nat] /\ target'[t] = i0 /\ \A u \in Tasks : u # t => target'[u] = target[u]
  BY <1>1, <1>2, <1>5, ExceptAt DEF CallTypes
<1>9. Types'
  <2>1. pc' \in [Tasks -> PC]
    BY <1>1, <1>2, ExceptAt DEF CallTypes, Goto, PC
  <2>2. CallTypes' /\ HandleTypes' /\ HolderTypes'
    BY <1>1, <1>2, <1>8, <2>1 DEF CallTypes, HandleTypes, HolderTypes
  <2>3. NetTypes' /\ HistoryTypes' /\ ServerTypes'
    BY <1>1, <1>2 DEF NetTypes, HistoryTypes, ServerTypes
  <2>4. ClientTypes'
    BY <1>1, <1>2, <1>4 DEF ClientTypes
  <2>5. ConnTypes'
    BY <1>1, <1>2 DEF ConnTypes
  <2> QED
    BY <2>2, <2>3, <2>4, <2>5 DEF Types
<1>10. Locked' /\ Network'
  BY <1>1, <1>2, <1>7, LockedFrame, NetworkFrame
<1>11. Room'
  <2>1. made \in Nat
    BY <1>1, SMT DEF HandleTypes
  <2>2. \A u \in Apps : u \in Tasks
    BY DEF Tasks
  <2>3. \A u \in Apps : Waiting(u)' => Waiting(u)
    BY <1>2, <1>6, <1>7, <2>2 DEF Waiting
  <2> QED
    BY <1>1, <1>2, <2>1, <2>3, RoomFrame
<1>12. Hands'
  BY <1>1, <1>2, <1>7 DEF Hands
<1>13. Asking => Asking' /\ cur' = cur
  BY <1>2, <1>7 DEF Asking
<1>14. Asked'
  BY <1>1, <1>2, <1>13, AskedFrame
<1>15. Pinged'
  <2>1. /\ FlushConfirms' /\ pending_flush' \subseteq {corr'}
        /\ pending_flush' # {} => got' = 0 /\ Phase' \in {"flush_send", "flush_wait", "flush_expired"}
    BY <1>1, <1>2, <1>7 DEF Pinged, FlushConfirms
  <2>2. Phase = "flush_wait" => target'[lock'] = target[lock]
    <3>1. Phase = "flush_wait" => lock \in Tasks
      BY <1>1 DEF HolderTypes, Phase
    <3> QED
      BY <1>2, <1>7, <1>8, <3>1
  <2>3. Pinging => Pinging' /\ target'[lock'] = target[lock]
    BY <1>2, <1>7, <2>2 DEF Pinging
  <2> QED
    BY <1>1, <1>2, <1>7, <2>1, <2>2, <2>3, PingedFrame
<1>16. Kept'
  BY <1>1, <1>2, <1>4, <1>7 DEF Kept
<1>17. Single'
  <2>1. Phase' \in {"sub_pending", "sub_send"} => \A i \in DOMAIN server_subs : server_subs[i] # cur'.handle
    BY <1>1, <1>2, <1>7 DEF Single
  <2> QED
    BY <1>1, <1>2, <2>1, SingleFrame
<1>18. Owned(own)'
  <2>1. RoutedToOwner'
    BY <1>1, <1>2 DEF RoutedToOwner
  <2> QED
    BY <1>1, <1>2, <1>7, <2>1, OwnedFrame
<1>19. ASSUME ~ restarted PROVE Known(own)'
  <2>1. Known(own) /\ UNCHANGED <<id, next_id, hand, to_server, remapped>>
    BY <1>1, <1>2, <1>19
  <2>2. own[s0] = hand[t] /\ s0 < next_id
    BY <1>3, <2>1 DEF Known, s0
  <2>3. own[i0] = hand[t] /\ i0 < next_id
    <3>1. CASE s0 \in DOMAIN tracked
      <4>1. id[tracked[s0].handle] = s0 /\ tracked[s0].handle \in Handles
        BY <1>1, <3>1 DEF Kept, ClientTypes
      <4>2. own[s0] = tracked[s0].handle
        BY <1>3, <2>1, <4>1 DEF Known
      <4> QED
        BY <2>1, <2>2, <3>1, <4>2 DEF Known, i0
    <3>2. CASE s0 \notin DOMAIN tracked
      BY <2>2, <3>2 DEF i0
    <3> QED
      BY <3>1, <3>2
  <2>4. \A h : GivenUp(h) => GivenUp(h)'
    BY <1>4, <2>1 DEF GivenUp
  <2>5. GivenUp(hand[t])'
    <3>1. id'[hand'[t]] = s0
      BY <2>1 DEF s0
    <3> QED
      BY <1>3, <1>4, <2>1, <3>1 DEF GivenUp
  <2>6. (\A u \in Tasks : pc[u] \in {"unsub_lock", "unsub_remove"} =>
           own[target[u]] = hand[u] /\ target[u] < next_id /\ GivenUp(hand[u]))'
    <3>1. \A u \in Tasks : u # t /\ pc[u] \in {"unsub_lock", "unsub_remove"} =>
              own[target[u]] = hand[u] /\ target[u] < next_id /\ GivenUp(hand[u])
      BY <2>1 DEF Known
    <3> QED
      BY <1>7, <1>8, <2>1, <2>3, <2>4, <2>5, <3>1 DEF GivenUp
  <2>7. (\A j \in DOMAIN to_server : to_server[j].type = "UNSUB" =>
           to_server[j].id < next_id /\ GivenUp(own[to_server[j].id]))'
    BY <1>4, <2>1, <2>4 DEF Known, GivenUp
  <2>8. (\A s \in DOMAIN tracked : own[tracked[s].server] = tracked[s].handle /\ tracked[s].server < next_id)'
    BY <1>4, <2>1 DEF Known
  <2> QED
    BY <2>1, <2>6, <2>7, <2>8 DEF Known
<1>20. ASSUME ~ restarted PROVE Restored'
  <2>1. Restored
    BY <1>1, <1>20
  <2>2. Wanted' => Wanted
    BY <1>2, <1>4 DEF Wanted
  <2>3. Replaying' <=> Replaying
    BY <1>2, <1>7 DEF Replaying
  <2>4. \A i, h : Live(i, h)' <=> Live(i, h)
    BY <1>2 DEF Live
  <2>5. link = "up" => (\A s \in DOMAIN tracked :
               IF Replaying
               THEN \/ s = cur.stable
                    \/ \E e \in todo : e.stable = s
                    \/ s \in DOMAIN remapped /\ Live(remapped[s], tracked[s].handle)
               ELSE Live(tracked[s].server, tracked[s].handle))'
    <3>1. CASE Replaying
      BY <1>2, <1>4, <2>1, <2>3, <3>1 DEF Restored, Live
    <3>2. CASE ~ Replaying
      BY <1>2, <1>4, <2>1, <2>3, <3>2 DEF Restored, Live
    <3> QED
      BY <3>1, <3>2
  <2> QED
    BY <1>2, <1>7, <2>1, <2>2, <2>5 DEF Restored
<1> QED
  BY <1>2, <1>9, <1>10, <1>11, <1>12, <1>14, <1>15, <1>16, <1>17, <1>18, <1>19, <1>20 DEF IInvOf

\* The UNSUB is sent, for an id whose subscription was given up; or the call fails.
LEMMA UnsubSendKeeps ==
    ASSUME NEW own, IInvOf(own), NEW t \in Tasks, UnsubSend(t)
    PROVE  IInvOf(own)'
<1>1. /\ NetTypes /\ ServerTypes /\ ConnTypes /\ HolderTypes /\ ClientTypes /\ CallTypes /\ HandleTypes
      /\ HistoryTypes /\ Locked /\ Agree /\ Room /\ Asked /\ Pinged /\ Kept /\ Single
      /\ (~ restarted => Known(own) /\ Restored) /\ goal[LoopTask] = "none"
  BY DEF IInvOf, Types, Locked
<1>2. pc[t] = "unsub_lock" /\ lock = None
  BY DEF UnsubSend
<1>3. CASE ~ CanSend
  <2>1. /\ Return(t)
        /\ UNCHANGED <<network, server, tasks_of_conn, sub_counter, conn_state, holder, client, history>>
    BY <1>3 DEF UnsubSend, network, holder, history
  <2>2. pc[t] \notin Holding
    BY <1>2 DEF Holding, SubPhases, FlushPhases
  <2> QED
    BY <2>1, <2>2, AsideReturn
<1>4. CASE CanSend
  <2> DEFINE x == [type |-> "UNSUB", id |-> target[t]]
  <2>1. /\ lock' = t /\ Goto(t, "unsub_remove") /\ Sends(x)
        /\ UNCHANGED <<link, to_client>> /\ UNCHANGED server /\ UNCHANGED tasks_of_conn
        /\ UNCHANGED conn_state /\ UNCHANGED <<corr, got, cur, todo, remapped>> /\ UNCHANGED client
        /\ UNCHANGED <<goal, hand, target, attempts>> /\ UNCHANGED <<made, id, rx, buffer>>
        /\ UNCHANGED <<late, flushed, restarted>> /\ UNCHANGED sub_counter
    BY <1>4 DEF UnsubSend, handles, Sends, Enqueue
  <2>2. /\ UNCHANGED <<server_subs, next_id, served>> /\ UNCHANGED tracked
        /\ UNCHANGED <<pending_subs, pending_flush, subscriptions>>
    BY <2>1 DEF server, client, conn_state
  <2>3. "unsub_remove" \in Holding /\ "unsub_remove" \notin SubPhases
    BY DEF Holding, SubPhases
  <2>4. /\ Agree' /\ Phase' = "unsub_remove" /\ pc'[t] = "unsub_remove"
        /\ \A u \in Tasks : u # t => pc'[u] = pc[u]
    BY <1>1, <1>2, <2>1, <2>3, Advance
  <2>5. /\ Phase = "free" /\ cur = NoOne /\ todo = {} /\ remapped = Empty /\ got = 0 /\ pending_flush = {}
        /\ ~ Asking /\ ~ Pinging
    BY <1>2, FreeFacts
  <2>6. x \in Frame /\ x.type = "UNSUB" /\ x.id = target[t]
    BY <1>1 DEF Frame, CallTypes
  <2> HIDE DEF x
  <2>7. made \in Nat
    BY <1>1, SMT DEF HandleTypes
  <2>8. HolderTypes'
    BY <1>1, <2>1 DEF HolderTypes
  <2>9. Locked'
    BY <1>1, <2>1, <2>3, <2>4, <2>5 DEF Locked
  <2>10. Room'
    <3>1. Waiting(t)' => Waiting(t)
      BY <1>2, <2>1 DEF Waiting, SubPhases
    <3> QED
      BY <1>1, <1>2, <2>1, <2>4, <2>7, <3>1, RoomHolder
  <2>11. /\ \E y \in Frame : y.type # "SUB" /\ Sends(y)
         /\ \E y \in Frame : y.type # "PING" /\ Sends(y)
         /\ \E y \in Frame : Sends(y)
    BY <2>1, <2>6
  <2>12. Asked'
    BY <1>1, <2>1, <2>5, <2>11, AskedFrame
  <2>13. Pinged'
    <3>1. FlushConfirms' /\ pending_flush' = {}
      BY <1>1, <2>1, <2>2, <2>5 DEF Pinged, FlushConfirms
    <3> QED
      BY <1>1, <2>1, <2>2, <2>4, <2>5, <2>11, <3>1, PingedFrame
  <2>14. Kept'
    BY <1>1, <2>1, <2>2, <2>3, <2>4, KeptFrame
  <2>15. Single'
    BY <1>1, <2>1, <2>2, <2>4, <2>5, <2>11, SingleFrame
  <2>16. ~ restarted => Known(own)' /\ Restored'
    <3>1. ASSUME ~ restarted PROVE Known(own)'
      <4>1. Known(own)
        BY <1>1, <3>1
      <4>2. x.id < next_id /\ GivenUp(own[x.id])
        BY <1>2, <2>6, <4>1 DEF Known
      <4>3. \A j \in DOMAIN to_server' : to_server'[j].type = "UNSUB" =>
                to_server'[j].id < next_id /\ GivenUp(own[to_server'[j].id])
        <5>1. to_server \in Seq(Frame) /\ to_server' = Append(to_server, x)
          BY <1>1, <2>1 DEF NetTypes, Sends
        <5>2. \A j \in DOMAIN to_server' : \/ j \in DOMAIN to_server /\ to_server'[j] = to_server[j]
                                           \/ to_server'[j] = x
          BY <2>6, <5>1, AppendAt
        <5> QED
          BY <4>1, <4>2, <5>2 DEF Known
      <4>4. \A u \in Tasks : pc'[u] \in {"unsub_lock", "unsub_remove"} =>
                /\ pc[u] \in {"unsub_lock", "unsub_remove"}
                /\ own[target[u]] = hand[u] /\ target[u] < next_id /\ GivenUp(hand[u])
        BY <1>2, <2>4, <4>1 DEF Known
      <4> QED
        BY <2>1, <2>2, <4>1, <4>3, <4>4 DEF Known, GivenUp
    <3>2. ~ restarted => Restored'
      BY <1>1, <2>1, <2>2, <2>4, <2>5, RestoredFrame
    <3> QED
      BY <3>1, <3>2
  <2>17. target' \in [Tasks -> Nat] /\ made' \in 0..MaxHandles /\ sub_counter' \in Nat /\ got' = 0
    BY <1>1, <2>1, <2>5 DEF CallTypes, HandleTypes, ConnTypes
  <2> QED
    BY <1>2, <2>1, <2>3, <2>5, <2>8, <2>9, <2>10, <2>11, <2>12, <2>13, <2>14, <2>15, <2>16, <2>17,
       HolderSteps
<1> QED
  BY <1>3, <1>4

\* remove_subscription: no subscription that is kept is reached through the id that is removed.
LEMMA UnsubRemoveKeeps ==
    ASSUME NEW own, IInvOf(own), NEW t \in Tasks, UnsubRemove(t)
    PROVE  IInvOf(own)'
<1>1. /\ NetTypes /\ ConnTypes /\ HolderTypes /\ ClientTypes /\ CallTypes /\ HandleTypes /\ Locked /\ Agree /\ Room
      /\ Hands /\ Asked /\ Pinged /\ Kept /\ Owned(own) /\ RoutedToOwner
      /\ (~ restarted => Known(own) /\ Restored) /\ goal[LoopTask] = "none"
  BY DEF IInvOf, Types, Locked, Owned
<1>2. /\ pc[t] = "unsub_remove" /\ reader # "blocked" /\ subscriptions' = Drop(subscriptions, target[t])
      /\ Release /\ Return(t) /\ UNCHANGED <<network, server, tasks_of_conn, sub_counter>>
      /\ UNCHANGED <<pending_subs, pending_flush>> /\ UNCHANGED <<tracked, closed>>
      /\ UNCHANGED <<sent, late, flushed, restarted>>
  BY DEF UnsubRemove, StateFree, client
<1>3. /\ UNCHANGED <<link, to_server, to_client>> /\ UNCHANGED <<server_subs, next_id, served>>
      /\ UNCHANGED <<connected, write_tx, writer, reader, held>> /\ UNCHANGED sub_counter /\ SendsNothing
  BY <1>2 DEF network, server, tasks_of_conn, SendsNothing
<1>4. pc[t] \in Holding /\ "unsub_remove" \notin SubPhases
  BY <1>2 DEF Holding, SubPhases
<1>5. Phase = "unsub_remove" /\ lock = t
  BY <1>1, <1>2, <1>4, PhaseOf
<1>6. cur = NoOne /\ todo = {} /\ remapped = Empty /\ got = 0 /\ ~ Asking /\ ~ Pinging /\ pending_flush = {}
  BY <1>1, <1>5 DEF Locked, Asking, Pinging, Pinged
<1>7. /\ DOMAIN subscriptions' = DOMAIN subscriptions \ {target[t]}
      /\ \A i \in DOMAIN subscriptions' : subscriptions'[i] = subscriptions[i]
  BY <1>2, DropAt, ZenonT(40)
<1>8. ConnTypes'
  <2>1. held' = None
    BY <1>1, <1>2, <1>3 DEF ConnTypes
  <2> QED
    BY <1>1, <1>2, <1>3, <1>7, <2>1 DEF ConnTypes
<1>9. /\ CallTypes' /\ HandleTypes' /\ made' = made /\ id' = id
      /\ pc'[t] \in {"sleep", "idle"} /\ goal'[t] = "none"
      /\ \A u \in Tasks : u # t =>
             pc'[u] = pc[u] /\ goal'[u] = goal[u] /\ hand'[u] = hand[u] /\ target'[u] = target[u]
      /\ \A h \in Handles : rx'[h] => rx[h]
      /\ RoutedToOwner' /\ Hands'
  BY <1>1, <1>2, ReturnFacts
<1>10. PICK l \in {"sleep", "idle"} : Goto(t, l)
  BY <1>2 DEF Return
<1>11. l \notin Holding
  BY <1>10 DEF Holding, SubPhases, FlushPhases
<1>12. goal'[LoopTask] = "none" /\ ClientTypes'
  BY <1>1, <1>2, <1>9 DEF Tasks, ClientTypes
<1>13. Room'
  <2>1. ~ Waiting(t)' /\ made \in Nat
    BY <1>1, <1>9, SMT DEF Waiting, Subscribing, HandleTypes
  <2> QED
    BY <1>1, <1>5, <1>9, <2>1, RoomHolder, ZenonT(40)
<1>14. /\ lock' = None /\ got' = 0 /\ cur' = NoOne /\ todo' = {} /\ remapped' = Empty
  BY <1>2, ReleaseFacts
<1>15. Phase' = "free"
  BY <1>14 DEF Phase
<1>16. Kept'
  <2>1. Phase' \notin SubPhases /\ todo' \subseteq todo
    BY <1>14, <1>15 DEF SubPhases
  <2> QED
    BY <1>1, <1>2, <1>9, <1>14, <2>1, KeptFrame
<1>17. ~ restarted => Known(own)'
  <2>1. \A u \in Tasks : pc'[u] \in {"unsub_lock", "unsub_remove"} =>
            /\ pc[u] \in {"unsub_lock", "unsub_remove"}
            /\ target'[u] = target[u] /\ hand'[u] = hand[u]
    BY <1>9
  <2> QED
    BY <1>1, <1>2, <1>3, <1>6, <1>9, <1>14, <2>1, KnownFrame
<1>18. ASSUME ~ restarted PROVE Restored'
  <2>1. ~ Replaying /\ ~ Replaying'
    BY <1>5, <1>6, <1>14, <1>15 DEF Replaying, NoOne
  <2>2. \A s \in DOMAIN tracked : tracked[s].server # target[t] /\ tracked[s].handle \in Handles
    <3>1. own[target[t]] = hand[t] /\ id[hand[t]] \notin DOMAIN tracked
      BY <1>1, <1>2, <1>18 DEF Known, GivenUp
    <3>2. \A s \in DOMAIN tracked : own[tracked[s].server] = tracked[s].handle /\ id[tracked[s].handle] = s
      BY <1>1, <1>18 DEF Known, Kept
    <3>3. \A s \in DOMAIN tracked : tracked[s].handle \in Handles
      BY <1>1 DEF ClientTypes
    <3> QED
      BY <3>1, <3>2, <3>3
  <2>3. link = "up" => \A s \in DOMAIN tracked : Live(tracked[s].server, tracked[s].handle)
    BY <1>1, <1>18, <2>1 DEF Restored
  <2>4. link = "up" => (\A s \in DOMAIN tracked : Live(tracked[s].server, tracked[s].handle))'
    BY <1>2, <1>3, <1>7, <1>9, <2>2, <2>3 DEF Live
  <2>5. \A j \in DOMAIN to_client : to_client[j].type # "SUBACK"
    BY <1>1, <1>6 DEF Asked
  <2> QED
    BY <1>3, <1>14, <2>1, <2>4, <2>5 DEF Restored
<1>19. \A i \in DOMAIN subscriptions' : subscriptions'[i] = own[i] /\ Given(i)
  BY <1>1, <1>7 DEF Owned
<1>20. pending_flush' = {}
  BY <1>2, <1>6
<1> QED
  BY <1>2, <1>4, <1>6, <1>8, <1>9, <1>10, <1>11, <1>12, <1>13, <1>16, <1>17, <1>18, <1>19, <1>20,
     ReleasesWith

-----------------------------------------------------------------------------
(* The invariant *)

\* A step of a call or of the reconnect loop keeps the invariant.
LEMMA StepKeeps ==
    ASSUME NEW own, IInvOf(own), NEW t \in Tasks, Step(t)
    PROVE  IInvOf(own)'
<1>1. CASE Ensure(t)
  BY <1>1, EnsureKeeps
<1>2. CASE Publish(t)
  BY <1>2, PublishKeeps
<1>3. CASE GetReply(t)
  BY <1>3, GetReplyKeeps
<1>4. CASE ReplyTimeout(t)
  BY <1>4, ReplyTimeoutKeeps
<1>5. CASE Close(t)
  BY <1>5, CloseKeeps
<1>6. CASE BeginSubscribe(t)
  BY <1>6, BeginSubscribeKeeps
<1>7. CASE SubPending(t)
  BY <1>7, SubPendingKeeps
<1>8. CASE SubSend(t)
  BY <1>8, SubSendKeeps
<1>9. CASE SubFails(t)
  BY <1>9, SubFailsKeeps
<1>10. CASE Subscribed(t)
  BY <1>10, SubscribedKeeps
<1>11. CASE FoundConnected(t)
  BY <1>11, FoundConnectedKeeps
<1>12. CASE Attempt(t)
  BY <1>12, AttemptKeeps
<1>13. CASE ConnectFails(t)
  BY <1>13, ConnectFailsKeeps
<1>14. CASE ConnectSucceeds(t)
  BY <1>14, ConnectSucceedsKeeps
<1>15. CASE Replayed(t)
  BY <1>15, ReplayedKeeps
<1>16. CASE ReplayDone(t)
  BY <1>16, ReplayDoneKeeps
<1>17. CASE UnsubTake(t)
  BY <1>17, UnsubTakeKeeps
<1>18. CASE UnsubSend(t)
  BY <1>18, UnsubSendKeeps
<1>19. CASE UnsubRemove(t)
  BY <1>19, UnsubRemoveKeeps
<1>20. CASE BeginFlush(t)
  BY <1>20, BeginFlushKeeps
<1>21. CASE FlushPending(t)
  BY <1>21, FlushPendingKeeps
<1>22. CASE FlushSend(t)
  BY <1>22, FlushSendKeeps
<1>23. CASE FlushFails(t)
  BY <1>23, FlushFailsKeeps
<1>24. CASE FlushTimeout(t)
  BY <1>24, FlushTimeoutKeeps
<1>25. CASE FlushOk(t)
  BY <1>25, FlushOkKeeps
<1>26. CASE \E e \in todo : ReplayNext(t, e)
  BY <1>26, ReplayNextKeeps
<1> QED
  BY <1>1, <1>2, <1>3, <1>4, <1>5, <1>6, <1>7, <1>8, <1>9, <1>10, <1>11, <1>12, <1>13, <1>14,
     <1>15, <1>16, <1>17, <1>18, <1>19, <1>20, <1>21, <1>22, <1>23, <1>24, <1>25, <1>26 DEF Step

\* What the application and the read task do keeps the invariant.
LEMMA ApplicationKeeps ==
    ASSUME NEW own, IInvOf(own), (\E t \in Apps : Application(t)) \/ ReadTask
    PROVE  IInvOf(own)'
<1>1. ASSUME NEW t \in Apps, Application(t)
      PROVE  IInvOf(own)'
  BY <1>1, StartKeeps, StartUnsubscribeKeeps, StartCloseKeeps DEF Application
<1>2. CASE ReadTask
  BY <1>2, ReadMsgKeeps, UnblockKeeps, ReadSubackKeeps, ReadPongKeeps, ReadEofKeeps DEF ReadTask
<1> QED
  BY <1>1, <1>2

\* The invariant is inductive: no step breaks it.
LEMMA NextKeeps ==
    ASSUME IInv, [Next]_vars
    PROVE  IInv'
<1>1. PICK own \in [Nat -> Nat] : IInvOf(own)
  BY DEF IInv
<1>2. CASE Serve
  BY <1>1, <1>2, ServeKeeps DEF IInv
<1>3. ASSUME IInvOf(own)'
      PROVE  IInv'
  BY <1>3 DEF IInv
<1>4. CASE \E t \in Apps : Application(t)
  BY <1>1, <1>3, <1>4, ApplicationKeeps
<1>5. CASE \E t \in Tasks : Step(t)
  BY <1>1, <1>3, <1>5, StepKeeps
<1>6. CASE LoopStep
  BY <1>1, <1>3, <1>6, LoopKeeps
<1>7. CASE ReadTask
  BY <1>1, <1>3, <1>7, ApplicationKeeps
<1>8. CASE WriteFails
  BY <1>1, <1>3, <1>8, WriteFailsKeeps
<1>9. CASE Faults
  <2>1. PICK k \in 0..Len(to_client), restart \in BOOLEAN : LoseLink(k, restart)
    BY <1>9, ClientAssumption DEF Faults
  <2> QED
    BY <1>1, <1>3, <2>1, LoseLinkKeeps
<1>10. CASE \E h \in Handles : Receive(h) \/ DropSubscription(h)
  BY <1>1, <1>3, <1>10, HandlesKeep
<1>11. CASE \E i \in DOMAIN server_subs : SendMsg(i)
  BY <1>1, <1>3, <1>11, SendMsgKeeps
<1>12. CASE UNCHANGED vars
  BY <1>1, <1>3, <1>12, StutterKeeps
<1> QED
  BY <1>2, <1>4, <1>5, <1>6, <1>7, <1>8, <1>9, <1>10, <1>11, <1>12 DEF Next

Counting == INSTANCE FiniteSetTheorems

\* The theorems on finite sets are about the sets and numbers that the client's module counts.
LEMMA SameCount ==
    ASSUME NEW S
    PROVE  /\ IsFiniteSet(S) <=> Counting!IsFiniteSet(S)
           /\ Cardinality(S) = Counting!Cardinality(S)
<1>1. IsFiniteSet(S) <=> Counting!IsFiniteSet(S)
  BY DEF IsFiniteSet, Counting!IsFiniteSet
<1>2. Cardinality(S) = Counting!Cardinality(S)
  BY DEF Cardinality, Counting!Cardinality
<1> QED
  BY <1>1, <1>2

\* The application's tasks, which are finitely many, can be counted.
LEMMA CountedHolds == Counted /\ Cardinality({}) = 0
<1>1. ASSUME NEW V \in SUBSET Apps
      PROVE  /\ Cardinality(V) \in Nat
             /\ \A W \in SUBSET V : Cardinality(W) <= Cardinality(V)
             /\ \A t \in Apps \ V : Cardinality(V \cup {t}) = Cardinality(V) + 1
  <2>1. Counting!IsFiniteSet(Apps)
    BY ClientAssumption, SameCount
  <2>2. Counting!IsFiniteSet(V)
    BY <2>1, Counting!FS_Subset
  <2>3. Counting!Cardinality(V) \in Nat
    BY <2>2, Counting!FS_CardinalityType
  <2>4. ASSUME NEW W \in SUBSET V
        PROVE  Counting!Cardinality(W) <= Counting!Cardinality(V)
    BY <2>2, Counting!FS_Subset
  <2>5. ASSUME NEW t \in Apps \ V
        PROVE  Counting!Cardinality(V \cup {t}) = Counting!Cardinality(V) + 1
    BY <2>2, Counting!FS_AddElement, SMT
  <2> QED
    BY <2>3, <2>4, <2>5, SameCount
<1>2. Cardinality({}) = 0
  BY Counting!FS_EmptySet, SameCount
<1> QED
  BY <1>1, <1>2 DEF Counted

\* The client has connected and made no call: nobody owns an id yet.
LEMMA InitHolds ==
    ASSUME Init
    PROVE  IInv
<1> DEFINE own == [i \in Nat |-> 0]
<1>1. own \in [Nat -> Nat]
  OBVIOUS
<1> HIDE DEF own
<1>2. /\ link = "up" /\ to_server = <<>> /\ to_client = <<>>
      /\ server_subs = Empty /\ next_id = 1 /\ served = 0
      /\ connected = TRUE /\ write_tx = TRUE /\ writer = "alive" /\ reader = "read" /\ held = None
      /\ pending_subs = {} /\ pending_flush = {} /\ subscriptions = Empty /\ sub_counter = 1
      /\ lock = None /\ corr = 0 /\ got = 0 /\ cur = NoOne /\ todo = {} /\ remapped = Empty
      /\ tracked = Empty /\ closed = FALSE
      /\ made = 0 /\ sent = 0 /\ late = FALSE /\ flushed = [served |-> TRUE, late |-> FALSE] /\ restarted = FALSE
  BY DEF Init
<1>3. /\ pc = [t \in Tasks |-> IF t = LoopTask THEN "sleep" ELSE "idle"]
      /\ goal = [t \in Tasks |-> "none"]
      /\ hand = [t \in Tasks |-> 0] /\ target = [t \in Tasks |-> 0] /\ attempts = [t \in Tasks |-> 0]
      /\ id = [h \in Handles |-> 0] /\ rx = [h \in Handles |-> TRUE] /\ buffer = [h \in Handles |-> <<>>]
  BY DEF Init
<1>4. /\ DOMAIN to_server = {} /\ DOMAIN to_client = {} /\ DOMAIN server_subs = {} /\ DOMAIN subscriptions = {}
      /\ DOMAIN remapped = {} /\ DOMAIN tracked = {} /\ cur.stable = 0 /\ cur.handle = 0
  BY <1>2, EmptyMap, SMT DEF NoOne
<1>5. Phase = "free" /\ LoopTask \in Tasks /\ \A t \in Tasks : t # None /\ pc[t] \in {"sleep", "idle"} /\ goal[t] = "none"
  BY <1>2, <1>3, ClientAssumption DEF Phase, Tasks
<1>6. Types
  <2>1. NetTypes
    BY <1>2, SMT DEF NetTypes
  <2>2. ServerTypes /\ HistoryTypes
    <3>1. 1 \in Nat \ {0} /\ 0 \in Nat
      BY SMT
    <3> QED
      BY <1>2, <1>4, <3>1 DEF ServerTypes, HistoryTypes
  <2>3. ConnTypes
    BY <1>2, <1>4 DEF ConnTypes
  <2>4. HolderTypes
    <3>1. NoOne \in [stable : Nat, handle : Handles \cup {0}]
      BY DEF NoOne
    <3> QED
      BY <1>2, <1>4, <3>1 DEF HolderTypes
  <2>5. ClientTypes
    BY <1>2, <1>4 DEF ClientTypes
  <2>6. CallTypes
    BY <1>3, ClientAssumption, SMT DEF CallTypes, PC, Goals
  <2>7. HandleTypes
    <3>1. MaxHandles \in Nat /\ SubBuffer \in Nat
      BY ClientAssumption
    <3>2. made \in 0..MaxHandles /\ id \in [Handles -> Nat] /\ rx \in [Handles -> BOOLEAN]
      BY <1>2, <1>3, <3>1, SMT
    <3>3. buffer \in [Handles -> Seq(Handles)] /\ \A h \in Handles : Len(buffer[h]) <= SubBuffer
      BY <1>3, <3>1, SMT
    <3> QED
      BY <3>2, <3>3 DEF HandleTypes
  <2> QED
    BY <2>1, <2>2, <2>3, <2>4, <2>5, <2>6, <2>7 DEF Types
<1>7. Locked
  <2>1. Agree
    BY <1>2, <1>5 DEF Agree, Holding, SubPhases, FlushPhases
  <2>2. Phase \notin SubPhases /\ Phase # "replay"
    BY <1>5 DEF SubPhases
  <2> QED
    BY <1>2, <1>5, <2>1, <2>2 DEF Locked
<1>8. Room
  <2>1. {t \in Apps : Waiting(t)} = {}
    <3>1. Apps \subseteq Tasks /\ "none" \notin Subscribing
      BY DEF Tasks, Subscribing
    <3> QED
      BY <1>5, <3>1 DEF Waiting
  <2>2. Cardinality({t \in Apps : Waiting(t)}) = 0
    BY <2>1, CountedHolds
  <2> QED
    <3>1. made + Cardinality({t \in Apps : Waiting(t)}) <= MaxHandles
      BY <1>2, <2>2, ClientAssumption, SMT
    <3> QED
      BY <3>1, CountedHolds DEF Room
<1>9. Network
  BY <1>2, <1>5 DEF Network, CanSend
<1>10. Hands
  BY <1>5 DEF Hands
<1>11. Asked
  BY <1>2, <1>4, OneOfNothing DEF Asked
<1>12. Pinged
  <2>1. FlushConfirms /\ served + Len(to_server) = sent
    BY <1>2, SMT DEF FlushConfirms
  <2> QED
    BY <1>2, <1>4, <1>5, <2>1, OneOfNothing DEF Pinged
<1>13. Kept
  <2>1. Phase \notin SubPhases /\ \A h \in Handles : id[h] = 0
    BY <1>3, <1>5 DEF SubPhases
  <2> QED
    BY <1>2, <1>4, <2>1 DEF Kept
<1>14. Single
  BY <1>2, <1>4 DEF Single
<1>15. Owned(own)
  <2>1. RoutedToOwner
    BY <1>3, SMT DEF RoutedToOwner
  <2> QED
    BY <1>2, <1>4, <2>1 DEF Owned
<1>16. Known(own)
  BY <1>3, <1>4, <1>5 DEF Known
<1>17. Restored
  BY <1>2, <1>4 DEF Restored
<1>18. IInvOf(own)
  BY <1>6, <1>7, <1>8, <1>9, <1>10, <1>11, <1>12, <1>13, <1>14, <1>15, <1>16, <1>17 DEF IInvOf
<1> QED
  BY <1>1, <1>18 DEF IInv

-----------------------------------------------------------------------------
(* The theorems *)

\* What the client keeps always holds, for every number of tasks, calls, subscriptions, messages,
\* lost connections and restarts of the server.
THEOREM ClientInvariant == Spec => []IInv
<1>1. Init => IInv
  BY InitHolds
<1>2. IInv /\ [Next]_vars => IInv'
  BY NextKeeps
<1> QED
  BY <1>1, <1>2, PTL DEF Spec

\* Every variable keeps its type; in particular no channel of a subscription holds more than
\* DEFAULT_SUB_BUFFER messages.
THEOREM ClientTypesHold == Spec => []ClientTypeOK
<1>1. ASSUME IInv
      PROVE  ClientTypeOK
  <2>1. NetTypes /\ ServerTypes /\ ConnTypes /\ HolderTypes /\ ClientTypes /\ CallTypes /\ HandleTypes
    BY <1>1 DEF IInv, IInvOf, Types
  <2>2. /\ link \in {"up", "down"} /\ to_server \in Seq(Frame) /\ to_client \in Seq(Reply)
        /\ lock \in Tasks \cup {None} /\ corr \in Nat /\ got \in Nat
    BY <2>1 DEF NetTypes, HolderTypes
  <2>3. /\ DOMAIN server_subs \subseteq Nat /\ Range(server_subs) \subseteq Handles
        /\ next_id \in Nat /\ served \in Nat
    BY <2>1 DEF ServerTypes, Range
  <2>4. /\ connected \in BOOLEAN /\ write_tx \in BOOLEAN /\ writer \in {"alive", "gone"}
        /\ reader \in {"read", "blocked", "gone"} /\ sub_counter \in Nat
        /\ pending_subs \subseteq Nat /\ pending_flush \subseteq Nat
        /\ (reader = "blocked") <=> held # None
    BY <2>1 DEF ConnTypes
  <2>5. DOMAIN subscriptions \subseteq Nat /\ Range(subscriptions) \subseteq Handles
    BY <2>1 DEF ConnTypes, Range
  <2>6. /\ DOMAIN tracked \subseteq Nat /\ Range(tracked) \subseteq [handle : Handles, server : Nat]
        /\ closed \in BOOLEAN
    BY <2>1 DEF ClientTypes, Range
  <2>7. /\ pc \in [Tasks -> PC] /\ hand \in [Tasks -> Handles \cup {0}]
        /\ attempts \in [Tasks -> 0..MaxAttempts]
    BY <2>1 DEF CallTypes
  <2> QED
    BY <2>1, <2>2, <2>3, <2>4, <2>5, <2>6, <2>7 DEF ClientTypeOK, HandleTypes
<1> QED
  BY <1>1, ClientInvariant, PTL

\* The channel of a subscription is given only what the server sent for that subscription (read_loop
\* in connection.rs), through every reconnect and also where a server that started again
\* numbers from one and gives an id to another subscription.
THEOREM ClientRoutesToOwner == Spec => []RoutedToOwner
<1>1. ASSUME IInv
      PROVE  RoutedToOwner
  BY <1>1 DEF IInv, IInvOf, Owned
<1> QED
  BY <1>1, ClientInvariant, PTL

\* Where no flush has timed out on the connection, a flush that returns Ok was answered after the
\* server had handled every frame given to it before (Connection::flush).
THEOREM ClientFlushConfirms == Spec => []FlushConfirms
<1>1. ASSUME IInv
      PROVE  FlushConfirms
  BY <1>1 DEF IInv, IInvOf, Pinged
<1> QED
  BY <1>1, ClientInvariant, PTL

\* After a reconnect every subscription that is kept is live under exactly one id of the server, the
\* one unsubscribe will use and its messages are routed by (Client::replay_subscriptions).
THEOREM ClientReplayRestores == Spec => []ReplayRestores
<1>1. ASSUME IInv
      PROVE  ReplayRestores
  <2>1. PICK own \in [Nat -> Nat] : IInvOf(own)
    BY <1>1 DEF IInv
  <2>2. Locked /\ Single /\ Owned(own) /\ (~ restarted => Restored)
    BY <2>1 DEF IInvOf
  <2> SUFFICES ASSUME Quiet, ~ restarted, NEW s \in DOMAIN tracked
               PROVE  LET e == tracked[s]
                      IN  /\ {i \in DOMAIN server_subs : server_subs[i] = e.handle} = {e.server}
                          /\ rx[e.handle] => e.server \in DOMAIN subscriptions /\ subscriptions[e.server] = e.handle
    BY DEF ReplayRestores
  <2>3. Phase = "free" /\ link = "up"
    BY DEF Quiet, Phase
  <2>4. cur = NoOne
    BY <2>2, <2>3 DEF Locked
  <2>5. ~ Replaying
    BY <2>3, <2>4 DEF Replaying, NoOne
  <2>6. Live(tracked[s].server, tracked[s].handle)
    BY <2>2, <2>3, <2>5 DEF Restored
  <2>7. /\ tracked[s].server \in DOMAIN server_subs /\ server_subs[tracked[s].server] = tracked[s].handle
        /\ rx[tracked[s].handle] => tracked[s].server \in DOMAIN subscriptions
    BY <2>6 DEF Live
  <2>8. \A i \in DOMAIN server_subs : server_subs[i] = tracked[s].handle => i = tracked[s].server
    BY <2>2, <2>7 DEF Single
  <2>9. tracked[s].server \in DOMAIN subscriptions => subscriptions[tracked[s].server] = tracked[s].handle
    BY <2>2, <2>7 DEF Owned
  <2> QED
    BY <2>7, <2>8, <2>9
<1> QED
  BY <1>1, ClientInvariant, PTL

=============================================================================

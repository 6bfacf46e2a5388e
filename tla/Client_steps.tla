---------------------------- MODULE Client_steps ----------------------------
(***************************************************************************)
(* What queues, maps, the lock and the parts of a step do to the invariant *)
(* of Client, and that what reaches the client from outside preserves it:  *)
(* the read and the write task, the network and the server, and the steps  *)
(* by which a call takes a SUBACK or a new connection; and the steps of    *)
(* calls that do not use the connection. Client_proofs has the other steps *)
(* of a call and the theorems.                                             *)
(***************************************************************************)
EXTENDS Client_inv, TLAPS

USE Zenon

-----------------------------------------------------------------------------
(* Queues *)

\* Appending to a queue adds one element behind the others.
LEMMA AppendAt ==
    ASSUME NEW S, NEW q \in Seq(S), NEW x \in S
    PROVE  /\ Append(q, x) \in Seq(S)
           /\ Len(Append(q, x)) = Len(q) + 1
           /\ \A j \in DOMAIN Append(q, x) :
                  \/ j \in DOMAIN q /\ Append(q, x)[j] = q[j]
                  \/ j = Len(q) + 1 /\ Append(q, x)[j] = x
BY SMT

\* Taking the first element moves the others up by one.
LEMMA TailAt ==
    ASSUME NEW S, NEW q \in Seq(S), q # <<>>
    PROVE  /\ Tail(q) \in Seq(S)
           /\ Len(Tail(q)) = Len(q) - 1
           /\ 1 \in DOMAIN q /\ Head(q) = q[1] /\ Head(q) \in S
           /\ \A j \in DOMAIN Tail(q) : j \in Nat /\ j + 1 \in DOMAIN q /\ j + 1 # 1 /\ Tail(q)[j] = q[j + 1]
BY SMT

\* What is left of a queue that is cut off is where it was.
LEMMA CutAt ==
    ASSUME NEW S, NEW q \in Seq(S), NEW k \in 0..Len(q)
    PROVE  /\ SubSeq(q, 1, k) \in Seq(S)
           /\ \A j \in DOMAIN SubSeq(q, 1, k) : j \in DOMAIN q /\ SubSeq(q, 1, k)[j] = q[j]
BY SMT

\* A queue's indices are numbers.
LEMMA IndexOf ==
    ASSUME NEW S, NEW q \in Seq(S)
    PROVE  Len(q) \in Nat /\ \A j \in DOMAIN q : j \in Nat /\ 1 <= j /\ j <= Len(q) /\ q[j] \in S
BY SMT

\* Another frame than f does not count.
LEMMA OneOfOther ==
    ASSUME NEW f, NEW r, NEW q \in Seq(Frame), NEW p \in Seq(Reply), OneOf(f, r, q, p),
           NEW x \in Frame, x.type # f
    PROVE  OneOf(f, r, Append(q, x), p)
BY AppendAt, ZenonT(40) DEF OneOf

\* Nor does another answer than r.
LEMMA OneOfOtherAnswer ==
    ASSUME NEW f, NEW r, NEW q \in Seq(Frame), NEW p \in Seq(Reply), OneOf(f, r, q, p),
           NEW x \in Reply, x.type # r
    PROVE  OneOf(f, r, q, Append(p, x))
BY AppendAt DEF OneOf

\* Taking a frame keeps it so.
LEMMA OneOfTail ==
    ASSUME NEW f, NEW r, NEW q \in Seq(Frame), NEW p \in Seq(Reply), OneOf(f, r, q, p), q # <<>>
    PROVE  OneOf(f, r, Tail(q), p)
<1>1. \A j \in DOMAIN Tail(q) : j \in Nat /\ j + 1 \in DOMAIN q /\ Tail(q)[j] = q[j + 1]
  BY TailAt
<1>2. \A i, j \in Nat : i + 1 = j + 1 => i = j
  BY SMT
<1> QED
  BY <1>1, <1>2, ZenonT(40) DEF OneOf

\* So does taking an answer.
LEMMA OneOfTailAnswer ==
    ASSUME NEW f, NEW r, NEW q \in Seq(Frame), NEW p \in Seq(Reply), OneOf(f, r, q, p), p # <<>>
    PROVE  OneOf(f, r, q, Tail(p))
<1>1. \A j \in DOMAIN Tail(p) : j \in Nat /\ j + 1 \in DOMAIN p /\ Tail(p)[j] = p[j + 1]
  BY TailAt
<1>2. \A i, j \in Nat : i + 1 = j + 1 => i = j
  BY SMT
<1> QED
  BY <1>1, <1>2 DEF OneOf

\* The f is taken and answered.
LEMMA OneOfAnswered ==
    ASSUME NEW f, NEW r, NEW q \in Seq(Frame), NEW p \in Seq(Reply), OneOf(f, r, q, p), q # <<>>,
           Head(q).type = f, NEW x \in Reply
    PROVE  /\ OneOf(f, r, Tail(q), Append(p, x))
           /\ \A j \in DOMAIN Tail(q) : Tail(q)[j].type # f
           /\ \A j \in DOMAIN p : p[j].type # r
<1>1. /\ 1 \in DOMAIN q /\ q[1].type = f
      /\ \A j \in DOMAIN Tail(q) : j \in Nat /\ j + 1 \in DOMAIN q /\ j + 1 # 1 /\ Tail(q)[j] = q[j + 1]
  BY TailAt
<1>2. (\A j \in DOMAIN Tail(q) : Tail(q)[j].type # f) /\ (\A j \in DOMAIN p : p[j].type # r)
  BY <1>1 DEF OneOf
<1>3. \A j \in DOMAIN Append(p, x) : Append(p, x)[j].type = r => j = Len(p) + 1
  BY <1>2, AppendAt
<1> QED
  BY <1>2, <1>3 DEF OneOf

\* The answer is taken: none is left.
LEMMA OneOfTaken ==
    ASSUME NEW f, NEW r, NEW q \in Seq(Frame), NEW p \in Seq(Reply), OneOf(f, r, q, p), p # <<>>,
           Head(p).type = r
    PROVE  /\ \A j \in DOMAIN Tail(p) : Tail(p)[j].type # r
           /\ \A j \in DOMAIN q : q[j].type # f
<1>1. /\ 1 \in DOMAIN p /\ p[1].type = r
      /\ \A j \in DOMAIN Tail(p) : j \in Nat /\ j + 1 \in DOMAIN p /\ j + 1 # 1 /\ Tail(p)[j] = p[j + 1]
  BY TailAt
<1> QED
  BY <1>1 DEF OneOf

\* A connection that is lost leaves some of the answers.
LEMMA OneOfCut ==
    ASSUME NEW f, NEW r, NEW q \in Seq(Frame), NEW p \in Seq(Reply), OneOf(f, r, q, p),
           NEW k \in 0..Len(p)
    PROVE  OneOf(f, r, <<>>, SubSeq(p, 1, k))
<1>1. DOMAIN <<>> = {}
  BY SMT
<1>2. \A j \in DOMAIN SubSeq(p, 1, k) : j \in DOMAIN p /\ SubSeq(p, 1, k)[j] = p[j]
  BY CutAt
<1> QED
  BY <1>1, <1>2 DEF OneOf

\* Nothing is under way without frames, where no answer is; and on a new connection.
LEMMA OneOfNothing ==
    ASSUME NEW f, NEW r
    PROVE  /\ OneOf(f, r, <<>>, <<>>)
           /\ \A q, p : OneOf(f, r, q, p) => OneOf(f, r, <<>>, p)
<1>1. DOMAIN <<>> = {}
  BY SMT
<1> QED
  BY <1>1 DEF OneOf

-----------------------------------------------------------------------------
(* Maps *)

\* EXCEPT changes one value of a function.
LEMMA ExceptAt ==
    ASSUME NEW D, NEW S, NEW f \in [D -> S], NEW x, NEW v \in S
    PROVE  /\ [f EXCEPT ![x] = v] \in [D -> S]
           /\ \A d \in D : [f EXCEPT ![x] = v][d] = IF d = x THEN v ELSE f[d]
OBVIOUS

\* The empty map has no keys.
LEMMA EmptyMap == DOMAIN Empty = {}
BY DEF Empty

-----------------------------------------------------------------------------
(* The lock *)

\* A task that is where a holder can be holds the lock, and is what the phase says.
LEMMA PhaseOf ==
    ASSUME Agree, NEW t \in Tasks, pc[t] \in Holding
    PROVE  lock = t /\ Phase = pc[t]
BY ClientAssumption DEF Agree, Phase, Tasks

\* The holder goes on.
LEMMA PhaseMoves ==
    ASSUME CallTypes, Agree, NEW t \in Tasks, NEW l \in Holding, pc[t] \in Holding, Goto(t, l), lock' = lock
    PROVE  Agree' /\ Phase' = l /\ pc'[t] = l /\ \A u \in Tasks : u # t => pc'[u] = pc[u]
<1>1. pc'[t] = l /\ \A u \in Tasks : u # t => pc'[u] = pc[u]
  BY DEF Goto, CallTypes
<1>2. Agree'
  BY <1>1 DEF Agree
<1>3. lock' = t /\ t # None
  BY ClientAssumption DEF Agree, Tasks
<1> QED
  BY <1>1, <1>2, <1>3 DEF Phase

\* The holder drops the lock.
LEMMA PhaseEnds ==
    ASSUME CallTypes, Agree, NEW t \in Tasks, NEW l, l \notin Holding, pc[t] \in Holding, Goto(t, l), lock' = None
    PROVE  Agree' /\ Phase' = "free" /\ pc'[t] = l /\ \A u \in Tasks : u # t => pc'[u] = pc[u]
<1>1. pc'[t] = l /\ \A u \in Tasks : u # t => pc'[u] = pc[u]
  BY DEF Goto, CallTypes
<1>2. \A u \in Tasks : u # None
  BY ClientAssumption DEF Tasks
<1>3. Agree'
  BY <1>1, <1>2 DEF Agree
<1> QED
  BY <1>1, <1>3 DEF Phase

-----------------------------------------------------------------------------
(* What each part of the invariant is about *)

\* The room that is left for subscriptions does not shrink.
LEMMA RoomFrame ==
    ASSUME Room, made \in Nat, made' = made, \A u \in Apps : Waiting(u)' => Waiting(u)
    PROVE  Room'
<1> DEFINE W == {t \in Apps : Waiting(t)}
<1> DEFINE V == {t \in Apps : Waiting(t)'}
<1>1. V \subseteq W /\ W \subseteq Apps
  OBVIOUS
<1>2. Counted
  BY DEF Room
<1>3. Cardinality(V) <= Cardinality(W) /\ Cardinality(V) \in Nat /\ Cardinality(W) \in Nat
  BY <1>1, <1>2 DEF Counted
<1>4. made + Cardinality(W) <= MaxHandles
  BY DEF Room
<1>5. MaxHandles \in Nat
  BY ClientAssumption
<1> HIDE DEF W, V
<1>6. made + Cardinality(V) <= MaxHandles
  BY <1>3, <1>4, <1>5, SMT
<1> QED
  BY <1>2, <1>6 DEF Room, V

\* Whether the connection can be used.
LEMMA NetworkFrame ==
    ASSUME Network, UNCHANGED <<link, write_tx, writer>>, Phase' = "connecting" => Phase = "connecting"
    PROVE  Network'
BY DEF Network, CanSend

\* What a step appends to the queue to the server is at its end.
Sends(x) == to_server' = Append(to_server, x) /\ sent' = sent + 1
SendsNothing == UNCHANGED <<to_server, sent>>

\* The SUB and the SUBACK under way.
LEMMA AskedFrame ==
    ASSUME Asked, NetTypes, to_client' = to_client, Asking => Asking' /\ cur' = cur,
           SendsNothing \/ \E x \in Frame : x.type # "SUB" /\ Sends(x)
    PROVE  Asked'
<1>1. CASE SendsNothing
  BY <1>1 DEF Asked, SendsNothing
<1>2. ASSUME NEW x \in Frame, x.type # "SUB", Sends(x) PROVE Asked'
  <2>1. OneOf("SUB", "SUBACK", to_server', to_client')
    BY <1>2, OneOfOther DEF Asked, NetTypes, Sends
  <2>2. \A j \in DOMAIN to_server' : to_server'[j].type = "SUB" => j \in DOMAIN to_server /\ to_server'[j] = to_server[j]
    BY <1>2, AppendAt DEF NetTypes, Sends
  <2> QED
    BY <2>1, <2>2 DEF Asked
<1> QED
  BY <1>1, <1>2

\* The PING and the PONG under way.
LEMMA PingedFrame ==
    ASSUME Pinged, NetTypes, ServerTypes, HistoryTypes, UNCHANGED <<link, served, to_client, late>>,
           SendsNothing \/ \E x \in Frame : x.type # "PING" /\ Sends(x),
           pending_flush' \subseteq {corr'},
           pending_flush' # {} => got' = 0 /\ Phase' \in {"flush_send", "flush_wait", "flush_expired"},
           Pinging => Pinging' /\ target'[lock'] = target[lock],
           Phase' = "flush_send" /\ got' # 0 => Phase = "flush_send" /\ got # 0,
           Phase' = "flush_wait" /\ got' # 0 =>
               Phase = "flush_wait" /\ got # 0 /\ target'[lock'] = target[lock],
           FlushConfirms'
    PROVE  Pinged'
<1>1. /\ link' = "up" => served' + Len(to_server') = sent'
      /\ \A j \in DOMAIN to_server' : to_server'[j].type = "PING" =>
             j \in DOMAIN to_server /\ to_server'[j] = to_server[j]
      /\ OneOf("PING", "PONG", to_server, to_client) => OneOf("PING", "PONG", to_server', to_client')
  <2>1. CASE SendsNothing
    BY <2>1 DEF SendsNothing, Pinged
  <2>2. ASSUME NEW x \in Frame, x.type # "PING", Sends(x)
        PROVE  <1>1!:
    <3>2. Len(to_server') = Len(to_server) + 1 /\ Len(to_server) \in Nat
      BY <2>2, AppendAt, IndexOf DEF NetTypes, Sends
    <3>3. link' = "up" => served' + Len(to_server') = sent'
      <4>1. served \in Nat /\ sent \in Nat /\ served' = served /\ sent' = sent + 1
        BY <2>2 DEF Sends, ServerTypes, HistoryTypes
      <4>2. link' = "up" => served + Len(to_server) = sent
        BY DEF Pinged
      <4> QED
        BY <3>2, <4>1, <4>2, SMT
    <3>4. \A j \in DOMAIN to_server' : to_server'[j].type = "PING" =>
              j \in DOMAIN to_server /\ to_server'[j] = to_server[j]
      BY <2>2, AppendAt, ZenonT(40) DEF NetTypes, Sends
    <3>5. OneOf("PING", "PONG", to_server, to_client) => OneOf("PING", "PONG", to_server', to_client')
      BY <2>2, OneOfOther DEF NetTypes, Sends
    <3> QED
      BY <3>3, <3>4, <3>5
  <2> QED
    BY <2>1, <2>2
<1>2. ~ late' => \A j \in DOMAIN to_server' : to_server'[j].type = "PING" =>
          Pinging' /\ (link' = "up" => target'[lock'] <= served' + j)
  BY <1>1 DEF Pinged
<1>3. ~ late' => \A j \in DOMAIN to_client' : to_client'[j].type = "PONG" => Pinging' /\ target'[lock'] <= served'
  BY DEF Pinged
<1>4. ~ late' => /\ Phase' = "flush_send" => got' = 0
                 /\ Phase' = "flush_wait" /\ got' # 0 => target'[lock'] <= served'
  BY DEF Pinged
<1> QED
  BY <1>1, <1>2, <1>3, <1>4 DEF Pinged

\* The entries of Client.subscriptions.
LEMMA KeptFrame ==
    ASSUME Kept, HolderTypes, UNCHANGED <<made, id, tracked>>, todo' \subseteq todo,
           \/ cur' = NoOne /\ Phase' \notin SubPhases
           \/ cur' = cur /\ (Phase' \in SubPhases => Phase \in SubPhases /\ lock' = lock)
    PROVE  Kept'
<1>1. \A e \in todo : e.stable # 0
  BY DEF HolderTypes
<1>2. NoOne.stable = 0
  BY DEF NoOne
<1> QED
  BY <1>1, <1>2 DEF Kept

\* The subscriptions of the server.
LEMMA SingleFrame ==
    ASSUME Single, Asked, NetTypes, UNCHANGED <<server_subs, made>>, todo' \subseteq todo, Asking => cur' = cur,
           SendsNothing \/ \E x \in Frame : x.type # "SUB" /\ Sends(x),
           Phase' \in {"sub_pending", "sub_send"} => \A i \in DOMAIN server_subs : server_subs[i] # cur'.handle
    PROVE  Single'
<1>1. \A j \in DOMAIN to_server' : to_server'[j].type = "SUB" =>
          j \in DOMAIN to_server /\ to_server'[j] = to_server[j]
  BY AppendAt, ZenonT(40) DEF NetTypes, Sends, SendsNothing
<1>2. \A j \in DOMAIN to_server' : to_server'[j].type = "SUB" =>
          \A i \in DOMAIN server_subs : server_subs[i] # cur'.handle
  BY <1>1 DEF Asked, Single
<1> QED
  BY <1>2 DEF Single

\* A step of the holder, or of a task that takes the lock: no other task is asking.
LEMMA RoomHolder ==
    ASSUME Agree, Room, NEW t \in Tasks, lock = t \/ lock = None, made \in Nat, made' = made,
           \A u \in Tasks : u # t => pc'[u] = pc[u] /\ goal'[u] = goal[u],
           Waiting(t)' => Waiting(t)
    PROVE  Room'
<1>1. \A u \in Apps : u \in Tasks /\ u # None
  BY ClientAssumption DEF Tasks
<1>2. \A u \in Tasks : u # t /\ u # None => pc[u] \notin SubPhases
  BY DEF Agree, Holding
<1>3. \A u \in Apps : u # t /\ Waiting(u)' => Waiting(u)
  BY <1>1, <1>2 DEF Waiting
<1>4. \A u \in Apps : Waiting(u)' => Waiting(u)
  BY <1>3
<1> QED
  BY <1>4, RoomFrame

-----------------------------------------------------------------------------
(* The read task *)

\* No call moves.
LEMMA NoCallMoves ==
    ASSUME NEW own, IInvOf(own), UNCHANGED <<lock, corr, cur, todo, remapped>>, UNCHANGED client,
           UNCHANGED call, UNCHANGED <<made, id, rx>>
    PROVE  /\ Phase' = Phase /\ Agree' /\ Room' /\ Hands' /\ Kept' /\ CallTypes' /\ ClientTypes'
           /\ got' \in Nat => HolderTypes'
           /\ (got' # 0 => Phase \in {"sub_wait", "flush_send", "flush_wait", "flush_expired"}) => Locked'
           /\ UNCHANGED <<pc, goal, hand, target, attempts>> /\ UNCHANGED <<tracked, closed>>
<1>1. /\ HolderTypes /\ ClientTypes /\ CallTypes /\ HandleTypes /\ Locked /\ Agree /\ Room /\ Hands /\ Kept
  BY DEF IInvOf, Types, Locked
<1>2. UNCHANGED <<pc, goal, hand, target, attempts>> /\ UNCHANGED <<tracked, closed>>
  BY DEF call, client
<1>3. Phase' = Phase /\ Agree'
  BY <1>1, <1>2 DEF Phase, Agree
<1>4. Room'
  <2>1. made \in Nat
    BY <1>1, SMT DEF HandleTypes
  <2>2. \A u \in Apps : Waiting(u)' => Waiting(u)
    BY <1>2 DEF Waiting
  <2> QED
    BY <1>1, <2>1, <2>2, RoomFrame
<1>5. Hands' /\ CallTypes' /\ ClientTypes'
  BY <1>1, <1>2 DEF Hands, CallTypes, ClientTypes
<1>6. Kept'
  BY <1>1, <1>2, <1>3, KeptFrame
<1>7. got' \in Nat => HolderTypes'
  BY <1>1 DEF HolderTypes
<1>8. (got' # 0 => Phase \in {"sub_wait", "flush_send", "flush_wait", "flush_expired"}) => Locked'
  BY <1>1, <1>2, <1>3 DEF Locked
<1> QED
  BY <1>2, <1>3, <1>4, <1>5, <1>6, <1>7, <1>8

\* A step of the read task: of what is under way to the client, something may be gone.
LEMMA Reads ==
    ASSUME NEW own, IInvOf(own), UNCHANGED <<lock, corr, cur, todo, remapped>>, UNCHANGED client,
           UNCHANGED call, UNCHANGED <<made, id, rx>>, UNCHANGED <<link, to_server>>, UNCHANGED server,
           UNCHANGED <<write_tx, writer>>, UNCHANGED <<sent, late, flushed, restarted>>,
           to_client' \in Seq(Reply), \A j \in DOMAIN to_client' : \E k \in DOMAIN to_client : to_client'[j] = to_client[k],
           got' \in Nat, ConnTypes', HandleTypes', RoutedToOwner', Locked', Asked', Pinged',
           \A i \in DOMAIN subscriptions' : i \in DOMAIN subscriptions /\ subscriptions'[i] = subscriptions[i],
           \A i \in DOMAIN subscriptions \ DOMAIN subscriptions' : ~ rx[own[i]],
           held' # None => held'.of = own[held'.id] /\ Given(held'.id),
           Phase = "sub_wait" /\ got' # 0 => own[got'] = cur.handle /\ Given(got'),
           ~ restarted /\ link = "up" /\ Wanted /\ Phase = "sub_wait" /\ got' # 0 => got' \in DOMAIN server_subs
    PROVE  IInvOf(own)'
<1>1. /\ NetTypes /\ ServerTypes /\ HistoryTypes /\ Network /\ Single /\ Owned(own)
      /\ (~ restarted => Known(own) /\ Restored)
  BY DEF IInvOf, Types
<1>2. UNCHANGED <<server_subs, next_id, served>>
  BY DEF server
<1>3. /\ Phase' = Phase /\ Agree' /\ Room' /\ Hands' /\ Kept' /\ CallTypes' /\ ClientTypes' /\ HolderTypes'
      /\ UNCHANGED <<pc, goal, hand, target, attempts>> /\ UNCHANGED <<tracked, closed>>
  BY NoCallMoves
<1>4. Types'
  BY <1>1, <1>2, <1>3 DEF Types, NetTypes, ServerTypes, HistoryTypes
<1>5. Network'
  BY <1>1, <1>3, NetworkFrame
<1>6. Single'
  BY <1>1, <1>2, <1>3 DEF Single
<1>7. Owned(own)'
  <2>1. /\ \A j \in DOMAIN to_client' : to_client'[j].type = "MSG" =>
               to_client'[j].of = own[to_client'[j].id] /\ Given(to_client'[j].id)
        /\ \A j \in DOMAIN to_client' : to_client'[j].type = "SUBACK" =>
               own[to_client'[j].id] = cur.handle /\ Given(to_client'[j].id)
    <3>1. /\ \A j \in DOMAIN to_client : to_client[j].type = "MSG" =>
                 to_client[j].of = own[to_client[j].id] /\ Given(to_client[j].id)
          /\ \A j \in DOMAIN to_client : to_client[j].type = "SUBACK" =>
                 own[to_client[j].id] = cur.handle /\ Given(to_client[j].id)
      BY <1>1 DEF Owned
    <3>2. ASSUME NEW j \in DOMAIN to_client'
          PROVE  /\ to_client'[j].type = "MSG" =>
                        to_client'[j].of = own[to_client'[j].id] /\ Given(to_client'[j].id)
                 /\ to_client'[j].type = "SUBACK" =>
                        own[to_client'[j].id] = cur.handle /\ Given(to_client'[j].id)
      <4>1. PICK k \in DOMAIN to_client : to_client'[j] = to_client[k]
        OBVIOUS
      <4> QED
        BY <3>1, <4>1
    <3> QED
      BY <3>2
  <2>2. \A i \in DOMAIN subscriptions' : subscriptions'[i] = own[i] /\ Given(i)
    BY <1>1 DEF Owned
  <2> QED
    BY <1>1, <1>2, <1>3, <2>1, <2>2 DEF Owned, Given
<1>8. ~ restarted => Known(own)'
  BY <1>1, <1>2, <1>3 DEF Known, GivenUp
<1>9. ASSUME ~ restarted, link = "up" PROVE Restored'
  <2>1. Restored /\ (Replaying' <=> Replaying) /\ (Wanted' <=> Wanted)
    BY <1>1, <1>3, <1>9 DEF Replaying, Wanted
  <2>2. ASSUME NEW i, NEW h, Live(i, h) PROVE Live(i, h)'
    <3>1. i \in DOMAIN server_subs /\ server_subs[i] = h /\ own[i] = h
      BY <1>1, <2>2 DEF Live, Owned
    <3>2. ASSUME rx[h] PROVE i \in DOMAIN subscriptions'
      <4>1. i \in DOMAIN subscriptions /\ rx[own[i]]
        BY <2>2, <3>1, <3>2 DEF Live
      <4> QED
        BY <4>1
    <3> QED
      BY <1>2, <3>1, <3>2 DEF Live
  <2>3. (\A s \in DOMAIN tracked :
               IF Replaying
               THEN \/ s = cur.stable
                    \/ \E e \in todo : e.stable = s
                    \/ s \in DOMAIN remapped /\ Live(remapped[s], tracked[s].handle)
               ELSE Live(tracked[s].server, tracked[s].handle))'
    <3>1. CASE Replaying
      <4>1. \A s \in DOMAIN tracked :
                   \/ s = cur.stable
                   \/ \E e \in todo : e.stable = s
                   \/ s \in DOMAIN remapped /\ Live(remapped[s], tracked[s].handle)
        BY <1>9, <2>1, <3>1 DEF Restored
      <4>2. \A s \in DOMAIN tracked :
                   \/ s = cur.stable
                   \/ \E e \in todo : e.stable = s
                   \/ s \in DOMAIN remapped /\ Live(remapped[s], tracked[s].handle)'
        BY <1>3, <2>2, <4>1
      <4> QED
        BY <1>3, <2>1, <3>1, <4>2 DEF Live
    <3>2. CASE ~ Replaying
      <4>1. \A s \in DOMAIN tracked : Live(tracked[s].server, tracked[s].handle)
        BY <1>9, <2>1, <3>2 DEF Restored
      <4> QED
        BY <1>2, <1>3, <2>1, <2>2, <3>2, <4>1 DEF Live
    <3> QED
      BY <3>1, <3>2
  <2>4. Wanted => \A j \in DOMAIN to_client' : to_client'[j].type = "SUBACK" => to_client'[j].id \in DOMAIN server_subs
    BY <1>9, <2>1 DEF Restored
  <2> QED
    BY <1>2, <1>3, <1>9, <2>1, <2>3, <2>4 DEF Restored
<1>10. link # "up" => Restored'
  BY DEF Restored
<1> QED
  BY <1>3, <1>4, <1>5, <1>6, <1>7, <1>8, <1>9, <1>10 DEF IInvOf

\* A step of the read task that no call waits for.
LEMMA ReadsAside ==
    ASSUME NEW own, IInvOf(own), UNCHANGED holder, UNCHANGED client,
           UNCHANGED call, UNCHANGED <<made, id, rx>>, UNCHANGED <<link, to_server>>, UNCHANGED server,
           UNCHANGED <<write_tx, writer>>, UNCHANGED <<pending_subs, pending_flush>>,
           UNCHANGED <<sent, late, flushed, restarted>>,
           to_client' = to_client \/ (to_client # <<>> /\ to_client' = Tail(to_client)),
           ConnTypes', HandleTypes', RoutedToOwner',
           \A i \in DOMAIN subscriptions' : i \in DOMAIN subscriptions /\ subscriptions'[i] = subscriptions[i],
           \A i \in DOMAIN subscriptions \ DOMAIN subscriptions' : ~ rx[own[i]],
           held' # None => held'.of = own[held'.id] /\ Given(held'.id)
    PROVE  IInvOf(own)'
<1>1. /\ NetTypes /\ HolderTypes /\ Locked /\ Asked /\ Pinged /\ Owned(own) /\ (~ restarted => Restored)
  BY DEF IInvOf, Types
<1>2. UNCHANGED <<lock, corr, got, cur, todo, remapped>> /\ served' = served
  BY DEF holder, server
<1>3. Phase' = Phase /\ UNCHANGED <<pc, goal, hand, target, attempts>>
  BY <1>2, NoCallMoves
<1>4. got' \in Nat /\ Locked'
  <2>1. got' \in Nat
    BY <1>1, <1>2 DEF HolderTypes
  <2>2. got' # 0 => Phase \in {"sub_wait", "flush_send", "flush_wait", "flush_expired"}
    BY <1>1, <1>2 DEF Locked
  <2> QED
    BY <1>2, <2>1, <2>2, NoCallMoves
<1>5. /\ to_client' \in Seq(Reply)
      /\ \A j \in DOMAIN to_client' : \E k \in DOMAIN to_client : to_client'[j] = to_client[k]
      /\ OneOf("SUB", "SUBACK", to_server, to_client')
      /\ ~ late => OneOf("PING", "PONG", to_server, to_client')
  <2>1. CASE to_client' = to_client
    BY <1>1, <2>1 DEF NetTypes, Asked, Pinged
  <2>2. CASE to_client # <<>> /\ to_client' = Tail(to_client)
    <3>1. to_client \in Seq(Reply) /\ to_server \in Seq(Frame)
      BY <1>1 DEF NetTypes
    <3>2. /\ to_client' \in Seq(Reply)
          /\ \A j \in DOMAIN to_client' : j + 1 \in DOMAIN to_client /\ to_client'[j] = to_client[j + 1]
      BY <2>2, <3>1, TailAt
    <3>3. OneOf("SUB", "SUBACK", to_server, to_client')
      BY <1>1, <2>2, <3>1, OneOfTailAnswer DEF Asked
    <3>4. ~ late => OneOf("PING", "PONG", to_server, to_client')
      BY <1>1, <2>2, <3>1, OneOfTailAnswer DEF Pinged
    <3> QED
      BY <3>2, <3>3, <3>4
  <2> QED
    BY <2>1, <2>2
<1>6. Asking' <=> Asking
  BY <1>2, <1>3 DEF Asking
<1>7. Asked'
  BY <1>1, <1>2, <1>5, <1>6 DEF Asked
<1>8. Pinged'
  <2>1. Pinging' <=> Pinging
    BY <1>2, <1>3 DEF Pinging
  <2>2. FlushConfirms' /\ target'[lock'] = target[lock]
    BY <1>1, <1>2, <1>3 DEF Pinged, FlushConfirms
  <2>3. ~ late => \A j \in DOMAIN to_client' : to_client'[j].type = "PONG" => Pinging /\ target[lock] <= served
    BY <1>1, <1>5 DEF Pinged
  <2> QED
    BY <1>1, <1>2, <1>3, <1>5, <2>1, <2>2, <2>3 DEF Pinged
<1>9. /\ Phase = "sub_wait" /\ got' # 0 => own[got'] = cur.handle /\ Given(got')
      /\ ~ restarted /\ link = "up" /\ Wanted /\ Phase = "sub_wait" /\ got' # 0 => got' \in DOMAIN server_subs
  BY <1>1, <1>2 DEF Owned, Restored
<1> QED
  BY <1>2, <1>4, <1>5, <1>7, <1>8, <1>9, Reads

\* dispatch_msg: the channel that the message goes to is that of its subscription.
LEMMA DispatchFacts ==
    ASSUME NEW own, IInvOf(own), NEW m \in MSG, m.id \in DOMAIN subscriptions, m.of = own[m.id],
           Dispatch(subscriptions[m.id], m), UNCHANGED <<made, id, rx>>
    PROVE  /\ HandleTypes' /\ RoutedToOwner' /\ reader' = "read" /\ held' = None
           /\ \A i \in DOMAIN subscriptions' : i \in DOMAIN subscriptions /\ subscriptions'[i] = subscriptions[i]
           /\ \A i \in DOMAIN subscriptions \ DOMAIN subscriptions' : ~ rx[own[i]]
<1>1. HandleTypes /\ ConnTypes /\ RoutedToOwner /\ Owned(own)
  BY DEF IInvOf, Types, Owned
<1> DEFINE h == subscriptions[m.id]
<1>2. h \in Handles /\ h = m.of /\ h = own[m.id]
  BY <1>1 DEF ConnTypes, Owned
<1>3. reader' = "read" /\ held' = None
  BY DEF Dispatch
<1>4. CASE ~ rx[h]
  <2>1. subscriptions' = Drop(subscriptions, m.id) /\ UNCHANGED buffer
    BY <1>4 DEF Dispatch
  <2>2. /\ DOMAIN subscriptions' = DOMAIN subscriptions \ {m.id}
        /\ \A k \in DOMAIN subscriptions \ {m.id} : subscriptions'[k] = subscriptions[k]
    BY <2>1 DEF Drop, Restrict
  <2>3. HandleTypes' /\ RoutedToOwner'
    BY <1>1, <2>1 DEF HandleTypes, RoutedToOwner
  <2> QED
    BY <1>2, <1>3, <1>4, <2>2, <2>3
<1>5. CASE rx[h]
  <2>1. /\ Len(buffer[h]) < SubBuffer /\ buffer' = [buffer EXCEPT ![h] = Append(buffer[h], m.of)]
        /\ UNCHANGED subscriptions
    BY <1>5 DEF Dispatch
  <2> HIDE DEF h
  <2>2. /\ buffer[h] \in Seq(Handles) /\ \A i \in DOMAIN buffer[h] : buffer[h][i] = h
    BY <1>1, <1>2 DEF HandleTypes, RoutedToOwner
  <2>3. /\ Append(buffer[h], m.of) \in Seq(Handles) /\ Len(Append(buffer[h], m.of)) <= SubBuffer
        /\ \A i \in DOMAIN Append(buffer[h], m.of) : Append(buffer[h], m.of)[i] = h
    BY <1>2, <2>1, <2>2, ClientAssumption, SMT
  <2>4. /\ buffer' \in [Handles -> Seq(Handles)]
        /\ buffer'[h] = Append(buffer[h], m.of) /\ \A g \in Handles : g # h => buffer'[g] = buffer[g]
    BY <1>1, <1>2, <2>1, <2>3, ExceptAt, ZenonT(40) DEF HandleTypes
  <2>5. HandleTypes'
    BY <1>1, <2>3, <2>4 DEF HandleTypes
  <2>6. RoutedToOwner'
    BY <1>1, <2>3, <2>4, ZenonT(40) DEF RoutedToOwner
  <2> QED
    BY <1>3, <2>1, <2>5, <2>6
<1> QED
  BY <1>4, <1>5

\* A MSG is read: it is handed over, held, or dropped.
LEMMA ReadMsgKeeps ==
    ASSUME NEW own, IInvOf(own), ReadMsg
    PROVE  IInvOf(own)'
<1> DEFINE m == Head(to_client)
<1>1. NetTypes /\ ConnTypes /\ HandleTypes /\ Owned(own) /\ RoutedToOwner
  BY DEF IInvOf, Types, Owned
<1>2. /\ reader = "read" /\ to_client # <<>> /\ m.type = "MSG" /\ to_client' = Tail(to_client)
      /\ UNCHANGED holder /\ UNCHANGED client /\ UNCHANGED call /\ UNCHANGED <<made, id, rx>>
      /\ UNCHANGED <<link, to_server>> /\ UNCHANGED server /\ UNCHANGED <<connected, write_tx, writer, sub_counter>>
      /\ UNCHANGED <<pending_subs, pending_flush>> /\ UNCHANGED <<sent, late, flushed, restarted>>
  BY DEF ReadMsg, history
<1>3. m \in Reply /\ 1 \in DOMAIN to_client /\ m = to_client[1]
  <2>1. to_client \in Seq(Reply)
    BY <1>1 DEF NetTypes
  <2> QED
    BY <1>2, <2>1, TailAt
<1>4. m \in MSG
  BY <1>2, <1>3 DEF Reply, MSG
<1>5. m.of = own[m.id] /\ Given(m.id)
  BY <1>1, <1>2, <1>3 DEF Owned
<1>6. CASE m.id \notin DOMAIN subscriptions
  <2>1. UNCHANGED <<subscriptions, buffer, reader, held>>
    BY <1>6 DEF ReadMsg
  <2>2. ConnTypes' /\ HandleTypes' /\ RoutedToOwner'
    BY <1>1, <1>2, <2>1 DEF ConnTypes, HandleTypes, RoutedToOwner
  <2>3. /\ held' # None => held'.of = own[held'.id] /\ Given(held'.id)
        /\ \A i \in DOMAIN subscriptions' : i \in DOMAIN subscriptions /\ subscriptions'[i] = subscriptions[i]
        /\ \A i \in DOMAIN subscriptions \ DOMAIN subscriptions' : ~ rx[own[i]]
    BY <1>1, <2>1 DEF Owned
  <2> QED
    BY <1>2, <2>2, <2>3, ReadsAside
<1>7. CASE /\ m.id \in DOMAIN subscriptions
           /\ rx[subscriptions[m.id]] /\ Len(buffer[subscriptions[m.id]]) >= SubBuffer
  <2>1. reader' = "blocked" /\ held' = m /\ UNCHANGED <<subscriptions, buffer>>
    BY <1>7 DEF ReadMsg
  <2> HIDE DEF m
  <2>2. HandleTypes' /\ RoutedToOwner'
    BY <1>1, <1>2, <2>1 DEF HandleTypes, RoutedToOwner
  <2>3. ConnTypes'
    <3>1. m # None
      BY <1>3, NoneAssumption
    <3> QED
      BY <1>1, <1>2, <1>4, <1>7, <2>1, <3>1 DEF ConnTypes
  <2>4. /\ held' # None => held'.of = own[held'.id] /\ Given(held'.id)
        /\ \A i \in DOMAIN subscriptions' : i \in DOMAIN subscriptions /\ subscriptions'[i] = subscriptions[i]
        /\ \A i \in DOMAIN subscriptions \ DOMAIN subscriptions' : ~ rx[own[i]]
    BY <1>5, <2>1
  <2> QED
    BY <1>2, <2>2, <2>3, <2>4, ReadsAside
<1>8. CASE /\ m.id \in DOMAIN subscriptions
           /\ ~ (rx[subscriptions[m.id]] /\ Len(buffer[subscriptions[m.id]]) >= SubBuffer)
  <2>1. Dispatch(subscriptions[m.id], m)
    BY <1>8 DEF ReadMsg
  <2> HIDE DEF m
  <2>2. /\ HandleTypes' /\ RoutedToOwner' /\ reader' = "read" /\ held' = None
        /\ \A i \in DOMAIN subscriptions' : i \in DOMAIN subscriptions /\ subscriptions'[i] = subscriptions[i]
        /\ \A i \in DOMAIN subscriptions \ DOMAIN subscriptions' : ~ rx[own[i]]
    BY <1>2, <1>4, <1>5, <1>8, <2>1, DispatchFacts
  <2>3. ConnTypes'
    BY <1>1, <1>2, <2>2 DEF ConnTypes
  <2> QED
    BY <1>2, <2>2, <2>3, ReadsAside
<1> QED
  BY <1>6, <1>7, <1>8

\* The message that is held is handed over, or its receiver is gone.
LEMMA UnblockKeeps ==
    ASSUME NEW own, IInvOf(own), Unblock
    PROVE  IInvOf(own)'
<1>1. ConnTypes /\ Owned(own)
  BY DEF IInvOf, Types
<1>2. /\ reader = "blocked" /\ Dispatch(subscriptions[held.id], held) /\ UNCHANGED to_client
      /\ UNCHANGED holder /\ UNCHANGED client /\ UNCHANGED call /\ UNCHANGED <<made, id, rx>>
      /\ UNCHANGED <<link, to_server>> /\ UNCHANGED server /\ UNCHANGED <<connected, write_tx, writer, sub_counter>>
      /\ UNCHANGED <<pending_subs, pending_flush>> /\ UNCHANGED <<sent, late, flushed, restarted>>
  BY DEF Unblock, history, network
<1>3. held # None /\ held \in MSG /\ held.id \in DOMAIN subscriptions /\ held.of = own[held.id]
  BY <1>1, <1>2 DEF ConnTypes, Owned
<1>4. /\ HandleTypes' /\ RoutedToOwner' /\ reader' = "read" /\ held' = None
      /\ \A i \in DOMAIN subscriptions' : i \in DOMAIN subscriptions /\ subscriptions'[i] = subscriptions[i]
      /\ \A i \in DOMAIN subscriptions \ DOMAIN subscriptions' : ~ rx[own[i]]
  BY <1>2, <1>3, DispatchFacts
<1>5. ConnTypes'
  BY <1>1, <1>2, <1>4 DEF ConnTypes
<1> QED
  BY <1>2, <1>4, <1>5, ReadsAside

\* The read task ends.
LEMMA ReadEofKeeps ==
    ASSUME NEW own, IInvOf(own), ReadEof
    PROVE  IInvOf(own)'
<1>1. ConnTypes /\ HandleTypes /\ RoutedToOwner
  BY DEF IInvOf, Types, Owned
<1>2. /\ reader = "read" /\ reader' = "gone" /\ connected' = FALSE /\ UNCHANGED to_client
      /\ UNCHANGED holder /\ UNCHANGED client /\ UNCHANGED call /\ UNCHANGED <<made, id, rx, buffer>>
      /\ UNCHANGED <<link, to_server>> /\ UNCHANGED server /\ UNCHANGED <<write_tx, writer, held, sub_counter>>
      /\ UNCHANGED <<pending_subs, pending_flush, subscriptions>> /\ UNCHANGED <<sent, late, flushed, restarted>>
  BY DEF ReadEof, history, network, conn_state, handles
<1>3. held' = None
  BY <1>1, <1>2 DEF ConnTypes
<1>4. ConnTypes' /\ HandleTypes' /\ RoutedToOwner'
  BY <1>1, <1>2, <1>3 DEF ConnTypes, HandleTypes, RoutedToOwner
<1> QED
  BY <1>2, <1>3, <1>4, ReadsAside

\* A SUBACK is read: the call that asked is told an id that is its subscription's.
LEMMA ReadSubackKeeps ==
    ASSUME NEW own, IInvOf(own), ReadSuback
    PROVE  IInvOf(own)'
<1> DEFINE m == Head(to_client)
<1>1. /\ NetTypes /\ ConnTypes /\ HolderTypes /\ HandleTypes /\ Owned(own) /\ RoutedToOwner /\ Asked /\ Pinged
      /\ (~ restarted => Restored)
  BY DEF IInvOf, Types, Owned
<1>2. /\ reader = "read" /\ to_client # <<>> /\ m.type = "SUBACK" /\ to_client' = Tail(to_client)
      /\ pending_subs' = pending_subs \ {m.corr}
      /\ got' = (IF m.corr \in pending_subs /\ m.corr = corr THEN m.id ELSE got)
      /\ UNCHANGED <<lock, corr, cur, todo, remapped>> /\ UNCHANGED client /\ UNCHANGED call
      /\ UNCHANGED <<made, id, rx, buffer>> /\ UNCHANGED <<link, to_server>> /\ UNCHANGED server
      /\ UNCHANGED <<connected, write_tx, writer, reader, held>> /\ UNCHANGED sub_counter
      /\ UNCHANGED <<pending_flush, subscriptions>> /\ UNCHANGED <<sent, late, flushed, restarted>>
  BY DEF ReadSuback, history, tasks_of_conn, handles
<1>3. /\ to_client \in Seq(Reply) /\ to_server \in Seq(Frame)
      /\ m \in Reply /\ 1 \in DOMAIN to_client /\ m = to_client[1]
      /\ to_client' \in Seq(Reply)
      /\ \A j \in DOMAIN to_client' : j + 1 \in DOMAIN to_client /\ to_client'[j] = to_client[j + 1]
  <2>1. to_client \in Seq(Reply) /\ to_server \in Seq(Frame)
    BY <1>1 DEF NetTypes
  <2> QED
    BY <1>2, <2>1, TailAt
<1>4. m.id \in Nat
  BY <1>2, <1>3 DEF Reply
<1>5. Asking /\ own[m.id] = cur.handle /\ Given(m.id)
  BY <1>1, <1>2, <1>3 DEF Asked, Owned
<1>6. ~ restarted /\ link = "up" /\ Wanted => m.id \in DOMAIN server_subs
  BY <1>1, <1>2, <1>3 DEF Restored
<1>7. /\ \A j \in DOMAIN to_client' : to_client'[j].type # "SUBACK"
      /\ \A j \in DOMAIN to_server : to_server[j].type # "SUB"
  <2>1. OneOf("SUB", "SUBACK", to_server, to_client) /\ Head(to_client).type = "SUBACK"
    BY <1>1, <1>2 DEF Asked
  <2>2. /\ \A j \in DOMAIN Tail(to_client) : Tail(to_client)[j].type # "SUBACK"
        /\ \A j \in DOMAIN to_server : to_server[j].type # "SUB"
    BY <1>2, <1>3, <2>1, OneOfTaken
  <2> QED
    BY <1>2, <2>2
<1> HIDE DEF m
<1>8. Phase = "sub_wait" /\ got = 0
  BY <1>5 DEF Asking
<1>9. got' = m.id \/ got' = 0
  BY <1>2, <1>8
<1>10. got' \in Nat /\ (got' # 0 => got' = m.id)
  BY <1>4, <1>9, SMT
<1>11. Phase' = Phase /\ Locked' /\ UNCHANGED <<pc, goal, hand, target, attempts>>
  BY <1>2, <1>8, NoCallMoves
<1>12. ConnTypes' /\ HandleTypes' /\ RoutedToOwner'
  <2>1. pending_subs' \subseteq Nat
    BY <1>1, <1>2 DEF ConnTypes
  <2> QED
    BY <1>1, <1>2, <2>1 DEF ConnTypes, HandleTypes, RoutedToOwner
<1>13. Asked'
  <2>1. OneOf("SUB", "SUBACK", to_server', to_client')
    BY <1>1, <1>2, <1>3, OneOfTailAnswer DEF Asked
  <2> QED
    BY <1>2, <1>7, <2>1 DEF Asked
<1>14. Pinged'
  <2>1. pending_flush' = {} /\ ~ Pinging /\ FlushConfirms'
    BY <1>1, <1>2, <1>8 DEF Pinged, Pinging, FlushConfirms
  <2>2. ~ late => /\ \A j \in DOMAIN to_server' : to_server'[j].type # "PING"
                  /\ \A j \in DOMAIN to_client' : to_client'[j].type # "PONG"
    BY <1>1, <1>2, <1>3, <2>1 DEF Pinged
  <2>3. ~ late => OneOf("PING", "PONG", to_server', to_client')
    BY <1>1, <1>2, <1>3, OneOfTailAnswer DEF Pinged
  <2>4. link' = "up" => served' + Len(to_server') = sent'
    BY <1>1, <1>2 DEF Pinged, server
  <2> QED
    BY <1>2, <1>8, <1>11, <2>1, <2>2, <2>3, <2>4 DEF Pinged
<1>15. \A j \in DOMAIN to_client' : \E k \in DOMAIN to_client : to_client'[j] = to_client[k]
  BY <1>3
<1>16. /\ held' # None => held'.of = own[held'.id] /\ Given(held'.id)
       /\ \A i \in DOMAIN subscriptions' : i \in DOMAIN subscriptions /\ subscriptions'[i] = subscriptions[i]
       /\ \A i \in DOMAIN subscriptions \ DOMAIN subscriptions' : ~ rx[own[i]]
  BY <1>1, <1>2 DEF Owned
<1>17. /\ got' # 0 => own[got'] = cur.handle /\ Given(got')
       /\ ~ restarted /\ link = "up" /\ Wanted /\ got' # 0 => got' \in DOMAIN server_subs
  BY <1>5, <1>6, <1>10
<1>18. UNCHANGED <<made, id, rx>> /\ UNCHANGED <<write_tx, writer>>
  BY <1>2
<1> QED
  BY <1>2, <1>3, <1>10, <1>11, <1>12, <1>13, <1>14, <1>15, <1>16, <1>17, <1>18, Reads

\* A PONG is read: while no flush has timed out, it is that of the call that waits.
LEMMA ReadPongKeeps ==
    ASSUME NEW own, IInvOf(own), ReadPong
    PROVE  IInvOf(own)'
<1>1. /\ NetTypes /\ ConnTypes /\ HolderTypes /\ HandleTypes /\ Owned(own) /\ RoutedToOwner /\ Locked /\ Asked /\ Pinged
      /\ (~ restarted => Restored)
  BY DEF IInvOf, Types, Owned
<1>2. /\ reader = "read" /\ to_client # <<>> /\ Head(to_client).type = "PONG" /\ to_client' = Tail(to_client)
      /\ UNCHANGED <<lock, corr, cur, todo, remapped>> /\ UNCHANGED client /\ UNCHANGED call
      /\ UNCHANGED <<made, id, rx, buffer>> /\ UNCHANGED <<link, to_server>> /\ UNCHANGED server
      /\ UNCHANGED <<connected, write_tx, writer, reader, held>> /\ UNCHANGED sub_counter
      /\ UNCHANGED <<pending_subs, subscriptions>> /\ UNCHANGED <<sent, late, flushed, restarted>>
  BY DEF ReadPong, history, tasks_of_conn, handles
<1>3. \/ pending_flush = {} /\ UNCHANGED <<pending_flush, got>>
      \/ pending_flush # {} /\ pending_flush' = {} /\ got' = corr
  <2>1. CASE pending_flush = {}
    BY <2>1 DEF ReadPong
  <2>2. CASE pending_flush # {}
    <3>1. pending_flush = {corr} /\ corr \in Nat
      BY <1>1, <2>2 DEF Pinged, HolderTypes
    <3> DEFINE least == CHOOSE c \in pending_flush : \A d \in pending_flush : c <= d
    <3>2. least = corr
      <4>1. \E c \in pending_flush : \A d \in pending_flush : c <= d
        BY <3>1, SMT
      <4>2. least \in pending_flush
        BY <4>1
      <4> HIDE DEF least
      <4> QED
        BY <3>1, <4>2
    <3>3. pending_flush' = pending_flush \ {least} /\ got' = IF least = corr THEN corr ELSE got
      BY <2>2 DEF ReadPong
    <3> QED
      BY <2>2, <3>1, <3>2, <3>3
  <2> QED
    BY <2>1, <2>2
<1>4. /\ to_client \in Seq(Reply) /\ to_server \in Seq(Frame)
      /\ 1 \in DOMAIN to_client /\ to_client[1].type = "PONG"
      /\ to_client' \in Seq(Reply)
      /\ \A j \in DOMAIN to_client' : j + 1 \in DOMAIN to_client /\ to_client'[j] = to_client[j + 1]
  <2>1. to_client \in Seq(Reply) /\ to_server \in Seq(Frame)
    BY <1>1 DEF NetTypes
  <2>2. 1 \in DOMAIN to_client /\ Head(to_client) = to_client[1] /\ Tail(to_client) \in Seq(Reply)
        /\ \A j \in DOMAIN Tail(to_client) : j + 1 \in DOMAIN to_client /\ Tail(to_client)[j] = to_client[j + 1]
    BY <1>2, <2>1, TailAt
  <2> QED
    BY <1>2, <2>1, <2>2
<1>5. pending_flush # {} => got = 0 /\ Phase \in {"flush_send", "flush_wait", "flush_expired"}
  BY <1>1 DEF Pinged
<1>6. got' \in Nat /\ (got' # 0 => Phase \in {"sub_wait", "flush_send", "flush_wait", "flush_expired"})
  BY <1>1, <1>3, <1>5 DEF HolderTypes, Locked
<1>7. Phase' = Phase /\ Locked' /\ UNCHANGED <<pc, goal, hand, target, attempts>>
  BY <1>2, <1>6, NoCallMoves
<1>8. ConnTypes' /\ HandleTypes' /\ RoutedToOwner'
  <2>1. pending_flush' \subseteq Nat
    BY <1>1, <1>3 DEF ConnTypes
  <2> QED
    BY <1>1, <1>2, <2>1 DEF ConnTypes, HandleTypes, RoutedToOwner
<1>9. Asked'
  <2>1. OneOf("SUB", "SUBACK", to_server', to_client')
    BY <1>1, <1>2, <1>4, OneOfTailAnswer DEF Asked
  <2>2. Asking => Asking'
    BY <1>3, <1>5, <1>7 DEF Asking
  <2> QED
    BY <1>1, <1>2, <1>4, <2>1, <2>2 DEF Asked
<1>10. Pinged'
  <2>1. FlushConfirms' /\ pending_flush' = {} /\ (link' = "up" => served' + Len(to_server') = sent')
    BY <1>1, <1>2, <1>3 DEF Pinged, FlushConfirms, server
  <2>2. ASSUME ~ late
        PROVE  /\ Phase = "flush_wait" /\ target[lock] <= served
               /\ \A j \in DOMAIN to_server' : to_server'[j].type # "PING"
               /\ \A j \in DOMAIN to_client' : to_client'[j].type # "PONG"
               /\ OneOf("PING", "PONG", to_server', to_client')
    <3>1. OneOf("PING", "PONG", to_server, to_client)
      BY <1>1, <2>2 DEF Pinged
    <3>2. Phase = "flush_wait" /\ target[lock] <= served
      BY <1>1, <1>4, <2>2 DEF Pinged, Pinging
    <3>3. /\ \A j \in DOMAIN to_server' : to_server'[j].type # "PING"
          /\ \A j \in DOMAIN to_client' : to_client'[j].type # "PONG"
      <4>1. Head(to_client).type = "PONG"
        BY <1>2
      <4>2. /\ \A j \in DOMAIN Tail(to_client) : Tail(to_client)[j].type # "PONG"
            /\ \A j \in DOMAIN to_server : to_server[j].type # "PING"
        BY <1>2, <1>4, <3>1, <4>1, OneOfTaken
      <4> QED
        BY <1>2, <4>2
    <3>4. OneOf("PING", "PONG", to_server', to_client')
      BY <1>2, <1>4, <3>1, OneOfTailAnswer
    <3> QED
      BY <3>2, <3>3, <3>4
  <2>3. served' = served
    BY <1>2 DEF server
  <2> QED
    BY <1>2, <1>7, <2>1, <2>2, <2>3 DEF Pinged
<1>11. \A j \in DOMAIN to_client' : \E k \in DOMAIN to_client : to_client'[j] = to_client[k]
  BY <1>4
<1>12. /\ held' # None => held'.of = own[held'.id] /\ Given(held'.id)
       /\ \A i \in DOMAIN subscriptions' : i \in DOMAIN subscriptions /\ subscriptions'[i] = subscriptions[i]
       /\ \A i \in DOMAIN subscriptions \ DOMAIN subscriptions' : ~ rx[own[i]]
  BY <1>1, <1>2 DEF Owned
<1>13. Phase = "sub_wait" => got' = got
  BY <1>3, <1>5
<1>14. /\ Phase = "sub_wait" /\ got' # 0 => own[got'] = cur.handle /\ Given(got')
       /\ ~ restarted /\ link = "up" /\ Wanted /\ Phase = "sub_wait" /\ got' # 0 => got' \in DOMAIN server_subs
  BY <1>1, <1>13 DEF Owned, Restored
<1>15. UNCHANGED <<made, id, rx>> /\ UNCHANGED <<write_tx, writer>>
  BY <1>2
<1> QED
  BY <1>2, <1>4, <1>6, <1>7, <1>8, <1>9, <1>10, <1>11, <1>12, <1>14, <1>15, Reads

\* A step that changes nothing keeps the invariant.
LEMMA StutterKeeps ==
    ASSUME NEW own, IInvOf(own), UNCHANGED vars
    PROVE  IInvOf(own)'
<1>1. /\ UNCHANGED <<link, to_server, to_client>> /\ UNCHANGED <<server_subs, next_id, served>>
      /\ UNCHANGED <<connected, write_tx, writer, reader, held>> /\ UNCHANGED sub_counter
      /\ UNCHANGED <<pending_subs, pending_flush, subscriptions>>
      /\ UNCHANGED <<lock, corr, got, cur, todo, remapped>> /\ UNCHANGED <<tracked, closed>>
      /\ UNCHANGED <<pc, goal, hand, target, attempts>> /\ UNCHANGED <<made, id, rx, buffer>>
      /\ UNCHANGED <<sent, late, flushed, restarted>>
  BY DEF vars, network, server, tasks_of_conn, conn_state, holder, client, call, handles, history
<1>2. UNCHANGED client /\ UNCHANGED call /\ UNCHANGED server /\ UNCHANGED <<made, id, rx>>
      /\ UNCHANGED <<lock, corr, cur, todo, remapped>> /\ UNCHANGED <<link, to_server>> /\ UNCHANGED <<write_tx, writer>>
  BY <1>1 DEF client, call, server
<1>3. /\ NetTypes /\ ConnTypes /\ HandleTypes /\ HolderTypes /\ Locked /\ Asked /\ Pinged /\ Owned(own)
      /\ RoutedToOwner /\ (~ restarted => Restored)
  BY DEF IInvOf, Types, Owned
<1>4. got' \in Nat /\ (got' # 0 => Phase \in {"sub_wait", "flush_send", "flush_wait", "flush_expired"})
  BY <1>1, <1>3 DEF HolderTypes, Locked
<1>5. Locked' /\ Phase' = Phase
  BY <1>2, <1>4, NoCallMoves
<1>6. ConnTypes'
  BY <1>1, <1>3 DEF ConnTypes
<1>7. HandleTypes' /\ RoutedToOwner' /\ FlushConfirms'
  BY <1>1, <1>3 DEF HandleTypes, RoutedToOwner, FlushConfirms, Pinged
<1>8. (Asking' <=> Asking) /\ (Pinging' <=> Pinging)
  BY <1>1, <1>5 DEF Asking, Pinging
<1>9. Asked'
  BY <1>1, <1>3, <1>8 DEF Asked
<1>10. Pinged'
  BY <1>1, <1>3, <1>5, <1>7, <1>8 DEF Pinged
<1>11. /\ to_client' \in Seq(Reply)
       /\ \A j \in DOMAIN to_client' : \E k \in DOMAIN to_client : to_client'[j] = to_client[k]
       /\ \A i \in DOMAIN subscriptions' : i \in DOMAIN subscriptions /\ subscriptions'[i] = subscriptions[i]
       /\ \A i \in DOMAIN subscriptions \ DOMAIN subscriptions' : ~ rx[own[i]]
       /\ held' # None => held'.of = own[held'.id] /\ Given(held'.id)
  BY <1>1, <1>3 DEF NetTypes, Owned
<1>12. /\ Phase = "sub_wait" /\ got' # 0 => own[got'] = cur.handle /\ Given(got')
       /\ ~ restarted /\ link = "up" /\ Wanted /\ Phase = "sub_wait" /\ got' # 0 => got' \in DOMAIN server_subs
  BY <1>1, <1>3 DEF Owned, Restored
<1> QED
  BY <1>1, <1>2, <1>4, <1>5, <1>6, <1>7, <1>9, <1>10, <1>11, <1>12, Reads

-----------------------------------------------------------------------------
(* The write task and the network *)

\* The write task ends: what it had been given is lost.
LEMMA WriteFailsKeeps ==
    ASSUME NEW own, IInvOf(own), WriteFails
    PROVE  IInvOf(own)'
<1>1. /\ NetTypes /\ ServerTypes /\ ConnTypes /\ HolderTypes /\ HandleTypes /\ HistoryTypes /\ Owned(own) /\ RoutedToOwner
      /\ Locked /\ Asked /\ Pinged /\ Single /\ (~ restarted => Known(own))
  BY DEF IInvOf, Types, Owned
<1>2. /\ link = "down" /\ writer' = "gone" /\ connected' = FALSE /\ to_server' = <<>>
      /\ UNCHANGED <<link, to_client>> /\ UNCHANGED <<server_subs, next_id, served>>
      /\ UNCHANGED <<write_tx, reader, held>> /\ UNCHANGED sub_counter
      /\ UNCHANGED <<pending_subs, pending_flush, subscriptions>>
      /\ UNCHANGED <<lock, corr, got, cur, todo, remapped>> /\ UNCHANGED client /\ UNCHANGED call
      /\ UNCHANGED <<made, id, rx, buffer>> /\ UNCHANGED <<sent, late, flushed, restarted>>
  BY DEF WriteFails, server, conn_state, holder, handles, history
<1>3. got' \in Nat /\ (got' # 0 => Phase \in {"sub_wait", "flush_send", "flush_wait", "flush_expired"})
  BY <1>1, <1>2 DEF HolderTypes, Locked
<1>4. UNCHANGED <<made, id, rx>> /\ UNCHANGED <<lock, corr, cur, todo, remapped>>
  BY <1>2
<1>5. /\ Phase' = Phase /\ Agree' /\ Room' /\ Hands' /\ Kept' /\ CallTypes' /\ ClientTypes' /\ HolderTypes' /\ Locked'
      /\ UNCHANGED <<pc, goal, hand, target, attempts>> /\ UNCHANGED <<tracked, closed>>
  BY <1>2, <1>3, <1>4, NoCallMoves
<1>6. Types'
  <2>1. <<>> \in Seq(Frame)
    BY SMT
  <2>2. NetTypes' /\ ServerTypes' /\ HandleTypes' /\ HistoryTypes'
    BY <1>1, <1>2, <2>1 DEF NetTypes, ServerTypes, HandleTypes, HistoryTypes
  <2>3. ConnTypes'
    BY <1>1, <1>2 DEF ConnTypes
  <2> QED
    BY <1>5, <2>2, <2>3 DEF Types
<1>7. DOMAIN to_server' = {}
  BY <1>2, SMT
<1>8. Network'
  BY <1>2 DEF Network
<1>9. Asked'
  <2>1. OneOf("SUB", "SUBACK", to_server', to_client')
    BY <1>1, <1>2, OneOfNothing DEF Asked
  <2> QED
    BY <1>1, <1>2, <1>5, <1>7, <2>1 DEF Asked, Asking
<1>10. Pinged'
  <2>1. ~ late => OneOf("PING", "PONG", to_server', to_client')
    BY <1>1, <1>2, OneOfNothing DEF Pinged
  <2>2. FlushConfirms' /\ link' # "up" /\ target'[lock'] = target[lock] /\ (Pinging' <=> Pinging)
    BY <1>1, <1>2, <1>5 DEF Pinged, FlushConfirms, Pinging
  <2> QED
    BY <1>1, <1>2, <1>5, <1>7, <2>1, <2>2 DEF Pinged
<1>11. Single'
  BY <1>1, <1>2, <1>5, <1>7 DEF Single
<1>12. Owned(own)'
  <2>1. RoutedToOwner'
    BY <1>1, <1>2 DEF RoutedToOwner
  <2> QED
    BY <1>1, <1>2, <1>5, <2>1 DEF Owned, Given
<1>13. ~ restarted => Known(own)'
  BY <1>1, <1>2, <1>5, <1>7 DEF Known, GivenUp
<1>14. Restored'
  BY <1>2 DEF Restored
<1> QED
  BY <1>2, <1>5, <1>6, <1>8, <1>9, <1>10, <1>11, <1>12, <1>13, <1>14 DEF IInvOf

\* The connection is lost: nothing of the server's is left but what is on its way to the client.
LEMMA LoseLinkKeeps ==
    ASSUME NEW own, IInvOf(own), NEW k \in 0..Len(to_client), NEW restart \in BOOLEAN, LoseLink(k, restart)
    PROVE  IInvOf(own)'
<1>1. /\ NetTypes /\ ServerTypes /\ ConnTypes /\ HolderTypes /\ HandleTypes /\ HistoryTypes /\ Owned(own) /\ RoutedToOwner
      /\ Locked /\ Asked /\ Pinged /\ Single /\ (~ restarted => Known(own))
  BY DEF IInvOf, Types, Owned
<1>2. /\ link = "up" /\ link' = "down" /\ to_server' = <<>> /\ to_client' = SubSeq(to_client, 1, k)
      /\ server_subs' = Empty /\ next_id' = (IF restart THEN 1 ELSE next_id) /\ restarted' = (restarted \/ restart)
      /\ UNCHANGED served /\ UNCHANGED <<connected, write_tx, writer, reader, held>> /\ UNCHANGED sub_counter
      /\ UNCHANGED <<pending_subs, pending_flush, subscriptions>>
      /\ UNCHANGED <<lock, corr, got, cur, todo, remapped>> /\ UNCHANGED client /\ UNCHANGED call
      /\ UNCHANGED <<made, id, rx, buffer>> /\ UNCHANGED <<sent, late, flushed>>
  BY DEF LoseLink, tasks_of_conn, conn_state, holder, handles
<1>3. got' \in Nat /\ (got' # 0 => Phase \in {"sub_wait", "flush_send", "flush_wait", "flush_expired"})
  BY <1>1, <1>2 DEF HolderTypes, Locked
<1>4. UNCHANGED <<made, id, rx>> /\ UNCHANGED <<lock, corr, cur, todo, remapped>>
  BY <1>2
<1>5. /\ Phase' = Phase /\ Agree' /\ Room' /\ Hands' /\ Kept' /\ CallTypes' /\ ClientTypes' /\ HolderTypes' /\ Locked'
      /\ UNCHANGED <<pc, goal, hand, target, attempts>> /\ UNCHANGED <<tracked, closed>>
  BY <1>2, <1>3, <1>4, NoCallMoves
<1>6. /\ to_client' \in Seq(Reply) /\ \A j \in DOMAIN to_client' : j \in DOMAIN to_client /\ to_client'[j] = to_client[j]
      /\ to_client \in Seq(Reply) /\ to_server \in Seq(Frame)
  <2>1. to_client \in Seq(Reply) /\ to_server \in Seq(Frame)
    BY <1>1 DEF NetTypes
  <2> QED
    BY <1>2, <2>1, CutAt
<1>7. DOMAIN to_server' = {} /\ DOMAIN server_subs' = {} /\ to_server' \in Seq(Frame)
  BY <1>2, EmptyMap, SMT
<1>8. next_id' \in Nat \ {0} /\ restarted' \in BOOLEAN /\ (~ restarted' => ~ restarted /\ next_id' = next_id)
  <2>1. next_id \in Nat \ {0} /\ 1 \in Nat \ {0}
    BY <1>1, SMT DEF ServerTypes
  <2>2. CASE restart = TRUE
    BY <1>2, <2>1, <2>2
  <2>3. CASE restart = FALSE
    BY <1>1, <1>2, <2>1, <2>3 DEF HistoryTypes
  <2> QED
    BY <2>2, <2>3
<1>9. Types'
  <2>1. NetTypes' /\ ServerTypes' /\ HandleTypes' /\ HistoryTypes'
    BY <1>1, <1>2, <1>6, <1>7, <1>8 DEF NetTypes, ServerTypes, HandleTypes, HistoryTypes
  <2>2. ConnTypes'
    BY <1>1, <1>2 DEF ConnTypes
  <2> QED
    BY <1>5, <2>1, <2>2 DEF Types
<1>10. Network'
  BY <1>2 DEF Network
<1>11. Asked'
  <2>1. OneOf("SUB", "SUBACK", to_server', to_client')
    BY <1>1, <1>2, <1>6, OneOfCut DEF Asked
  <2>2. Asking' <=> Asking
    BY <1>2, <1>5 DEF Asking
  <2> QED
    BY <1>1, <1>6, <1>7, <2>1, <2>2 DEF Asked
<1>12. Pinged'
  <2>1. ~ late => OneOf("PING", "PONG", to_server', to_client')
    BY <1>1, <1>2, <1>6, OneOfCut DEF Pinged
  <2>2. FlushConfirms' /\ link' # "up" /\ target'[lock'] = target[lock] /\ (Pinging' <=> Pinging)
    BY <1>1, <1>2, <1>5 DEF Pinged, FlushConfirms, Pinging
  <2>3. ~ late => \A j \in DOMAIN to_client' : to_client'[j].type = "PONG" => Pinging /\ target[lock] <= served
    BY <1>1, <1>6 DEF Pinged
  <2> QED
    BY <1>1, <1>2, <1>5, <1>7, <2>1, <2>2, <2>3 DEF Pinged
<1>13. Single'
  BY <1>7 DEF Single
<1>14. Owned(own)'
  <2>1. RoutedToOwner'
    BY <1>1, <1>2 DEF RoutedToOwner
  <2>2. \A i : Given(i) => Given(i)'
    BY <1>2, <1>8 DEF Given
  <2>3. Given(got) => Given(got)'
    BY <1>2, <1>8 DEF Given
  <2>4. Given(held.id) => Given(held.id)'
    BY <1>2, <1>8 DEF Given
  <2>8. ASSUME NEW j \in DOMAIN to_client'
        PROVE  /\ j \in DOMAIN to_client /\ to_client'[j] = to_client[j]
               /\ Given(to_client[j].id) => (link' = "up" \/ ~ restarted' => to_client'[j].id < next_id')
    <3>1. j \in DOMAIN to_client /\ to_client'[j] = to_client[j]
      BY <1>6
    <3>2. Given(to_client[j].id) => (link' = "up" \/ ~ restarted' => to_client[j].id < next_id')
      BY <1>2, <1>8 DEF Given
    <3> QED
      BY <3>1, <3>2
  <2>5. (\A j \in DOMAIN to_client : to_client[j].type = "MSG" =>
           to_client[j].of = own[to_client[j].id] /\ Given(to_client[j].id))'
    BY <1>1, <2>8 DEF Owned, Given
  <2>6. (\A j \in DOMAIN to_client : to_client[j].type = "SUBACK" =>
           own[to_client[j].id] = cur.handle /\ Given(to_client[j].id))'
    <3>1. cur' = cur /\ \A j \in DOMAIN to_client : to_client[j].type = "SUBACK" =>
                            own[to_client[j].id] = cur.handle /\ Given(to_client[j].id)
      BY <1>1, <1>2 DEF Owned
    <3> QED
      BY <2>8, <3>1, ZenonT(40) DEF Given
  <2>7. (\A i \in DOMAIN subscriptions : subscriptions[i] = own[i] /\ Given(i))'
    BY <1>1, <1>2, <2>2 DEF Owned
  <2> QED
    BY <1>1, <1>2, <1>5, <1>7, <2>1, <2>3, <2>4, <2>5, <2>6, <2>7 DEF Owned
<1>15. ~ restarted' => Known(own)'
  BY <1>1, <1>2, <1>5, <1>7, <1>8 DEF Known, GivenUp
<1>16. Restored'
  BY <1>2 DEF Restored
<1> QED
  BY <1>5, <1>9, <1>10, <1>11, <1>12, <1>13, <1>14, <1>15, <1>16 DEF IInvOf

-----------------------------------------------------------------------------
(* The server *)

\* A step of the server leaves the client's own state alone.
LEMMA ServerMoves ==
    ASSUME NEW own, IInvOf(own), NEW own2, link = "up", UNCHANGED link, UNCHANGED tasks_of_conn,
           UNCHANGED sub_counter, UNCHANGED conn_state, UNCHANGED holder, UNCHANGED client, UNCHANGED call,
           UNCHANGED handles, UNCHANGED history,
           to_server' \in Seq(Frame), to_client' \in Seq(Reply), ServerTypes', Asked', Pinged', Single',
           Owned(own2)', ~ restarted => Known(own2)' /\ Restored'
    PROVE  IInvOf(own2)'
<1>1. /\ NetTypes /\ ConnTypes /\ HolderTypes /\ HandleTypes /\ HistoryTypes /\ Network /\ Locked
  BY DEF IInvOf, Types
<1>2. /\ UNCHANGED <<connected, write_tx, writer, reader, held>> /\ UNCHANGED <<pending_subs, pending_flush, subscriptions>>
      /\ UNCHANGED <<lock, corr, got, cur, todo, remapped>> /\ UNCHANGED <<made, id, rx, buffer>>
      /\ UNCHANGED <<sent, late, flushed, restarted>>
  BY DEF tasks_of_conn, conn_state, holder, handles, history
<1>3. got' \in Nat /\ (got' # 0 => Phase \in {"sub_wait", "flush_send", "flush_wait", "flush_expired"})
  BY <1>1, <1>2 DEF HolderTypes, Locked
<1>4. UNCHANGED <<made, id, rx>> /\ UNCHANGED <<lock, corr, cur, todo, remapped>>
  BY <1>2
<1>5. /\ Phase' = Phase /\ Agree' /\ Room' /\ Hands' /\ Kept' /\ CallTypes' /\ ClientTypes' /\ HolderTypes' /\ Locked'
  BY <1>3, <1>4, NoCallMoves
<1>6. NetTypes' /\ ConnTypes' /\ HandleTypes' /\ HistoryTypes'
  <2>1. NetTypes' /\ HandleTypes' /\ HistoryTypes'
    BY <1>1, <1>2 DEF NetTypes, HandleTypes, HistoryTypes
  <2>2. ConnTypes'
    BY <1>1, <1>2 DEF ConnTypes
  <2> QED
    BY <2>1, <2>2
<1>7. Types'
  BY <1>5, <1>6 DEF Types
<1>8. Network'
  BY <1>1, <1>2, <1>5, NetworkFrame
<1> QED
  BY <1>2, <1>5, <1>7, <1>8 DEF IInvOf

\* A message is sent for a subscription of the connection.
LEMMA SendMsgKeeps ==
    ASSUME NEW own, IInvOf(own), NEW i \in DOMAIN server_subs, SendMsg(i)
    PROVE  IInvOf(own)'
<1> DEFINE x == [type |-> "MSG", id |-> i, of |-> server_subs[i]]
<1>1. /\ NetTypes /\ ServerTypes /\ Owned(own) /\ RoutedToOwner /\ Asked /\ Pinged /\ Single
      /\ (~ restarted => Known(own) /\ Restored)
  BY DEF IInvOf, Types, Owned
<1>2. /\ link = "up" /\ to_client' = Append(to_client, x) /\ UNCHANGED <<link, to_server>> /\ UNCHANGED server
      /\ UNCHANGED tasks_of_conn /\ UNCHANGED sub_counter /\ UNCHANGED conn_state /\ UNCHANGED holder
      /\ UNCHANGED client /\ UNCHANGED call /\ UNCHANGED handles /\ UNCHANGED history
  BY DEF SendMsg
<1>3. /\ UNCHANGED <<server_subs, next_id, served>>
      /\ UNCHANGED <<connected, write_tx, writer, reader, held>> /\ UNCHANGED <<pending_subs, pending_flush, subscriptions>>
      /\ UNCHANGED <<lock, corr, got, cur, todo, remapped>> /\ UNCHANGED <<made, id, rx, buffer>>
      /\ UNCHANGED <<sent, late, flushed, restarted>> /\ UNCHANGED <<pc, goal, hand, target, attempts>>
      /\ UNCHANGED <<tracked, closed>>
  BY <1>2 DEF server, tasks_of_conn, conn_state, holder, handles, history, call, client
<1>4. Phase' = Phase
  BY <1>3 DEF Phase
<1>5. /\ x \in Reply /\ x.type = "MSG" /\ x.type # "SUBACK" /\ x.type # "PONG" /\ x.id = i /\ x.of = server_subs[i]
      /\ to_client \in Seq(Reply) /\ to_server \in Seq(Frame)
  BY <1>1 DEF Reply, ServerTypes, NetTypes
<1> HIDE DEF x
<1>6. /\ to_client' \in Seq(Reply)
      /\ \A j \in DOMAIN to_client' : (j \in DOMAIN to_client /\ to_client'[j] = to_client[j]) \/ to_client'[j] = x
  <2>1. /\ Append(to_client, x) \in Seq(Reply)
        /\ \A j \in DOMAIN Append(to_client, x) :
                  \/ j \in DOMAIN to_client /\ Append(to_client, x)[j] = to_client[j]
                  \/ j = Len(to_client) + 1 /\ Append(to_client, x)[j] = x
    BY <1>5, AppendAt
  <2> QED
    BY <1>2, <2>1
<1>7. Asked'
  <2>1. OneOf("SUB", "SUBACK", to_server', to_client')
    BY <1>1, <1>2, <1>5, OneOfOtherAnswer DEF Asked
  <2>2. Asking' <=> Asking
    BY <1>3, <1>4 DEF Asking
  <2> QED
    BY <1>1, <1>2, <1>3, <1>5, <1>6, <2>1, <2>2 DEF Asked
<1>8. Pinged'
  <2>1. ~ late => OneOf("PING", "PONG", to_server', to_client')
    BY <1>1, <1>2, <1>5, OneOfOtherAnswer DEF Pinged
  <2>2. FlushConfirms' /\ (Pinging' <=> Pinging)
    BY <1>1, <1>3, <1>4 DEF Pinged, FlushConfirms, Pinging
  <2>3. ~ late => \A j \in DOMAIN to_client' : to_client'[j].type = "PONG" => Pinging /\ target[lock] <= served
    BY <1>1, <1>5, <1>6 DEF Pinged
  <2> QED
    BY <1>1, <1>2, <1>3, <1>4, <2>1, <2>2, <2>3 DEF Pinged
<1>9. Single' /\ ServerTypes'
  BY <1>1, <1>2, <1>3, <1>4 DEF Single, ServerTypes
<1>10. Owned(own)'
  <2>1. RoutedToOwner'
    BY <1>1, <1>3 DEF RoutedToOwner
  <2>2. ASSUME NEW j \in DOMAIN to_client'
        PROVE  /\ to_client'[j].type = "MSG" => to_client'[j].of = own[to_client'[j].id] /\ Given(to_client'[j].id)
               /\ to_client'[j].type = "SUBACK" => own[to_client'[j].id] = cur.handle /\ Given(to_client'[j].id)
    <3>1. CASE j \in DOMAIN to_client /\ to_client'[j] = to_client[j]
      BY <1>1, <3>1 DEF Owned
    <3>2. CASE to_client'[j] = x
      BY <1>1, <1>5, <3>2 DEF Owned
    <3> QED
      BY <1>6, <3>1, <3>2
  <2> QED
    BY <1>1, <1>2, <1>3, <1>4, <2>1, <2>2 DEF Owned, Given
<1>11. ~ restarted => Known(own)'
  BY <1>1, <1>2, <1>3 DEF Known, GivenUp
<1>12. ~ restarted => Restored'
  <2>1. \A j \in DOMAIN to_client' : to_client'[j].type = "SUBACK" => j \in DOMAIN to_client /\ to_client'[j] = to_client[j]
    BY <1>5, <1>6
  <2> QED
    BY <1>1, <1>2, <1>3, <1>4, <2>1 DEF Restored, Replaying, Live, Wanted
<1>13. UNCHANGED link /\ to_server' \in Seq(Frame)
  BY <1>2, <1>5
<1> QED
  BY <1>2, <1>6, <1>7, <1>8, <1>9, <1>10, <1>11, <1>12, <1>13, ServerMoves

\* What the handling of every frame has in common.
LEMMA ServeFacts ==
    ASSUME NEW own, IInvOf(own), Serve
    PROVE  /\ link = "up" /\ link' = "up" /\ UNCHANGED link /\ UNCHANGED tasks_of_conn /\ UNCHANGED sub_counter
           /\ UNCHANGED conn_state /\ UNCHANGED holder /\ UNCHANGED client /\ UNCHANGED call
           /\ UNCHANGED handles /\ UNCHANGED history
           /\ UNCHANGED <<connected, write_tx, writer, reader, held>>
           /\ UNCHANGED <<pending_subs, pending_flush, subscriptions>>
           /\ UNCHANGED <<lock, corr, got, cur, todo, remapped>> /\ UNCHANGED <<made, id, rx, buffer>>
           /\ UNCHANGED <<sent, late, flushed, restarted>> /\ UNCHANGED <<pc, goal, hand, target, attempts>>
           /\ UNCHANGED <<tracked, closed>>
           /\ Phase' = Phase /\ (Asking' <=> Asking) /\ (Pinging' <=> Pinging) /\ RoutedToOwner' /\ FlushConfirms'
           /\ to_server \in Seq(Frame) /\ to_client \in Seq(Reply) /\ to_server # <<>>
           /\ to_server' = Tail(to_server) /\ to_server' \in Seq(Frame) /\ Len(to_server') = Len(to_server) - 1
           /\ 1 \in DOMAIN to_server /\ Head(to_server) = to_server[1] /\ Head(to_server) \in Frame
           /\ \A j \in DOMAIN to_server' : j \in Nat /\ j + 1 \in DOMAIN to_server /\ to_server'[j] = to_server[j + 1]
           /\ served' = served + 1 /\ served \in Nat /\ next_id \in Nat \ {0}
<1>1. NetTypes /\ ServerTypes /\ RoutedToOwner /\ FlushConfirms
  BY DEF IInvOf, Types, Owned, Pinged
<1>2. /\ link = "up" /\ to_server # <<>> /\ to_server' = Tail(to_server) /\ served' = served + 1
      /\ UNCHANGED link /\ UNCHANGED tasks_of_conn /\ UNCHANGED sub_counter
      /\ UNCHANGED conn_state /\ UNCHANGED holder /\ UNCHANGED client /\ UNCHANGED call
      /\ UNCHANGED handles /\ UNCHANGED history
  BY DEF Serve
<1>3. /\ UNCHANGED <<connected, write_tx, writer, reader, held>> /\ UNCHANGED <<pending_subs, pending_flush, subscriptions>>
      /\ UNCHANGED <<lock, corr, got, cur, todo, remapped>> /\ UNCHANGED <<made, id, rx, buffer>>
      /\ UNCHANGED <<sent, late, flushed, restarted>> /\ UNCHANGED <<pc, goal, hand, target, attempts>>
      /\ UNCHANGED <<tracked, closed>>
  BY <1>2 DEF tasks_of_conn, conn_state, holder, handles, history, call, client
<1>4. Phase' = Phase
  BY <1>3 DEF Phase
<1>5. (Asking' <=> Asking) /\ (Pinging' <=> Pinging) /\ RoutedToOwner' /\ FlushConfirms'
  BY <1>1, <1>3, <1>4 DEF Asking, Pinging, RoutedToOwner, FlushConfirms
<1>6. to_server \in Seq(Frame) /\ to_client \in Seq(Reply) /\ served \in Nat /\ next_id \in Nat \ {0}
  BY <1>1 DEF NetTypes, ServerTypes
<1>7. /\ Tail(to_server) \in Seq(Frame) /\ Len(Tail(to_server)) = Len(to_server) - 1
      /\ 1 \in DOMAIN to_server /\ Head(to_server) = to_server[1] /\ Head(to_server) \in Frame
      /\ \A j \in DOMAIN Tail(to_server) :
             j \in Nat /\ j + 1 \in DOMAIN to_server /\ Tail(to_server)[j] = to_server[j + 1]
  BY <1>2, <1>6, TailAt
<1>8. link' = "up"
  BY <1>2
<1> QED
  BY <1>2, <1>3, <1>4, <1>5, <1>6, <1>7, <1>8

\* The PONG of a PING follows every frame given before it.
LEMMA ServePinged ==
    ASSUME NEW own, IInvOf(own), Serve, NEW x \in Reply,
           \/ to_client' = to_client
           \/ to_client' = Append(to_client, x) /\ (x.type = "PONG" => Head(to_server).type = "PING")
    PROVE  Pinged'
<1>1. Pinged /\ HolderTypes /\ CallTypes
  BY DEF IInvOf, Types
<1>2. /\ link = "up" /\ link' = "up" /\ UNCHANGED <<lock, corr, got, cur, todo, remapped>>
      /\ UNCHANGED <<pending_subs, pending_flush, subscriptions>>
      /\ UNCHANGED <<sent, late, flushed, restarted>> /\ UNCHANGED <<pc, goal, hand, target, attempts>>
      /\ Phase' = Phase /\ (Pinging' <=> Pinging) /\ FlushConfirms'
      /\ to_server \in Seq(Frame) /\ to_client \in Seq(Reply) /\ to_server # <<>>
      /\ to_server' = Tail(to_server) /\ Len(to_server') = Len(to_server) - 1
      /\ 1 \in DOMAIN to_server /\ Head(to_server) = to_server[1]
      /\ \A j \in DOMAIN to_server' : j \in Nat /\ j + 1 \in DOMAIN to_server /\ to_server'[j] = to_server[j + 1]
      /\ served' = served + 1 /\ served \in Nat
  BY ServeFacts
<1>3. served' + Len(to_server') = sent'
  <2>1. served + Len(to_server) = sent /\ Len(to_server) \in Nat /\ sent' = sent
    BY <1>1, <1>2, SMT DEF Pinged
  <2> QED
    BY <1>2, <2>1, SMT
<1>4. Phase = "flush_wait" => target[lock] \in Nat
  <2>1. Phase = "flush_wait" => lock \in Tasks
    BY <1>1 DEF Phase, HolderTypes
  <2> QED
    BY <1>1, <2>1 DEF CallTypes
<1>5. ASSUME ~ late
      PROVE  /\ \A j \in DOMAIN to_server' : to_server'[j].type = "PING" => Pinging /\ target[lock] <= served' + j
             /\ \A j \in DOMAIN to_client' : to_client'[j].type = "PONG" => Pinging /\ target[lock] <= served'
             /\ OneOf("PING", "PONG", to_server', to_client')
             /\ Phase = "flush_wait" /\ got # 0 => target[lock] <= served'
  <2>1. /\ \A j \in DOMAIN to_server : to_server[j].type = "PING" => Pinging /\ target[lock] <= served + j
        /\ \A j \in DOMAIN to_client : to_client[j].type = "PONG" => Pinging /\ target[lock] <= served
        /\ OneOf("PING", "PONG", to_server, to_client)
        /\ Phase = "flush_wait" /\ got # 0 => target[lock] <= served
    BY <1>1, <1>2, <1>5 DEF Pinged
  <2>2. ASSUME NEW j \in DOMAIN to_server', to_server'[j].type = "PING"
        PROVE  Pinging /\ target[lock] <= served' + j
    <3>1. j \in Nat /\ Pinging /\ target[lock] <= served + (j + 1)
      BY <1>2, <2>1, <2>2
    <3>2. target[lock] \in Nat
      BY <1>4, <3>1 DEF Pinging
    <3>3. target[lock] <= (served + 1) + j
      BY <1>2, <3>1, <3>2, SMT
    <3> QED
      BY <1>2, <3>1, <3>3
  <2>3. target[lock] <= served /\ Phase = "flush_wait" => target[lock] <= served'
    BY <1>2, <1>4, SMT
  <2>4. OneOf("PING", "PONG", Tail(to_server), to_client)
    BY <1>2, <2>1, OneOfTail
  <2>5. CASE to_client' = to_client
    <3>1. \A j \in DOMAIN to_client' : to_client'[j].type = "PONG" => Pinging /\ target[lock] <= served'
      BY <2>1, <2>3, <2>5 DEF Pinging
    <3> QED
      BY <1>2, <2>1, <2>2, <2>3, <2>4, <2>5, <3>1
  <2>6. CASE to_client' = Append(to_client, x) /\ (x.type = "PONG" => Head(to_server).type = "PING")
    <3>1. \A j \in DOMAIN to_client' : (j \in DOMAIN to_client /\ to_client'[j] = to_client[j]) \/ to_client'[j] = x
      <4>1. \A j \in DOMAIN Append(to_client, x) :
                  \/ j \in DOMAIN to_client /\ Append(to_client, x)[j] = to_client[j]
                  \/ j = Len(to_client) + 1 /\ Append(to_client, x)[j] = x
        BY <1>2, AppendAt
      <4> QED
        BY <2>6, <4>1
    <3>2. x.type = "PONG" => Pinging /\ target[lock] <= served'
      BY <1>2, <2>1, <2>6
    <3>3. \A j \in DOMAIN to_client' : to_client'[j].type = "PONG" => Pinging /\ target[lock] <= served'
      BY <2>1, <2>3, <3>1, <3>2 DEF Pinging
    <3>4. OneOf("PING", "PONG", to_server', to_client')
      <4>1. CASE x.type # "PONG"
        <5>1. Tail(to_server) \in Seq(Frame)
          BY <1>2, SMT
        <5> QED
          BY <1>2, <2>4, <2>6, <4>1, <5>1, OneOfOtherAnswer
      <4>2. CASE x.type = "PONG"
        <5>1. Head(to_server).type = "PING"
          BY <2>6, <4>2
        <5>2. OneOf("PING", "PONG", Tail(to_server), Append(to_client, x))
          BY <1>2, <2>1, <5>1, OneOfAnswered
        <5> QED
          BY <1>2, <2>6, <5>2
      <4> QED
        BY <4>1, <4>2
    <3> QED
      BY <2>1, <2>2, <2>3, <3>3, <3>4
  <2> QED
    BY <2>5, <2>6
<1>6. ~ late => (Phase = "flush_send" => got = 0)
  BY <1>1 DEF Pinged
<1>7. /\ pending_flush' \subseteq {corr'}
      /\ pending_flush' # {} => got' = 0 /\ Phase' \in {"flush_send", "flush_wait", "flush_expired"}
  BY <1>1, <1>2 DEF Pinged
<1>8. late' = late /\ target' = target /\ lock' = lock /\ got' = got
  BY <1>2
<1>9. (~ late =>
           /\ \A j \in DOMAIN to_server : to_server[j].type = "PING" =>
                  Pinging /\ (link = "up" => target[lock] <= served + j)
           /\ \A j \in DOMAIN to_client : to_client[j].type = "PONG" => Pinging /\ target[lock] <= served
           /\ OneOf("PING", "PONG", to_server, to_client)
           /\ Phase = "flush_send" => got = 0
           /\ Phase = "flush_wait" /\ got # 0 => target[lock] <= served)'
  <2>1. Phase' = Phase /\ (Pinging' <=> Pinging)
    BY <1>2
  <2> QED
    BY <1>5, <1>6, <1>8, <2>1
<1> QED
  BY <1>2, <1>3, <1>7, <1>9 DEF Pinged

\* A frame that is handled without an answer to a SUB changes nothing for who asks.
LEMMA ServeAsked ==
    ASSUME NEW own, IInvOf(own), Serve, NEW x \in Reply, x.type # "SUBACK",
           to_client' = to_client \/ to_client' = Append(to_client, x)
    PROVE  /\ Asked' /\ to_client' \in Seq(Reply)
           /\ \A j \in DOMAIN to_client' : (j \in DOMAIN to_client /\ to_client'[j] = to_client[j]) \/ to_client'[j] = x
<1>1. Asked
  BY DEF IInvOf
<1>2. /\ UNCHANGED <<lock, corr, got, cur, todo, remapped>> /\ (Asking' <=> Asking)
      /\ to_server \in Seq(Frame) /\ to_client \in Seq(Reply) /\ to_server # <<>>
      /\ to_server' = Tail(to_server) /\ to_server' \in Seq(Frame)
      /\ \A j \in DOMAIN to_server' : j \in Nat /\ j + 1 \in DOMAIN to_server /\ to_server'[j] = to_server[j + 1]
  BY ServeFacts
<1>3. /\ to_client' \in Seq(Reply)
      /\ \A j \in DOMAIN to_client' : (j \in DOMAIN to_client /\ to_client'[j] = to_client[j]) \/ to_client'[j] = x
  <2>1. /\ Append(to_client, x) \in Seq(Reply)
        /\ \A j \in DOMAIN Append(to_client, x) :
                  \/ j \in DOMAIN to_client /\ Append(to_client, x)[j] = to_client[j]
                  \/ j = Len(to_client) + 1 /\ Append(to_client, x)[j] = x
    BY <1>2, AppendAt
  <2> QED
    BY <1>2, <2>1
<1>4. OneOf("SUB", "SUBACK", to_server', to_client')
  <2>1. OneOf("SUB", "SUBACK", to_server', to_client)
    BY <1>1, <1>2, OneOfTail DEF Asked
  <2>2. OneOf("SUB", "SUBACK", to_server', Append(to_client, x))
    BY <1>2, <2>1, OneOfOtherAnswer
  <2> QED
    BY <2>1, <2>2
<1>5. cur' = cur
  BY <1>2
<1>6. \A j \in DOMAIN to_server' : to_server'[j].type = "SUB" => Asking /\ to_server'[j].handle = cur.handle
  BY <1>1, <1>2 DEF Asked
<1>7. \A j \in DOMAIN to_client' : to_client'[j].type = "SUBACK" => Asking
  BY <1>1, <1>3 DEF Asked
<1> QED
  BY <1>2, <1>3, <1>4, <1>5, <1>6, <1>7 DEF Asked

\* The ids of earlier connections stay as they are known.
LEMMA KnownStays ==
    ASSUME NEW own, Known(own), UNCHANGED <<id, tracked, remapped, pc, target, hand>>, next_id' = next_id,
           \A j \in DOMAIN to_server' : to_server'[j].type = "UNSUB" =>
               to_server'[j].id < next_id /\ GivenUp(own[to_server'[j].id])
    PROVE  Known(own)'
<1>1. (\A h \in Handles : id[h] # 0 => own[id[h]] = h /\ id[h] < next_id)'
  BY DEF Known
<1>2. (\A s \in DOMAIN tracked : own[tracked[s].server] = tracked[s].handle /\ tracked[s].server < next_id)'
  BY DEF Known
<1>3. (\A s \in DOMAIN remapped :
           own[remapped[s]] \in Handles /\ id[own[remapped[s]]] = s /\ remapped[s] < next_id)'
  BY DEF Known
<1>4. (\A t \in Tasks : pc[t] \in {"unsub_lock", "unsub_remove"} =>
           own[target[t]] = hand[t] /\ target[t] < next_id /\ GivenUp(hand[t]))'
  BY DEF Known, GivenUp
<1>5. (\A j \in DOMAIN to_server : to_server[j].type = "UNSUB" =>
           to_server[j].id < next_id /\ GivenUp(own[to_server[j].id]))'
  BY DEF GivenUp
<1> QED
  BY <1>1, <1>2, <1>3, <1>4, <1>5 DEF Known

\* What is known of the frames under way is known of those that are left.
LEMMA KnownTail ==
    ASSUME NEW own, Known(own),
           \A j \in DOMAIN to_server' : j + 1 \in DOMAIN to_server /\ to_server'[j] = to_server[j + 1]
    PROVE  \A j \in DOMAIN to_server' : to_server'[j].type = "UNSUB" =>
               to_server'[j].id < next_id /\ GivenUp(own[to_server'[j].id])
<1> SUFFICES ASSUME NEW j \in DOMAIN to_server', to_server'[j].type = "UNSUB"
             PROVE  to_server'[j].id < next_id /\ GivenUp(own[to_server'[j].id])
  OBVIOUS
<1>1. j + 1 \in DOMAIN to_server /\ to_server'[j] = to_server[j + 1]
  OBVIOUS
<1>2. \A k \in DOMAIN to_server : to_server[k].type = "UNSUB" =>
           to_server[k].id < next_id /\ GivenUp(own[to_server[k].id])
  BY DEF Known
<1>3. to_server[j + 1].type = "UNSUB" => to_server[j + 1].id < next_id /\ GivenUp(own[to_server[j + 1].id])
  BY <1>1, <1>2
<1> QED
  BY <1>1, <1>3

\* The ids of frames and answers are numbers.
LEMMA Fields ==
    /\ \A m \in Reply : m.type \in {"SUBACK", "MSG"} => m.id \in Nat
    /\ \A m \in Frame : m.type = "UNSUB" => m.id \in Nat
BY DEF Frame, Reply

\* A frame other than a SUB that is accepted: the server may forget a subscription given up.
LEMMA ServeAside ==
    ASSUME NEW own, IInvOf(own), Serve, NEW x \in Reply, x.type = "PONG", NEW gone,
           \/ to_client' = to_client
           \/ to_client' = Append(to_client, x) /\ Head(to_server).type = "PING",
           DOMAIN server_subs' = DOMAIN server_subs \ gone,
           \A i \in DOMAIN server_subs' : server_subs'[i] = server_subs[i],
           next_id' = next_id,
           ~ restarted => \A i \in gone : GivenUp(own[i])
    PROVE  IInvOf(own)'
<1>1. /\ ServerTypes /\ HolderTypes /\ ClientTypes /\ Owned(own) /\ Asked /\ Kept /\ Single
      /\ (~ restarted => Known(own) /\ Restored)
  BY DEF IInvOf, Types
<1>2. /\ link = "up" /\ link' = "up" /\ UNCHANGED link /\ UNCHANGED tasks_of_conn /\ UNCHANGED sub_counter
      /\ UNCHANGED conn_state /\ UNCHANGED holder /\ UNCHANGED client /\ UNCHANGED call
      /\ UNCHANGED handles /\ UNCHANGED history
      /\ to_server' \in Seq(Frame)
  BY ServeFacts
<1>3. /\ UNCHANGED <<connected, write_tx, writer, reader, held>>
      /\ UNCHANGED <<pending_subs, pending_flush, subscriptions>>
      /\ UNCHANGED <<lock, corr, got, cur, todo, remapped>> /\ UNCHANGED <<made, id, rx, buffer>>
      /\ UNCHANGED <<sent, late, flushed, restarted>> /\ UNCHANGED <<pc, goal, hand, target, attempts>>
      /\ UNCHANGED <<tracked, closed>>
      /\ Phase' = Phase /\ RoutedToOwner'
      /\ \A j \in DOMAIN to_server' : j + 1 \in DOMAIN to_server /\ to_server'[j] = to_server[j + 1]
      /\ served' = served + 1 /\ served \in Nat
  BY ServeFacts
<1>4. x.type # "SUBACK" /\ x.type # "MSG"
  OBVIOUS
<1>5. Pinged'
  BY ServePinged
<1>6. /\ Asked' /\ to_client' \in Seq(Reply)
      /\ \A j \in DOMAIN to_client' : (j \in DOMAIN to_client /\ to_client'[j] = to_client[j]) \/ to_client'[j] = x
  BY <1>4, ServeAsked
<1>7. ServerTypes'
  <2>1. served' \in Nat
    BY <1>3, SMT
  <2> QED
    BY <1>1, <2>1 DEF ServerTypes
<1>8. \A i \in DOMAIN server_subs' : i \in DOMAIN server_subs /\ server_subs'[i] = server_subs[i]
  OBVIOUS
<1>9. Single'
  <2>1. \A j \in DOMAIN to_server' : to_server'[j].type = "SUB" =>
           \A i \in DOMAIN server_subs : server_subs[i] # cur.handle
    BY <1>1, <1>3 DEF Single
  <2> QED
    BY <1>1, <1>3, <1>8, <2>1, ZenonT(40) DEF Single
<1>10. Owned(own)'
  <2>1. ASSUME NEW j \in DOMAIN to_client'
        PROVE  /\ to_client'[j].type = "MSG" => to_client'[j].of = own[to_client'[j].id] /\ Given(to_client'[j].id)
               /\ to_client'[j].type = "SUBACK" => own[to_client'[j].id] = cur.handle /\ Given(to_client'[j].id)
    <3>1. CASE j \in DOMAIN to_client /\ to_client'[j] = to_client[j]
      BY <1>1, <3>1 DEF Owned
    <3>2. CASE to_client'[j] = x
      BY <1>4, <3>2
    <3> QED
      BY <1>6, <3>1, <3>2
  <2> QED
    BY <1>1, <1>2, <1>3, <1>8, <2>1 DEF Owned, Given
<1>11. ~ restarted => Known(own)'
  <2>1. ~ restarted => \A j \in DOMAIN to_server' : to_server'[j].type = "UNSUB" =>
           to_server'[j].id < next_id /\ GivenUp(own[to_server'[j].id])
    BY <1>1, <1>3, KnownTail
  <2>2. UNCHANGED <<id, tracked, remapped, pc, target, hand>>
    BY <1>3
  <2> QED
    BY <1>1, <2>1, <2>2, KnownStays
<1>12. ASSUME ~ restarted
       PROVE  Restored'
  <2>1. \A i \in DOMAIN server_subs : ~ GivenUp(own[i]) => i \in DOMAIN server_subs' /\ server_subs'[i] = server_subs[i]
    BY <1>12
  <2>2. \A s \in DOMAIN tracked : s # 0 /\ ~ GivenUp(tracked[s].handle)
    <3> SUFFICES ASSUME NEW s \in DOMAIN tracked PROVE s # 0 /\ ~ GivenUp(tracked[s].handle)
      OBVIOUS
    <3>1. s \in Nat \ {0} /\ id[tracked[s].handle] = s
      BY <1>1 DEF ClientTypes, Kept
    <3> QED
      BY <3>1 DEF GivenUp
  <2>3. \A s \in DOMAIN tracked : \A i : Live(i, tracked[s].handle) => Live(i, tracked[s].handle)'
    <3> SUFFICES ASSUME NEW s \in DOMAIN tracked, NEW i, Live(i, tracked[s].handle)
                 PROVE  Live(i, tracked[s].handle)'
      OBVIOUS
    <3>1. i \in DOMAIN server_subs /\ own[i] = tracked[s].handle
      BY <1>1 DEF Live, Owned
    <3>2. i \in DOMAIN server_subs' /\ server_subs'[i] = server_subs[i]
      BY <2>1, <2>2, <3>1
    <3> QED
      BY <1>3, <3>2 DEF Live
  <2>4. \A i \in DOMAIN server_subs : Wanted /\ Phase = "sub_wait" /\ own[i] = cur.handle => i \in DOMAIN server_subs'
    <3>1. Wanted /\ Phase = "sub_wait" => ~ GivenUp(cur.handle)
      <4>1. Phase = "sub_wait" => Phase \in SubPhases
        BY DEF SubPhases
      <4> QED
        BY <1>1, <4>1 DEF Wanted, GivenUp, Kept
    <3> QED
      BY <2>1, <3>1
  <2>5. /\ (Replaying' <=> Replaying) /\ (Wanted' <=> Wanted)
    BY <1>3 DEF Replaying, Wanted
  <2>6. ASSUME NEW s \in DOMAIN tracked
        PROVE  (IF Replaying
               THEN \/ s = cur.stable
                    \/ \E e \in todo : e.stable = s
                    \/ s \in DOMAIN remapped /\ Live(remapped[s], tracked[s].handle)
               ELSE Live(tracked[s].server, tracked[s].handle))'
    <3>1. IF Replaying
               THEN \/ s = cur.stable
                    \/ \E e \in todo : e.stable = s
                    \/ s \in DOMAIN remapped /\ Live(remapped[s], tracked[s].handle)
               ELSE Live(tracked[s].server, tracked[s].handle)
      BY <1>1, <1>2, <1>12 DEF Restored
    <3>2. /\ Live(remapped[s], tracked[s].handle) => Live(remapped[s], tracked[s].handle)'
          /\ Live(tracked[s].server, tracked[s].handle) => Live(tracked[s].server, tracked[s].handle)'
      <4>1. \A i : Live(i, tracked[s].handle) =>
                     (i \in DOMAIN server_subs' /\ server_subs'[i] = tracked[s].handle
                      /\ (rx[tracked[s].handle] => i \in DOMAIN subscriptions))
        BY <1>3, <2>3 DEF Live
      <4>2. UNCHANGED <<remapped, tracked, rx, subscriptions>>
        BY <1>3
      <4> QED
        BY <4>1, <4>2 DEF Live
    <3> QED
      BY <1>3, <2>5, <3>1, <3>2
  <2>7. Wanted => \A j \in DOMAIN to_client' : to_client'[j].type = "SUBACK" => to_client'[j].id \in DOMAIN server_subs'
    <3> SUFFICES ASSUME Wanted, NEW j \in DOMAIN to_client', to_client'[j].type = "SUBACK"
                 PROVE  to_client'[j].id \in DOMAIN server_subs'
      OBVIOUS
    <3>1. j \in DOMAIN to_client /\ to_client'[j] = to_client[j]
      BY <1>4, <1>6
    <3>2. Phase = "sub_wait" /\ own[to_client[j].id] = cur.handle /\ to_client[j].id \in DOMAIN server_subs
      BY <1>1, <1>2, <1>12, <3>1 DEF Asked, Asking, Owned, Restored
    <3> QED
      BY <2>4, <3>1, <3>2
  <2>8. Wanted /\ Phase = "sub_wait" /\ got # 0 => got \in DOMAIN server_subs'
    BY <1>1, <1>2, <1>12, <2>4 DEF Owned, Restored
  <2>9. tracked' = tracked /\ got' = got /\ Phase' = Phase
    BY <1>3
  <2> QED
    BY <2>5, <2>6, <2>7, <2>8, <2>9 DEF Restored
<1> QED
  BY <1>2, <1>5, <1>6, <1>7, <1>9, <1>10, <1>11, <1>12, ServerMoves

\* A SUB is accepted: the id it is given is the subscription's from then on.
LEMMA ServeSubKeeps ==
    ASSUME NEW own \in [Nat -> Nat], IInvOf(own), Serve, Head(to_server).type = "SUB",
           server_subs' = Put(server_subs, next_id, Head(to_server).handle),
           next_id' = next_id + 1,
           to_client' = Append(to_client, [type |-> "SUBACK", corr |-> Head(to_server).corr, id |-> next_id])
    PROVE  \E own2 \in [Nat -> Nat] : IInvOf(own2)'
<1> DEFINE h == Head(to_server).handle
           x == [type |-> "SUBACK", corr |-> Head(to_server).corr, id |-> next_id]
<1>1. /\ ServerTypes /\ ConnTypes /\ HolderTypes /\ ClientTypes /\ CallTypes /\ HandleTypes /\ Locked
      /\ Owned(own) /\ Asked /\ Kept /\ Single
      /\ (~ restarted => Known(own) /\ Restored)
  BY DEF IInvOf, Types
<1>2. /\ link = "up" /\ link' = "up" /\ UNCHANGED link /\ UNCHANGED tasks_of_conn /\ UNCHANGED sub_counter
      /\ UNCHANGED conn_state /\ UNCHANGED holder /\ UNCHANGED client /\ UNCHANGED call
      /\ UNCHANGED handles /\ UNCHANGED history
      /\ to_server' \in Seq(Frame)
  BY ServeFacts
<1>3. /\ UNCHANGED <<connected, write_tx, writer, reader, held>>
      /\ UNCHANGED <<pending_subs, pending_flush, subscriptions>>
      /\ UNCHANGED <<lock, corr, got, cur, todo, remapped>> /\ UNCHANGED <<made, id, rx, buffer>>
      /\ UNCHANGED <<sent, late, flushed, restarted>> /\ UNCHANGED <<pc, goal, hand, target, attempts>>
      /\ UNCHANGED <<tracked, closed>>
      /\ Phase' = Phase /\ RoutedToOwner' /\ (Asking' <=> Asking)
      /\ \A j \in DOMAIN to_server' : j + 1 \in DOMAIN to_server /\ to_server'[j] = to_server[j + 1]
      /\ served' = served + 1 /\ served \in Nat
  BY ServeFacts
<1>4. /\ to_server \in Seq(Frame) /\ to_client \in Seq(Reply) /\ to_server # <<>> /\ to_server' = Tail(to_server)
      /\ 1 \in DOMAIN to_server /\ Head(to_server) = to_server[1] /\ Head(to_server) \in Frame
      /\ next_id \in Nat \ {0}
  BY ServeFacts
<1>5. /\ h \in Handles /\ h \in Nat /\ x \in Reply /\ x.type = "SUBACK" /\ x.type # "PONG" /\ x.type # "MSG"
      /\ x.id = next_id /\ next_id \in Nat
  <2>1. Head(to_server) \in [type : {"SUB"}, corr : Nat, handle : Handles]
    BY <1>4 DEF Frame
  <2>2. h \in Handles /\ Head(to_server).corr \in Nat /\ next_id \in Nat
    BY <1>4, <2>1
  <2>3. h \in Nat
    <3>1. Handles \subseteq Nat
      BY SMT DEF Handles
    <3> QED
      BY <2>2, <3>1
  <2>4. x \in [type : {"SUBACK"}, corr : Nat, id : Nat]
    BY <2>2
  <2>5. x \in Reply
    BY <2>4 DEF Reply
  <2>6. x.type = "SUBACK" /\ x.id = next_id
    OBVIOUS
  <2>7. x.type # "PONG" /\ x.type # "MSG"
    BY <2>6
  <2> QED
    BY <2>2, <2>3, <2>5, <2>6, <2>7
<1>6. h = cur.handle /\ Asking /\ Phase = "sub_wait" /\ got = 0 /\ Phase \in SubPhases
  <2>1. Asking /\ h = cur.handle
    BY <1>1, <1>4 DEF Asked
  <2> QED
    BY <2>1 DEF Asking, SubPhases
<1>7. PICK own2 \in [Nat -> Nat] :
          own2[next_id] = h /\ \A i \in Nat : i # next_id => own2[i] = own[i]
  <2> DEFINE o == [own EXCEPT ![next_id] = h]
  <2>1. o \in [Nat -> Nat] /\ o[next_id] = h /\ \A i \in Nat : i # next_id => o[i] = own[i]
    BY <1>5
  <2> QED
    BY <2>1
<1>18. next_id < next_id' /\ \A i \in Nat : i < next_id => i # next_id /\ i < next_id'
  BY <1>5, SMT
<1>8. /\ DOMAIN server_subs' = DOMAIN server_subs \cup {next_id} /\ server_subs'[next_id] = h
      /\ \A i \in DOMAIN server_subs : i # next_id => server_subs'[i] = server_subs[i]
  BY DEF Put
<1> HIDE DEF h, x
<1>9. /\ OneOf("SUB", "SUBACK", to_server', Append(to_client, x))
      /\ \A j \in DOMAIN to_server' : to_server'[j].type # "SUB"
      /\ \A j \in DOMAIN to_client : to_client[j].type # "SUBACK"
  <2>1. OneOf("SUB", "SUBACK", to_server, to_client)
    BY <1>1 DEF Asked
  <2>2. /\ OneOf("SUB", "SUBACK", Tail(to_server), Append(to_client, x))
        /\ \A j \in DOMAIN Tail(to_server) : Tail(to_server)[j].type # "SUB"
        /\ \A j \in DOMAIN to_client : to_client[j].type # "SUBACK"
    BY <1>4, <1>5, <2>1, OneOfAnswered
  <2> QED
    BY <1>4, <2>2
<1>10. /\ to_client' = Append(to_client, x) /\ to_client' \in Seq(Reply)
       /\ \A j \in DOMAIN to_client' : (j \in DOMAIN to_client /\ to_client'[j] = to_client[j]) \/ to_client'[j] = x
  <2>1. /\ Append(to_client, x) \in Seq(Reply)
        /\ \A j \in DOMAIN Append(to_client, x) :
                  \/ j \in DOMAIN to_client /\ Append(to_client, x)[j] = to_client[j]
                  \/ j = Len(to_client) + 1 /\ Append(to_client, x)[j] = x
    BY <1>4, <1>5, AppendAt
  <2>2. to_client' = Append(to_client, x)
    BY DEF x
  <2> QED
    BY <2>1, <2>2
<1>11. Pinged'
  BY <1>5, <1>10, ServePinged
<1>12. Asked'
  BY <1>3, <1>6, <1>9, <1>10 DEF Asked
<1>13. ServerTypes'
  <2>1. served' \in Nat /\ next_id' \in Nat \ {0}
    BY <1>3, <1>5, SMT
  <2> QED
    BY <1>1, <1>5, <1>8, <2>1 DEF ServerTypes
<1>14. \A i \in DOMAIN server_subs : i \in Nat /\ i < next_id /\ i # next_id /\ server_subs'[i] = server_subs[i]
  <2>1. \A i \in DOMAIN server_subs : i \in Nat /\ i < next_id
    BY <1>1, <1>2 DEF ServerTypes, Owned, Given
  <2> QED
    BY <1>8, <1>18, <2>1
<1>15. Single'
  <2>1. \A i \in DOMAIN server_subs : server_subs[i] # h
    BY <1>1, <1>4, <1>6 DEF Single
  <2>2. h <= made
    <3>1. made \in Nat
      BY <1>1, SMT DEF HandleTypes
    <3>2. CASE cur.stable = 0
      <4>1. h = made
        BY <1>1, <1>6, <3>2 DEF Kept
      <4> QED
        BY <3>1, <4>1, SMT
    <3>3. CASE cur.stable # 0
      <4>1. ~ (h > made)
        BY <1>1, <1>5, <1>6, <3>3 DEF Kept
      <4> QED
        BY <1>5, <3>1, <4>1, SMT
    <3> QED
      BY <3>2, <3>3
  <2>3. \A e \in todo : e.handle # h
    <3>1. CASE cur.stable = 0
      BY <1>1, <1>6, <3>1 DEF Locked
    <3>2. CASE cur.stable # 0
      BY <1>1, <1>6, <3>2 DEF Kept
    <3> QED
      BY <3>1, <3>2
  <2>4. (\A i, j \in DOMAIN server_subs : server_subs[i] = server_subs[j] => i = j)'
    BY <1>1, <1>8, <1>14, <2>1, ZenonT(40) DEF Single
  <2>5. (\A i \in DOMAIN server_subs : server_subs[i] <= made)'
    BY <1>1, <1>3, <1>8, <1>14, <2>2 DEF Single
  <2>6. (Phase \in {"sub_pending", "sub_send"} => \A i \in DOMAIN server_subs : server_subs[i] # cur.handle)'
    BY <1>3, <1>6
  <2>7. (\A e \in todo : \A i \in DOMAIN server_subs : server_subs[i] # e.handle)'
    BY <1>1, <1>3, <1>8, <1>14, <2>3, ZenonT(40) DEF Single
  <2> QED
    BY <1>9, <2>4, <2>5, <2>6, <2>7 DEF Single
<1>16. \A i \in Nat : Given(i) => own2[i] = own[i] /\ i < next_id'
  BY <1>2, <1>7, <1>18 DEF Given
<1>17. Owned(own2)'
  <2>1. (\A i \in DOMAIN server_subs : server_subs[i] = own2[i] /\ Given(i))'
    <3>1. \A i \in DOMAIN server_subs' : server_subs'[i] = own2[i] /\ i < next_id'
      <4> SUFFICES ASSUME NEW i \in DOMAIN server_subs' PROVE server_subs'[i] = own2[i] /\ i < next_id'
        OBVIOUS
      <4>1. CASE i = next_id
        BY <1>7, <1>8, <1>18, <4>1
      <4>2. CASE i \in DOMAIN server_subs
        BY <1>1, <1>14, <1>16, <4>2 DEF Owned
      <4> QED
        BY <1>8, <4>1, <4>2
    <3> QED
      BY <3>1 DEF Given
  <2>2. (\A i \in DOMAIN subscriptions : subscriptions[i] = own2[i] /\ Given(i))'
    <3>1. \A i \in DOMAIN subscriptions : i \in Nat /\ subscriptions[i] = own[i] /\ Given(i)
      BY <1>1 DEF ConnTypes, Owned
    <3> QED
      BY <1>3, <1>16, <3>1 DEF Given
  <2>3. ASSUME NEW j \in DOMAIN to_client'
        PROVE  /\ to_client'[j].type = "MSG" => to_client'[j].of = own2[to_client'[j].id] /\ to_client'[j].id < next_id'
               /\ to_client'[j].type = "SUBACK" => own2[to_client'[j].id] = cur.handle /\ to_client'[j].id < next_id'
    <3>1. CASE j \in DOMAIN to_client /\ to_client'[j] = to_client[j]
      <4>1. to_client[j].type = "MSG" => to_client[j].id \in Nat
        <5>1. to_client[j] \in Reply
          BY <1>4, <3>1, SMT
        <5> QED
          BY <5>1, Fields
      <4>2. to_client[j].type # "SUBACK"
        BY <1>9, <3>1
      <4>3. to_client[j].type = "MSG" => to_client[j].of = own[to_client[j].id] /\ Given(to_client[j].id)
        BY <1>1, <3>1 DEF Owned
      <4> QED
        BY <1>16, <3>1, <4>1, <4>2, <4>3
    <3>2. CASE to_client'[j] = x
      BY <1>5, <1>6, <1>7, <1>18, <3>2
    <3> QED
      BY <1>10, <3>1, <3>2
  <2>4. (held # None => held.of = own2[held.id] /\ Given(held.id))'
    <3>1. held # None => held.id \in Nat /\ held.of = own[held.id] /\ Given(held.id)
      <4>1. held # None => held \in MSG
        BY <1>1 DEF ConnTypes
      <4>2. held # None => held.id \in Nat
        BY <4>1 DEF MSG
      <4> QED
        BY <1>1, <4>2 DEF Owned
    <3> QED
      BY <1>3, <1>16, <3>1 DEF Given
  <2>5. cur' = cur /\ got' = 0
    BY <1>3, <1>6
  <2> QED
    BY <1>3, <2>1, <2>2, <2>3, <2>4, <2>5 DEF Owned, Given
<1>19. ASSUME ~ restarted
       PROVE  Known(own2)'
  <2>1. Known(own) /\ UNCHANGED <<id, tracked, remapped, pc, target, hand>>
    BY <1>1, <1>3, <1>19
  <2>2. \A i \in Nat : i < next_id => own2[i] = own[i] /\ i < next_id'
    BY <1>7, <1>18
  <2>3. (\A g \in Handles : id[g] # 0 => own2[id[g]] = g /\ id[g] < next_id)'
    <3>1. \A g \in Handles : id[g] \in Nat
      BY <1>1 DEF HandleTypes
    <3> QED
      BY <2>1, <2>2, <3>1 DEF Known
  <2>4. (\A s \in DOMAIN tracked : own2[tracked[s].server] = tracked[s].handle /\ tracked[s].server < next_id)'
    <3>1. \A s \in DOMAIN tracked : tracked[s].server \in Nat
      BY <1>1 DEF ClientTypes
    <3> QED
      BY <2>1, <2>2, <3>1 DEF Known
  <2>5. (\A s \in DOMAIN remapped :
           own2[remapped[s]] \in Handles /\ id[own2[remapped[s]]] = s /\ remapped[s] < next_id)'
    <3>1. \A s \in DOMAIN remapped : remapped[s] \in Nat
      BY <1>1 DEF HolderTypes
    <3> QED
      BY <2>1, <2>2, <3>1 DEF Known
  <2>6. (\A t \in Tasks : pc[t] \in {"unsub_lock", "unsub_remove"} =>
           own2[target[t]] = hand[t] /\ target[t] < next_id /\ GivenUp(hand[t]))'
    <3>1. \A t \in Tasks : target[t] \in Nat
      BY <1>1 DEF CallTypes
    <3>2. \A t \in Tasks : pc[t] \in {"unsub_lock", "unsub_remove"} =>
              own2[target[t]] = hand[t] /\ target[t] < next_id' /\ GivenUp(hand[t])
      BY <2>1, <2>2, <3>1 DEF Known
    <3> QED
      BY <2>1, <3>2 DEF GivenUp
  <2>7. (\A j \in DOMAIN to_server : to_server[j].type = "UNSUB" =>
           to_server[j].id < next_id /\ GivenUp(own2[to_server[j].id]))'
    <3>1. ASSUME NEW j \in DOMAIN to_server', to_server'[j].type = "UNSUB"
          PROVE  to_server'[j].id < next_id' /\ GivenUp(own2[to_server'[j].id])
      <4>1. to_server'[j].id \in Nat
        <5>1. to_server'[j] \in Frame
          BY <1>2, SMT
        <5> QED
          BY <3>1, <5>1, Fields
      <4>2. to_server'[j].id < next_id /\ GivenUp(own[to_server'[j].id])
        <5>1. \A k \in DOMAIN to_server' : k + 1 \in DOMAIN to_server /\ to_server'[k] = to_server[k + 1]
          BY <1>3
        <5> QED
          BY <2>1, <3>1, <5>1, KnownTail
      <4> QED
        BY <2>2, <4>1, <4>2
    <3> QED
      BY <2>1, <3>1 DEF GivenUp
  <2> QED
    BY <2>3, <2>4, <2>5, <2>6, <2>7 DEF Known
<1>20. ASSUME ~ restarted
       PROVE  Restored'
  <2>1. (Replaying' <=> Replaying) /\ (Wanted' <=> Wanted) /\ UNCHANGED <<tracked, remapped, rx, subscriptions, cur, todo>>
    BY <1>3 DEF Replaying, Wanted
  <2>2. \A i, g : Live(i, g) =>
            i \in DOMAIN server_subs' /\ server_subs'[i] = g /\ (rx[g] => i \in DOMAIN subscriptions)
    BY <1>8, <1>14 DEF Live
  <2>3. ASSUME NEW s \in DOMAIN tracked
        PROVE  (IF Replaying
               THEN \/ s = cur.stable
                    \/ \E e \in todo : e.stable = s
                    \/ s \in DOMAIN remapped /\ Live(remapped[s], tracked[s].handle)
               ELSE Live(tracked[s].server, tracked[s].handle))'
    <3>1. IF Replaying
               THEN \/ s = cur.stable
                    \/ \E e \in todo : e.stable = s
                    \/ s \in DOMAIN remapped /\ Live(remapped[s], tracked[s].handle)
               ELSE Live(tracked[s].server, tracked[s].handle)
      BY <1>1, <1>2, <1>20 DEF Restored
    <3>2. /\ Live(remapped[s], tracked[s].handle) => Live(remapped[s], tracked[s].handle)'
          /\ Live(tracked[s].server, tracked[s].handle) => Live(tracked[s].server, tracked[s].handle)'
      BY <2>1, <2>2 DEF Live
    <3> QED
      BY <2>1, <3>1, <3>2
  <2>4. \A j \in DOMAIN to_client' : to_client'[j].type = "SUBACK" => to_client'[j].id \in DOMAIN server_subs'
    BY <1>5, <1>8, <1>9, <1>10
  <2>5. got' = 0
    BY <1>3, <1>6
  <2> QED
    BY <2>1, <2>3, <2>4, <2>5 DEF Restored
<1>21. IInvOf(own2)'
  BY <1>2, <1>10, <1>11, <1>12, <1>13, <1>15, <1>17, <1>19, <1>20, ServerMoves
<1> QED
  BY <1>21

\* The server handles a frame.
LEMMA ServeKeeps ==
    ASSUME NEW own \in [Nat -> Nat], IInvOf(own), Serve
    PROVE  \E own2 \in [Nat -> Nat] : IInvOf(own2)'
<1> DEFINE f == Head(to_server)
           x == [type |-> "PONG"]
<1>1. x \in Reply /\ x.type = "PONG"
  BY DEF Reply
<1>2. /\ Known(own) \/ restarted
      /\ 1 \in DOMAIN to_server /\ f = to_server[1]
  BY ServeFacts DEF IInvOf
<1>3. \/ /\ f.type = "SUB"
         /\ server_subs' = Put(server_subs, next_id, f.handle)
         /\ next_id' = next_id + 1
         /\ to_client' = Append(to_client, [type |-> "SUBACK", corr |-> f.corr, id |-> next_id])
      \/ UNCHANGED <<server_subs, next_id, to_client>>
      \/ f.type = "UNSUB" /\ server_subs' = Drop(server_subs, f.id) /\ UNCHANGED <<next_id, to_client>>
      \/ f.type = "PING" /\ to_client' = Append(to_client, x) /\ UNCHANGED <<server_subs, next_id>>
  BY DEF Serve
<1> HIDE DEF x
<1>4. CASE /\ f.type = "SUB"
           /\ server_subs' = Put(server_subs, next_id, f.handle)
           /\ next_id' = next_id + 1
           /\ to_client' = Append(to_client, [type |-> "SUBACK", corr |-> f.corr, id |-> next_id])
  BY <1>4, ServeSubKeeps
<1>5. CASE UNCHANGED <<server_subs, next_id, to_client>>
  <2> DEFINE none == {}
  <2>1. /\ DOMAIN server_subs' = DOMAIN server_subs \ none /\ \A i \in DOMAIN server_subs' : server_subs'[i] = server_subs[i]
        /\ next_id' = next_id /\ to_client' = to_client /\ \A i \in none : GivenUp(own[i])
    BY <1>5
  <2> HIDE DEF none
  <2>2. IInvOf(own)'
    BY <1>1, <2>1, ServeAside
  <2> QED
    BY <2>2
<1>6. CASE f.type = "UNSUB" /\ server_subs' = Drop(server_subs, f.id) /\ UNCHANGED <<next_id, to_client>>
  <2>1. /\ DOMAIN server_subs' = DOMAIN server_subs \ {f.id} /\ \A i \in DOMAIN server_subs' : server_subs'[i] = server_subs[i]
        /\ next_id' = next_id /\ to_client' = to_client
    BY <1>6 DEF Drop, Restrict
  <2>2. ~ restarted => \A i \in {f.id} : GivenUp(own[i])
    BY <1>2, <1>6, ZenonT(40) DEF Known
  <2> HIDE DEF f
  <2>3. IInvOf(own)'
    BY <1>1, <2>1, <2>2, ServeAside
  <2> QED
    BY <2>3
<1>7. CASE f.type = "PING" /\ to_client' = Append(to_client, x) /\ UNCHANGED <<server_subs, next_id>>
  <2> DEFINE none == {}
  <2>1. /\ DOMAIN server_subs' = DOMAIN server_subs \ none /\ \A i \in DOMAIN server_subs' : server_subs'[i] = server_subs[i]
        /\ next_id' = next_id /\ \A i \in none : GivenUp(own[i])
    BY <1>7
  <2> HIDE DEF none
  <2>2. IInvOf(own)'
    BY <1>1, <1>7, <2>1, ServeAside
  <2> QED
    BY <2>2
<1> QED
  BY <1>3, <1>4, <1>5, <1>6, <1>7

-----------------------------------------------------------------------------
(* The SUBACK has come *)

\* The holder's locals are gone with the lock.
LEMMA ReleaseFacts ==
    ASSUME Release
    PROVE  /\ lock' = None /\ corr' = 0 /\ got' = 0 /\ cur' = NoOne /\ todo' = {} /\ remapped' = Empty
           /\ Agree' /\ Phase' = "free" /\ goal'[LoopTask] = "none" => Locked' /\ HolderTypes'
<1>1. /\ lock' = None /\ corr' = 0 /\ got' = 0 /\ cur' = NoOne /\ todo' = {} /\ remapped' = Empty
  BY DEF Release
<1>2. HolderTypes'
  BY <1>1, EmptyMap DEF HolderTypes, NoOne
<1>3. Agree' /\ Phase' = "free" /\ goal'[LoopTask] = "none" => Locked'
  BY <1>1 DEF Locked, SubPhases
<1> QED
  BY <1>1, <1>2, <1>3

\* The holder drops the lock and has changed what the client keeps.
LEMMA ReleasesWith ==
    ASSUME NEW own, IInvOf(own), Release, NEW t \in Tasks, pc[t] \in Holding, NEW l, l \notin Holding,
           Goto(t, l), UNCHANGED <<network, server, tasks_of_conn, sub_counter>>, UNCHANGED made,
           UNCHANGED <<sent, late, flushed, restarted>>, pending_flush' = {}, ~ Asking, ~ Pinging,
           ConnTypes', ClientTypes', CallTypes', HandleTypes', RoutedToOwner', Hands', Room',
           goal'[LoopTask] = "none",
           \A i \in DOMAIN subscriptions' : subscriptions'[i] = own[i] /\ Given(i),
           Kept', ~ restarted => Known(own)' /\ Restored'
    PROVE  IInvOf(own)'
<1>1. /\ NetTypes /\ ServerTypes /\ CallTypes /\ HistoryTypes /\ Agree /\ Network /\ Asked /\ Pinged /\ Single
      /\ Owned(own)
  BY DEF IInvOf, Types, Locked
<1>2. /\ lock' = None /\ corr' = 0 /\ got' = 0 /\ cur' = NoOne /\ todo' = {} /\ remapped' = Empty
  BY ReleaseFacts
<1>3. /\ Agree' /\ Phase' = "free"
  BY <1>1, <1>2, PhaseEnds
<1>4. /\ UNCHANGED <<link, to_server, to_client>> /\ UNCHANGED <<server_subs, next_id, served>>
      /\ UNCHANGED <<connected, write_tx, writer, reader, held>> /\ SendsNothing
  BY DEF network, server, tasks_of_conn, SendsNothing
<1>5. Types' /\ Locked'
  <2>1. NetTypes' /\ ServerTypes' /\ HistoryTypes'
    BY <1>1, <1>4 DEF NetTypes, ServerTypes, HistoryTypes
  <2>2. HolderTypes' /\ Locked'
    BY <1>3, ReleaseFacts
  <2> QED
    BY <2>1, <2>2 DEF Types
<1>6. Network'
  BY <1>1, <1>3, <1>4, NetworkFrame
<1>7. Asked'
  BY <1>1, <1>4, AskedFrame
<1>8. Pinged'
  <2>1. FlushConfirms'
    BY <1>1 DEF Pinged, FlushConfirms
  <2> QED
    BY <1>1, <1>2, <1>3, <1>4, <2>1, PingedFrame
<1>9. Single'
  <2>1. todo' \subseteq todo
    BY <1>2
  <2> QED
    BY <1>1, <1>3, <1>4, <2>1, SingleFrame
<1>10. Owned(own)'
  <2>1. \A j \in DOMAIN to_client : to_client[j].type # "SUBACK"
    BY <1>1 DEF Asked
  <2> QED
    BY <1>1, <1>3, <1>4, <2>1 DEF Owned, Given
<1> QED
  BY <1>5, <1>6, <1>7, <1>8, <1>9, <1>10 DEF IInvOf

\* Nothing is on its way once the SUBACK was taken, and its id is the subscription's.
LEMMA AnsweredFacts ==
    ASSUME NEW own, IInvOf(own), NEW t \in Tasks, pc[t] = "sub_wait", got # 0
    PROVE  /\ lock = t /\ Phase = "sub_wait" /\ pc[t] \in Holding /\ pc[t] \in SubPhases
           /\ ~ Asking /\ ~ Pinging /\ pending_flush = {}
           /\ cur.handle \in Handles /\ cur.stable \in Nat /\ got \in Nat
           /\ own[got] = cur.handle /\ Given(got)
           /\ \A j \in DOMAIN to_server : to_server[j].type # "SUB"
           /\ \A j \in DOMAIN to_client : to_client[j].type # "SUBACK"
<1>1. HolderTypes /\ Locked /\ Agree /\ Asked /\ Pinged /\ Owned(own)
  BY DEF IInvOf, Types, Locked
<1>2. pc[t] \in Holding /\ pc[t] \in SubPhases
  BY DEF Holding, SubPhases
<1>3. lock = t /\ Phase = "sub_wait"
  BY <1>1, <1>2, PhaseOf
<1>4. ~ Asking /\ ~ Pinging /\ pending_flush = {}
  BY <1>1, <1>3 DEF Asking, Pinging, Pinged
<1>5. cur.handle \in Handles /\ cur.stable \in Nat /\ got \in Nat
  <2>1. cur.handle # 0 /\ cur \in [stable : Nat, handle : Handles \cup {0}]
    BY <1>1, <1>2, <1>3 DEF Locked, HolderTypes
  <2> QED
    BY <1>1, <2>1 DEF HolderTypes
<1>6. own[got] = cur.handle /\ Given(got)
  BY <1>1, <1>3 DEF Owned
<1> QED
  BY <1>1, <1>2, <1>3, <1>4, <1>5, <1>6 DEF Asked

\* A new subscription is registered under its id.
LEMMA SubscribedKeeps ==
    ASSUME NEW own, IInvOf(own), NEW t \in Tasks, Subscribed(t)
    PROVE  IInvOf(own)'
<1>1. /\ NetTypes /\ ServerTypes /\ ConnTypes /\ HolderTypes /\ ClientTypes /\ CallTypes /\ HandleTypes /\ Locked /\ Agree /\ Room
      /\ Hands /\ Asked /\ Pinged /\ Kept /\ Owned(own) /\ RoutedToOwner
      /\ (~ restarted => Known(own) /\ Restored) /\ goal[LoopTask] = "none"
  BY DEF IInvOf, Types, Locked, Owned
<1>2. /\ pc[t] = "sub_wait" /\ got # 0 /\ cur.stable = 0 /\ reader # "blocked"
      /\ subscriptions' = Put(subscriptions, got, cur.handle)
      /\ id' = [id EXCEPT ![cur.handle] = got]
      /\ Release /\ UNCHANGED <<network, server, tasks_of_conn, sub_counter>>
      /\ UNCHANGED <<pending_subs, pending_flush>> /\ UNCHANGED closed /\ UNCHANGED <<target, attempts>>
      /\ UNCHANGED <<made, rx, buffer>> /\ UNCHANGED <<sent, late, flushed, restarted>>
  BY DEF Subscribed, StateFree, history
<1>3. /\ UNCHANGED <<link, to_server, to_client>> /\ UNCHANGED <<server_subs, next_id, served>>
      /\ UNCHANGED <<connected, write_tx, writer, reader, held>> /\ UNCHANGED sub_counter /\ SendsNothing
  BY <1>2 DEF network, server, tasks_of_conn, SendsNothing
<1>4. /\ lock = t /\ Phase = "sub_wait" /\ pc[t] \in Holding /\ pc[t] \in SubPhases
      /\ ~ Asking /\ ~ Pinging /\ pending_flush = {}
      /\ cur.handle \in Handles /\ got \in Nat /\ own[got] = cur.handle /\ Given(got)
      /\ \A j \in DOMAIN to_client : to_client[j].type # "SUBACK"
  BY <1>2, AnsweredFacts
<1>5. cur.handle = made /\ id[cur.handle] = 0 /\ t # LoopTask
  BY <1>1, <1>2, <1>4 DEF Kept
<1>6. /\ id' \in [Handles -> Nat] /\ id'[cur.handle] = got
      /\ \A h \in Handles : h # cur.handle => id'[h] = id[h]
  BY <1>1, <1>2, <1>4, ExceptAt DEF HandleTypes
<1>7. /\ DOMAIN subscriptions' = DOMAIN subscriptions \cup {got}
      /\ subscriptions'[got] = cur.handle
      /\ \A i \in DOMAIN subscriptions : i # got => subscriptions'[i] = subscriptions[i]
  <2>1. /\ DOMAIN Put(subscriptions, got, cur.handle) = DOMAIN subscriptions \cup {got}
        /\ Put(subscriptions, got, cur.handle)[got] = cur.handle
        /\ \A i \in DOMAIN subscriptions : i # got => Put(subscriptions, got, cur.handle)[i] = subscriptions[i]
    BY DEF Put
  <2> QED
    BY <1>2, <2>1
<1> DEFINE kept == [handle |-> cur.handle, server |-> got]
<1>8. /\ kept \in [handle : Handles, server : Nat] /\ kept.handle = cur.handle /\ kept.server = got
  BY <1>4
<1>9. \A s \in DOMAIN tracked' : \/ s \in DOMAIN tracked /\ tracked'[s] = tracked[s]
                                 \/ s = got /\ tracked'[s] = kept
  <2>1. CASE goal[t] = "subscribe"
    <3>1. tracked' = Put(tracked, got, kept)
      BY <2>1 DEF Subscribed
    <3> HIDE DEF kept
    <3>2. /\ DOMAIN Put(tracked, got, kept) = DOMAIN tracked \cup {got}
          /\ Put(tracked, got, kept)[got] = kept
          /\ \A s \in DOMAIN tracked : s # got => Put(tracked, got, kept)[s] = tracked[s]
      BY DEF Put
    <3> QED
      <4>1. \A s \in DOMAIN tracked' : s \in DOMAIN tracked \/ s = got
        BY <3>1, <3>2
      <4> QED
        BY <3>1, <3>2, <4>1
  <2>2. CASE goal[t] # "subscribe"
    <3>1. tracked' = tracked
      BY <2>2 DEF Subscribed
    <3> QED
      BY <3>1
  <2> QED
    BY <2>1, <2>2
<1> HIDE DEF kept
<1>10. \E l \in {"idle", "ensure"}, g \in {"none", "reply"}, h \in Handles \cup {0} :
          /\ Goto(t, l) /\ goal' = [goal EXCEPT ![t] = g] /\ hand' = [hand EXCEPT ![t] = h]
          /\ g = "reply" => h = cur.handle
  <2>1. CASE goal[t] = "subscribe"
    <3>1. Goto(t, "idle") /\ goal' = [goal EXCEPT ![t] = "none"] /\ UNCHANGED hand
      BY <2>1 DEF Subscribed
    <3>2. hand[t] \in Handles \cup {0} /\ hand = [hand EXCEPT ![t] = hand[t]]
      BY <1>1 DEF CallTypes
    <3> QED
      BY <3>1, <3>2
  <2>2. CASE goal[t] # "subscribe"
    BY <1>4, <2>2 DEF Subscribed
  <2> QED
    BY <2>1, <2>2
<1>11. PICK l \in {"idle", "ensure"}, g \in {"none", "reply"}, h \in Handles \cup {0} :
          /\ Goto(t, l) /\ goal' = [goal EXCEPT ![t] = g] /\ hand' = [hand EXCEPT ![t] = h]
          /\ g = "reply" => h = cur.handle
  BY <1>10
<1>12. l \notin Holding /\ l \notin {"unsub", "unsub_lock", "unsub_remove", "reply_wait"} /\ l \in PC /\ g \in Goals
       /\ g \notin Subscribing
  BY <1>11 DEF Holding, SubPhases, FlushPhases, PC, Goals, Subscribing
<1>13. /\ pc' \in [Tasks -> PC] /\ pc'[t] = l /\ \A u \in Tasks : u # t => pc'[u] = pc[u]
  BY <1>1, <1>11, <1>12, ExceptAt DEF CallTypes, Goto
<1>14. /\ goal' \in [Tasks -> Goals] /\ goal'[t] = g /\ \A u \in Tasks : u # t => goal'[u] = goal[u]
  BY <1>1, <1>11, <1>12, ExceptAt DEF CallTypes
<1>15. /\ hand' \in [Tasks -> Handles \cup {0}] /\ hand'[t] = h /\ \A u \in Tasks : u # t => hand'[u] = hand[u]
  BY <1>1, <1>11, ExceptAt DEF CallTypes
<1>16. CallTypes' /\ HandleTypes' /\ RoutedToOwner' /\ goal'[LoopTask] = "none"
  <2>1. LoopTask \in Tasks
    BY DEF Tasks
  <2> QED
    BY <1>1, <1>2, <1>5, <1>6, <1>13, <1>14, <1>15, <2>1 DEF CallTypes, HandleTypes, RoutedToOwner
<1>17. ConnTypes'
  <2>1. DOMAIN subscriptions' \subseteq Nat /\ \A i \in DOMAIN subscriptions' : subscriptions'[i] \in Handles
    BY <1>1, <1>4, <1>7 DEF ConnTypes
  <2>2. held' = None
    BY <1>1, <1>2, <1>3 DEF ConnTypes
  <2> QED
    BY <1>1, <1>2, <1>3, <2>1, <2>2 DEF ConnTypes
<1>18. ClientTypes'
  <2>1. got \in Nat \ {0}
    BY <1>2, <1>4
  <2>2. DOMAIN tracked' \subseteq Nat \ {0}
    BY <1>1, <1>9, <2>1 DEF ClientTypes
  <2>3. \A s \in DOMAIN tracked' : tracked'[s] \in [handle : Handles, server : Nat]
    BY <1>1, <1>8, <1>9 DEF ClientTypes
  <2> QED
    BY <1>1, <1>2, <2>2, <2>3 DEF ClientTypes
<1>19. Hands'
  <2>1. \A u \in Tasks : u # t /\ (pc[u] \in {"unsub", "unsub_lock", "unsub_remove", "reply_wait"} \/ goal[u] = "reply") =>
            hand[u] \in Handles /\ id'[hand[u]] # 0
    BY <1>1, <1>5, <1>6 DEF Hands
  <2>2. goal'[t] = "reply" => hand'[t] \in Handles /\ id'[hand'[t]] # 0
    BY <1>2, <1>4, <1>6, <1>11, <1>14, <1>15
  <2>3. pc'[t] \notin {"unsub", "unsub_lock", "unsub_remove", "reply_wait"}
    BY <1>12, <1>13
  <2> QED
    BY <1>13, <1>14, <1>15, <2>1, <2>2, <2>3 DEF Hands
<1>20. Room'
  <2>1. ~ Waiting(t)'
    BY <1>12, <1>14 DEF Waiting
  <2>2. made \in Nat
    BY <1>1, SMT DEF HandleTypes
  <2> QED
    BY <1>1, <1>2, <1>4, <1>13, <1>14, <2>1, <2>2, RoomHolder
<1>21. /\ lock' = None /\ got' = 0 /\ cur' = NoOne /\ todo' = {} /\ remapped' = Empty
  BY <1>2, ReleaseFacts
<1>22. Phase' = "free" /\ NoOne.stable = 0
  BY <1>21 DEF Phase, NoOne
<1>23. \A s \in DOMAIN tracked : /\ s # 0 /\ id[tracked[s].handle] = s /\ tracked[s].handle \in Handles
                                 /\ tracked[s].handle # cur.handle
  <2>1. \A s \in DOMAIN tracked : s # 0 /\ tracked[s].handle \in Handles
    BY <1>1 DEF ClientTypes
  <2> QED
    BY <1>1, <1>5, <2>1 DEF Kept
<1>24. Kept'
  <2>1. \A f \in Handles : f > made => id'[f] = 0
    <3>1. \A f \in Handles : f > made => f # cur.handle
      BY <1>1, <1>5, SMT DEF Handles, HandleTypes
    <3> QED
      BY <1>1, <1>6, <3>1 DEF Kept
  <2>2. \A s \in DOMAIN tracked' : id'[tracked'[s].handle] = s
    <3>1. ASSUME NEW s \in DOMAIN tracked' PROVE id'[tracked'[s].handle] = s
      <4>1. CASE s \in DOMAIN tracked /\ tracked'[s] = tracked[s]
        BY <1>6, <1>23, <4>1
      <4>2. CASE s = got /\ tracked'[s] = kept
        BY <1>6, <1>8, <4>2
      <4> QED
        BY <1>9, <4>1, <4>2
    <3> QED
      BY <3>1
  <2>3. Phase' \notin SubPhases
    BY <1>22 DEF SubPhases
  <2> QED
    BY <1>2, <1>21, <1>22, <2>1, <2>2, <2>3 DEF Kept
<1>25. \A i \in DOMAIN subscriptions' : subscriptions'[i] = own[i] /\ Given(i)
  BY <1>1, <1>4, <1>7 DEF Owned
<1>26. ASSUME ~ restarted PROVE Known(own)'
  <2>1. Known(own) /\ got < next_id
    BY <1>1, <1>4, <1>26 DEF Given
  <2>2. \A f \in Handles : id'[f] # 0 => own[id'[f]] = f /\ id'[f] < next_id
    BY <1>4, <1>6, <2>1 DEF Known
  <2>3. \A s \in DOMAIN tracked' : own[tracked'[s].server] = tracked'[s].handle /\ tracked'[s].server < next_id
    <3>1. ASSUME NEW s \in DOMAIN tracked'
          PROVE  own[tracked'[s].server] = tracked'[s].handle /\ tracked'[s].server < next_id
      <4>1. CASE s \in DOMAIN tracked /\ tracked'[s] = tracked[s]
        BY <2>1, <4>1 DEF Known
      <4>2. CASE s = got /\ tracked'[s] = kept
        BY <1>4, <1>8, <2>1, <4>2
      <4> QED
        BY <1>9, <4>1, <4>2
    <3> QED
      BY <3>1
  <2>4. \A f : GivenUp(f) => GivenUp(f)'
    <3>1. ASSUME NEW f, GivenUp(f) PROVE GivenUp(f)'
      <4>1. f \in Handles /\ id[f] # 0 /\ id[f] \notin DOMAIN tracked /\ f # cur.handle
        BY <1>5, <3>1 DEF GivenUp
      <4>2. id'[f] = id[f] /\ id[f] # got
        BY <1>4, <1>6, <2>1, <4>1 DEF Known
      <4> QED
        BY <1>9, <4>1, <4>2 DEF GivenUp
    <3> QED
      BY <3>1
  <2>5. (\A u \in Tasks : pc[u] \in {"unsub_lock", "unsub_remove"} =>
           own[target[u]] = hand[u] /\ target[u] < next_id /\ GivenUp(hand[u]))'
    <3>1. \A u \in Tasks : u # t /\ pc[u] \in {"unsub_lock", "unsub_remove"} =>
              own[target[u]] = hand[u] /\ target[u] < next_id /\ GivenUp(hand[u])
      BY <2>1 DEF Known
    <3>2. pc'[t] \notin {"unsub_lock", "unsub_remove"}
      BY <1>12, <1>13
    <3> QED
      BY <1>2, <1>3, <1>13, <1>15, <2>4, <3>1, <3>2, ZenonT(40) DEF GivenUp
  <2>6. (\A j \in DOMAIN to_server : to_server[j].type = "UNSUB" =>
           to_server[j].id < next_id /\ GivenUp(own[to_server[j].id]))'
    <3>1. \A j \in DOMAIN to_server : to_server[j].type = "UNSUB" =>
              to_server[j].id < next_id /\ GivenUp(own[to_server[j].id])
      BY <2>1 DEF Known
    <3> QED
      BY <1>3, <2>4, <3>1 DEF GivenUp
  <2> QED
    BY <1>3, <1>21, <2>2, <2>3, <2>5, <2>6, EmptyMap DEF Known
<1>27. ASSUME ~ restarted PROVE Restored'
  <2>1. ~ Replaying /\ ~ Replaying' /\ Wanted
    BY <1>2, <1>4, <1>21, <1>22 DEF Replaying, Wanted
  <2>2. ASSUME link = "up" PROVE (\A s \in DOMAIN tracked : Live(tracked[s].server, tracked[s].handle))'
    <3>1. /\ \A s \in DOMAIN tracked : Live(tracked[s].server, tracked[s].handle)
          /\ got \in DOMAIN server_subs
      BY <1>1, <1>2, <1>4, <1>27, <2>1, <2>2 DEF Restored
    <3>2. server_subs[got] = cur.handle
      BY <1>1, <1>4, <3>1 DEF Owned
    <3>4. ASSUME NEW s \in DOMAIN tracked'
          PROVE  /\ tracked'[s].server \in DOMAIN server_subs
                 /\ server_subs[tracked'[s].server] = tracked'[s].handle
                 /\ rx[tracked'[s].handle] => tracked'[s].server \in DOMAIN subscriptions'
      <4>1. CASE s \in DOMAIN tracked /\ tracked'[s] = tracked[s]
        BY <1>7, <3>1, <4>1 DEF Live
      <4>2. CASE s = got /\ tracked'[s] = kept
        BY <1>7, <1>8, <3>1, <3>2, <4>2
      <4> QED
        BY <1>9, <4>1, <4>2
    <3> QED
      BY <1>2, <1>3, <3>4 DEF Live
  <2> QED
    BY <1>3, <1>4, <1>21, <2>1, <2>2 DEF Restored
<1>28. pending_flush' = {}
  BY <1>2, <1>4
<1> QED
  BY <1>2, <1>4, <1>11, <1>12, <1>16, <1>17, <1>18, <1>19, <1>20, <1>24, <1>25, <1>26, <1>27,
     <1>28, ReleasesWith

\* A replayed subscription is live again, under the id that remapped has for it.
LEMMA ReplayedKeeps ==
    ASSUME NEW own, IInvOf(own), NEW t \in Tasks, Replayed(t)
    PROVE  IInvOf(own)'
<1>1. /\ NetTypes /\ ServerTypes /\ ConnTypes /\ HolderTypes /\ ClientTypes /\ CallTypes /\ HandleTypes
      /\ HistoryTypes /\ Locked /\ Agree /\ Room /\ Network /\ Hands /\ Asked /\ Pinged /\ Kept /\ Single
      /\ Owned(own) /\ (~ restarted => Known(own) /\ Restored) /\ goal[LoopTask] = "none" /\ RoutedToOwner
  BY DEF IInvOf, Types, Locked, Owned
<1>2. /\ pc[t] = "sub_wait" /\ got # 0 /\ cur.stable # 0 /\ reader # "blocked"
      /\ subscriptions' = Put(subscriptions, got, cur.handle)
      /\ remapped' = Put(remapped, cur.stable, got) /\ got' = 0 /\ cur' = NoOne /\ Goto(t, "replay")
      /\ UNCHANGED <<link, to_server, to_client>> /\ UNCHANGED <<server_subs, next_id, served>>
      /\ UNCHANGED <<connected, write_tx, writer, reader, held>> /\ UNCHANGED sub_counter
      /\ UNCHANGED <<pending_subs, pending_flush>> /\ UNCHANGED <<lock, corr, todo>>
      /\ UNCHANGED <<tracked, closed>> /\ UNCHANGED <<goal, hand, target, attempts>>
      /\ UNCHANGED <<made, id, rx, buffer>> /\ UNCHANGED <<sent, late, flushed, restarted>> /\ SendsNothing
  BY DEF Replayed, StateFree, network, server, tasks_of_conn, client, handles, history,
     SendsNothing
<1>3. /\ lock = t /\ Phase = "sub_wait" /\ pc[t] \in Holding /\ pc[t] \in SubPhases
      /\ ~ Asking /\ ~ Pinging /\ pending_flush = {} /\ cur.stable \in Nat
      /\ cur.handle \in Handles /\ got \in Nat /\ own[got] = cur.handle /\ Given(got)
      /\ \A j \in DOMAIN to_client : to_client[j].type # "SUBACK"
  BY <1>2, AnsweredFacts
<1>4. "replay" \in Holding /\ "replay" \notin SubPhases /\ "replay" \notin FlushPhases
  BY DEF Holding, SubPhases, FlushPhases
<1>5. /\ Agree' /\ Phase' = "replay" /\ pc'[t] = "replay" /\ \A u \in Tasks : u # t => pc'[u] = pc[u]
  BY <1>1, <1>2, <1>3, <1>4, PhaseMoves
<1>6. /\ DOMAIN subscriptions' = DOMAIN subscriptions \cup {got}
      /\ subscriptions'[got] = cur.handle
      /\ \A i \in DOMAIN subscriptions : i # got => subscriptions'[i] = subscriptions[i]
  BY <1>2 DEF Put
<1>7. /\ DOMAIN remapped' = DOMAIN remapped \cup {cur.stable}
      /\ remapped'[cur.stable] = got
      /\ \A s \in DOMAIN remapped : s # cur.stable => remapped'[s] = remapped[s]
  BY <1>2 DEF Put
<1>8. NoOne.stable = 0 /\ NoOne \in [stable : Nat, handle : Handles \cup {0}] /\ made \in Nat
  BY <1>1, SMT DEF NoOne, HandleTypes
<1>9. Types'
  <2>1. pc' \in [Tasks -> PC]
    BY <1>1, <1>2, ExceptAt DEF CallTypes, Goto, PC
  <2>2. CallTypes' /\ HandleTypes' /\ NetTypes' /\ HistoryTypes'
    BY <1>1, <1>2, <2>1 DEF CallTypes, HandleTypes, NetTypes, HistoryTypes
  <2>3. ServerTypes' /\ ClientTypes'
    BY <1>1, <1>2 DEF ServerTypes, ClientTypes
  <2>4. ConnTypes'
    <3>1. DOMAIN subscriptions' \subseteq Nat /\ \A i \in DOMAIN subscriptions' : subscriptions'[i] \in Handles
      BY <1>1, <1>3, <1>6 DEF ConnTypes
    <3>2. held' = None
      BY <1>1, <1>2 DEF ConnTypes
    <3> QED
      BY <1>1, <1>2, <3>1, <3>2 DEF ConnTypes
  <2>5. HolderTypes'
    <3>1. DOMAIN remapped' \subseteq Nat /\ \A s \in DOMAIN remapped' : remapped'[s] \in Nat
      BY <1>1, <1>3, <1>7 DEF HolderTypes
    <3>2. got' \in Nat
      BY <1>2
    <3> QED
      BY <1>1, <1>2, <1>8, <3>1, <3>2 DEF HolderTypes
  <2> QED
    BY <2>2, <2>3, <2>4, <2>5 DEF Types
<1>10. Locked'
  <2>1. Phase' \notin {"free", "connecting", "unsub_remove"} \cup FlushPhases
    BY <1>5 DEF FlushPhases
  <2> QED
    BY <1>1, <1>2, <1>4, <1>5, <2>1 DEF Locked
<1>11. Room'
  <2>1. Waiting(t)' => Waiting(t)
    BY <1>2 DEF Waiting
  <2> QED
    BY <1>1, <1>2, <1>3, <1>5, <1>8, <2>1, RoomHolder
<1>12. Network'
  BY <1>1, <1>2, <1>5, NetworkFrame
<1>13. Hands'
  BY <1>1, <1>2, <1>5 DEF Hands
<1>14. Asked'
  BY <1>1, <1>2, <1>3, AskedFrame
<1>15. Pinged'
  <2>1. FlushConfirms' /\ pending_flush' = {}
    BY <1>1, <1>2, <1>3 DEF Pinged, FlushConfirms
  <2> QED
    BY <1>1, <1>2, <1>3, <1>5, <2>1, PingedFrame
<1>16. Kept'
  BY <1>1, <1>2, <1>4, <1>5, KeptFrame
<1>17. Single'
  BY <1>1, <1>2, <1>3, <1>5, SingleFrame
<1>18. Owned(own)'
  <2>1. RoutedToOwner'
    BY <1>1, <1>2 DEF RoutedToOwner
  <2>2. (\A i \in DOMAIN subscriptions : subscriptions[i] = own[i] /\ Given(i))'
    BY <1>1, <1>2, <1>3, <1>6 DEF Owned, Given
  <2> QED
    BY <1>1, <1>2, <1>3, <1>5, <2>1, <2>2 DEF Owned, Given
<1>19. id[cur.handle] = cur.stable /\ \A s \in DOMAIN tracked : id[tracked[s].handle] = s
  BY <1>1, <1>2 DEF Kept
<1>20. ASSUME ~ restarted PROVE Known(own)'
  <2>1. Known(own) /\ got < next_id
    BY <1>1, <1>3, <1>20 DEF Given
  <2>2. \A s \in DOMAIN remapped' :
            own[remapped'[s]] \in Handles /\ id[own[remapped'[s]]] = s /\ remapped'[s] < next_id
    <3>1. ASSUME NEW s \in DOMAIN remapped'
          PROVE  own[remapped'[s]] \in Handles /\ id[own[remapped'[s]]] = s /\ remapped'[s] < next_id
      <4>1. CASE s = cur.stable
        BY <1>3, <1>7, <1>19, <2>1, <4>1
      <4>2. CASE s # cur.stable
        <5>1. s \in DOMAIN remapped /\ remapped'[s] = remapped[s]
          BY <1>7, <4>2
        <5> QED
          BY <2>1, <5>1 DEF Known
      <4> QED
        BY <4>1, <4>2
    <3> QED
      BY <3>1
  <2>3. \A u \in Tasks : pc'[u] \in {"unsub_lock", "unsub_remove"} => pc'[u] = pc[u]
    BY <1>5
  <2> QED
    BY <1>2, <2>1, <2>2, <2>3 DEF Known, GivenUp
<1>21. ASSUME ~ restarted, link = "up" PROVE Restored'
  <2>1. Restored /\ Known(own) /\ Replaying /\ Replaying'
    BY <1>1, <1>2, <1>5, <1>21 DEF Replaying
  <2>2. \A s \in DOMAIN tracked :
               \/ \E e \in todo : e.stable = s
               \/ /\ s \in DOMAIN remapped'
                  /\ remapped'[s] \in DOMAIN server_subs /\ server_subs[remapped'[s]] = tracked[s].handle
                  /\ remapped'[s] \in DOMAIN subscriptions' \/ ~ rx[tracked[s].handle]
    <3>1. ASSUME NEW s \in DOMAIN tracked
          PROVE  \/ \E e \in todo : e.stable = s
                 \/ /\ s \in DOMAIN remapped'
                    /\ remapped'[s] \in DOMAIN server_subs /\ server_subs[remapped'[s]] = tracked[s].handle
                    /\ remapped'[s] \in DOMAIN subscriptions' \/ ~ rx[tracked[s].handle]
      <4>1. CASE s = cur.stable
        <5>1. tracked[s].handle = cur.handle
          <6>1. tracked[s].handle \in Handles /\ id[tracked[s].handle] = cur.stable
            BY <1>19, <4>1, <1>1 DEF ClientTypes
          <6>2. own[cur.stable] = tracked[s].handle
            BY <1>2, <2>1, <6>1, ZenonT(40) DEF Known
          <6>3. own[cur.stable] = cur.handle
            BY <1>2, <1>3, <1>19, <2>1 DEF Known
          <6> QED
            BY <6>2, <6>3
        <5>2. got \in DOMAIN server_subs
          BY <1>2, <1>3, <1>21, <2>1, <4>1 DEF Restored, Wanted
        <5>3. server_subs[got] = cur.handle
          BY <1>1, <1>3, <5>2 DEF Owned
        <5> QED
          BY <1>6, <1>7, <4>1, <5>1, <5>2, <5>3
      <4>2. CASE s # cur.stable
        <5>1. \/ \E e \in todo : e.stable = s
              \/ s \in DOMAIN remapped /\ Live(remapped[s], tracked[s].handle)
          BY <1>21, <2>1, <4>2 DEF Restored
        <5>2. s \in DOMAIN remapped => s \in DOMAIN remapped' /\ remapped'[s] = remapped[s]
          BY <1>7, <4>2
        <5> QED
          BY <1>6, <5>1, <5>2 DEF Live
      <4> QED
        BY <4>1, <4>2
    <3> QED
      BY <3>1
  <2>3. (\A s \in DOMAIN tracked :
               \/ \E e \in todo : e.stable = s
               \/ s \in DOMAIN remapped /\ Live(remapped[s], tracked[s].handle))'
    BY <1>2, <2>2 DEF Live
  <2> QED
    BY <1>2, <1>3, <2>1, <2>3 DEF Restored
<1>22. link # "up" => Restored'
  BY <1>2 DEF Restored
<1> QED
  BY <1>2, <1>9, <1>10, <1>11, <1>12, <1>13, <1>14, <1>15, <1>16, <1>17, <1>18, <1>20, <1>21,
     <1>22 DEF IInvOf

-----------------------------------------------------------------------------
(* The new connection *)

\* A call goes on, or the loop sleeps.
LEMMA ReconnectedFacts ==
    ASSUME CallTypes, Hands, NEW t \in Tasks, Reconnected(t), id' = id
    PROVE  /\ CallTypes' /\ Hands' /\ UNCHANGED <<goal, hand, target>>
           /\ pc'[t] \in {"sleep", "begin"} /\ \A u \in Tasks : u # t => pc'[u] = pc[u]
           /\ \E l \in {"sleep", "begin"} : Goto(t, l)
<1>1. PICK l \in {"sleep", "begin"} : Goto(t, l)
  BY DEF Reconnected
<1>2. /\ UNCHANGED <<goal, hand, target>> /\ attempts' = [attempts EXCEPT ![t] = 0]
  BY DEF Reconnected
<1>3. 0 \in 0..MaxAttempts /\ l \in PC
  BY <1>1, ClientAssumption, SMT DEF PC
<1>4. attempts' \in [Tasks -> 0..MaxAttempts]
  BY <1>2, <1>3, ExceptAt DEF CallTypes
<1>5. pc' \in [Tasks -> PC] /\ pc'[t] = l /\ \A u \in Tasks : u # t => pc'[u] = pc[u]
  BY <1>1, <1>3, ExceptAt DEF CallTypes, Goto
<1>6. CallTypes'
  BY <1>2, <1>4, <1>5 DEF CallTypes
<1>7. Hands'
  BY <1>1, <1>2, <1>5 DEF Hands
<1> QED
  BY <1>1, <1>2, <1>5, <1>6, <1>7

\* The replay is done: what is kept is live under the ids that are entered.
LEMMA ReplayDoneKeeps ==
    ASSUME NEW own, IInvOf(own), NEW t \in Tasks, ReplayDone(t)
    PROVE  IInvOf(own)'
<1>1. /\ NetTypes /\ ServerTypes /\ ConnTypes /\ HolderTypes /\ ClientTypes /\ CallTypes /\ HandleTypes
      /\ HistoryTypes /\ Locked /\ Agree /\ Room /\ Hands /\ Asked /\ Pinged /\ Kept
      /\ Owned(own) /\ (~ restarted => Known(own) /\ Restored) /\ goal[LoopTask] = "none" /\ RoutedToOwner
  BY DEF IInvOf, Types, Locked, Owned
<1>2. /\ pc[t] = "replay" /\ todo = {} /\ Release /\ Reconnected(t)
      /\ UNCHANGED <<network, server, tasks_of_conn, sub_counter>>
      /\ UNCHANGED <<pending_subs, pending_flush, subscriptions>>
      /\ UNCHANGED closed /\ UNCHANGED <<made, id, rx, buffer>> /\ UNCHANGED <<sent, late, flushed, restarted>>
  BY DEF ReplayDone, conn_state, handles, history
<1>3. /\ UNCHANGED <<link, to_server, to_client>> /\ UNCHANGED <<server_subs, next_id, served>>
      /\ UNCHANGED <<connected, write_tx, writer, reader, held>> /\ UNCHANGED sub_counter
  BY <1>2 DEF network, server, tasks_of_conn
<1>4. "replay" \in Holding /\ pc[t] \in Holding
  BY <1>2 DEF Holding
<1>5. lock = t /\ Phase = "replay"
  BY <1>1, <1>2, <1>4, PhaseOf
<1>6. cur = NoOne /\ got = 0 /\ pending_flush = {} /\ ~ Asking /\ ~ Pinging
  BY <1>1, <1>5 DEF Locked, Pinged, Asking, Pinging
<1>7. /\ DOMAIN tracked' = DOMAIN tracked
      /\ \A s \in DOMAIN tracked :
             /\ tracked'[s].handle = tracked[s].handle
             /\ tracked'[s] \in [handle : Handles, server : Nat]
             /\ tracked'[s].server = IF s \in DOMAIN remapped THEN remapped[s] ELSE tracked[s].server
  <2>1. tracked' = [s \in DOMAIN tracked |->
                      IF s \in DOMAIN remapped THEN [tracked[s] EXCEPT !.server = remapped[s]]
                      ELSE tracked[s]]
    BY DEF ReplayDone
  <2>2. \A s \in DOMAIN tracked : tracked[s] \in [handle : Handles, server : Nat]
    BY <1>1 DEF ClientTypes
  <2>3. \A s \in DOMAIN remapped : remapped[s] \in Nat
    BY <1>1 DEF HolderTypes
  <2>4. ASSUME NEW e \in [handle : Handles, server : Nat], NEW i \in Nat
        PROVE  /\ [e EXCEPT !.server = i] \in [handle : Handles, server : Nat]
               /\ [e EXCEPT !.server = i].server = i /\ [e EXCEPT !.server = i].handle = e.handle
    OBVIOUS
  <2>5. DOMAIN tracked' = DOMAIN tracked
    BY <2>1
  <2>6. ASSUME NEW s \in DOMAIN tracked
        PROVE  /\ tracked'[s].handle = tracked[s].handle
               /\ tracked'[s] \in [handle : Handles, server : Nat]
               /\ tracked'[s].server = IF s \in DOMAIN remapped THEN remapped[s] ELSE tracked[s].server
    <3>1. tracked'[s] = IF s \in DOMAIN remapped THEN [tracked[s] EXCEPT !.server = remapped[s]] ELSE tracked[s]
      BY <2>1
    <3>2. CASE s \in DOMAIN remapped
      <4>1. tracked'[s] = [tracked[s] EXCEPT !.server = remapped[s]]
        BY <3>1, <3>2
      <4> QED
        BY <2>2, <2>3, <2>4, <3>2, <4>1
    <3>3. CASE s \notin DOMAIN remapped
      BY <2>2, <3>1, <3>3
    <3> QED
      BY <3>2, <3>3
  <2> QED
    BY <2>5, <2>6
<1>8. /\ CallTypes' /\ Hands' /\ UNCHANGED <<goal, hand, target>>
      /\ pc'[t] \in {"sleep", "begin"} /\ \A u \in Tasks : u # t => pc'[u] = pc[u]
      /\ \E l \in {"sleep", "begin"} : Goto(t, l)
  BY <1>1, <1>2, ReconnectedFacts
<1>9. PICK l \in {"sleep", "begin"} : Goto(t, l)
  BY <1>8
<1>10. l \notin Holding
  BY <1>9 DEF Holding, SubPhases, FlushPhases
<1>11. ConnTypes' /\ HandleTypes' /\ ClientTypes' /\ RoutedToOwner' /\ goal'[LoopTask] = "none"
  <2>1. ConnTypes'
    BY <1>1, <1>2, <1>3 DEF ConnTypes
  <2>2. HandleTypes' /\ RoutedToOwner' /\ goal'[LoopTask] = "none"
    BY <1>1, <1>2, <1>8 DEF HandleTypes, RoutedToOwner
  <2>3. ClientTypes'
    BY <1>1, <1>2, <1>7 DEF ClientTypes
  <2> QED
    BY <2>1, <2>2, <2>3
<1>12. Room'
  <2>1. Waiting(t)' => Waiting(t)
    BY <1>2, <1>8 DEF Waiting, SubPhases
  <2>2. made \in Nat
    BY <1>1, SMT DEF HandleTypes
  <2> QED
    BY <1>1, <1>2, <1>5, <1>8, <2>1, <2>2, RoomHolder
<1>13. /\ lock' = None /\ got' = 0 /\ cur' = NoOne /\ todo' = {} /\ remapped' = Empty
  BY <1>2, ReleaseFacts
<1>14. Phase' = "free" /\ NoOne.stable = 0
  BY <1>13 DEF Phase, NoOne
<1>15. Kept'
  <2>1. \A s \in DOMAIN tracked' : id[tracked'[s].handle] = s
    BY <1>1, <1>7 DEF Kept
  <2>2. Phase' \notin SubPhases
    BY <1>14 DEF SubPhases
  <2> QED
    BY <1>1, <1>2, <1>13, <1>14, <2>1, <2>2 DEF Kept
<1>16. \A i \in DOMAIN subscriptions' : subscriptions'[i] = own[i] /\ Given(i)
  BY <1>1, <1>2 DEF Owned
<1>17. ASSUME ~ restarted PROVE Known(own)'
  <2>1. Known(own)
    BY <1>1, <1>17
  <2>2. ASSUME NEW s \in DOMAIN tracked
        PROVE  own[tracked'[s].server] = tracked'[s].handle /\ tracked'[s].server < next_id
    <3>1. tracked[s].handle \in Handles /\ id[tracked[s].handle] = s /\ s # 0
      BY <1>1 DEF ClientTypes, Kept
    <3>2. own[s] = tracked[s].handle
      BY <2>1, <3>1 DEF Known
    <3>3. CASE s \in DOMAIN remapped
      <4>1. own[remapped[s]] \in Handles /\ id[own[remapped[s]]] = s /\ remapped[s] < next_id
        BY <2>1, <3>3 DEF Known
      <4>2. own[s] = own[remapped[s]]
        BY <2>1, <3>1, <4>1 DEF Known
      <4> QED
        BY <1>7, <3>2, <3>3, <4>1, <4>2
    <3>4. CASE s \notin DOMAIN remapped
      BY <1>7, <2>1, <3>4 DEF Known
    <3> QED
      BY <3>3, <3>4
  <2>3. \A u \in Tasks : pc'[u] \in {"unsub_lock", "unsub_remove"} => pc'[u] = pc[u]
    BY <1>8
  <2> QED
    BY <1>2, <1>3, <1>7, <1>8, <1>13, <2>1, <2>2, <2>3, EmptyMap DEF Known, GivenUp
<1>18. ASSUME ~ restarted PROVE Restored'
  <2>1. Replaying /\ ~ Replaying'
    BY <1>5, <1>13, <1>14 DEF Replaying
  <2>2. link = "up" => \A s \in DOMAIN tracked : s \in DOMAIN remapped /\ Live(remapped[s], tracked[s].handle)
    <3>1. \A s \in DOMAIN tracked : s # cur.stable
      BY <1>1, <1>6, <1>14 DEF ClientTypes
    <3> QED
      BY <1>1, <1>2, <1>18, <2>1, <3>1 DEF Restored
  <2>3. link = "up" => (\A s \in DOMAIN tracked : Live(tracked[s].server, tracked[s].handle))'
    BY <1>2, <1>3, <1>7, <2>2 DEF Live
  <2>4. \A j \in DOMAIN to_client : to_client[j].type # "SUBACK"
    BY <1>1, <1>6 DEF Asked
  <2> QED
    BY <1>3, <1>13, <2>1, <2>3, <2>4 DEF Restored
<1>19. pending_flush' = {}
  BY <1>2, <1>6
<1> QED
  BY <1>2, <1>4, <1>6, <1>8, <1>9, <1>10, <1>11, <1>12, <1>15, <1>16, <1>17, <1>18, <1>19,
     ReleasesWith

\* The server is reached: a new connection, on which everything that is kept is to be asked for.
LEMMA ConnectSucceedsKeeps ==
    ASSUME NEW own, IInvOf(own), NEW t \in Tasks, ConnectSucceeds(t)
    PROVE  IInvOf(own)'
<1>1. /\ NetTypes /\ ServerTypes /\ ConnTypes /\ HolderTypes /\ ClientTypes /\ CallTypes /\ HandleTypes
      /\ HistoryTypes /\ Locked /\ Agree /\ Room /\ Hands /\ Pinged /\ Kept
      /\ Owned(own) /\ (~ restarted => Known(own)) /\ goal[LoopTask] = "none" /\ RoutedToOwner
  BY DEF IInvOf, Types, Locked, Owned
<1>2. /\ pc[t] = "connecting" /\ Goto(t, "replay")
      /\ link' = "up" /\ to_server' = <<>> /\ to_client' = <<>> /\ server_subs' = Empty /\ served' = 0
      /\ connected' = TRUE /\ write_tx' = TRUE /\ writer' = "alive" /\ reader' = "read" /\ held' = None
      /\ pending_subs' = {} /\ pending_flush' = {} /\ subscriptions' = Empty
      /\ sub_counter' = 1 /\ sent' = 0 /\ late' = FALSE
      /\ todo' = {[stable |-> s, handle |-> tracked[s].handle] : s \in DOMAIN tracked}
      /\ UNCHANGED next_id /\ UNCHANGED <<lock, corr, got, cur, remapped>> /\ UNCHANGED <<tracked, closed>>
      /\ UNCHANGED <<goal, hand, target, attempts>> /\ UNCHANGED <<made, id, rx, buffer>>
      /\ UNCHANGED <<flushed, restarted>>
  BY DEF ConnectSucceeds, NewConnection, client, handles
<1>3. "connecting" \in Holding /\ "replay" \in Holding
  BY DEF Holding
<1>4. lock = t /\ Phase = "connecting"
  BY <1>1, <1>2, <1>3, PhaseOf
<1>5. /\ Agree' /\ Phase' = "replay" /\ pc'[t] = "replay" /\ \A u \in Tasks : u # t => pc'[u] = pc[u]
  BY <1>1, <1>2, <1>3, PhaseMoves
<1>6. cur = NoOne /\ remapped = Empty /\ got = 0 /\ cur.stable = 0
  BY <1>1, <1>4, SMT DEF Locked, NoOne
<1>7. /\ \A e \in todo' : e \in [stable : Nat \ {0}, handle : Handles] /\ id[e.handle] = e.stable
      /\ \A e, f \in todo' : e.stable = f.stable => e = f
      /\ \A s \in DOMAIN tracked : \E e \in todo' : e.stable = s
  <2>1. \A s \in DOMAIN tracked : s \in Nat \ {0} /\ tracked[s].handle \in Handles /\ id[tracked[s].handle] = s
    BY <1>1 DEF ClientTypes, Kept
  <2>2. \A e \in todo' : \E s \in DOMAIN tracked : e = [stable |-> s, handle |-> tracked[s].handle]
    BY <1>2
  <2>3. \A s \in DOMAIN tracked : [stable |-> s, handle |-> tracked[s].handle] \in todo'
    BY <1>2
  <2>4. \A s, h : [stable |-> s, handle |-> h].stable = s /\ [stable |-> s, handle |-> h].handle = h
    OBVIOUS
  <2>5. ASSUME NEW e \in todo' PROVE e \in [stable : Nat \ {0}, handle : Handles] /\ id[e.handle] = e.stable
    <3>1. PICK s \in DOMAIN tracked : e = [stable |-> s, handle |-> tracked[s].handle]
      BY <2>2
    <3>2. s \in Nat \ {0} /\ tracked[s].handle \in Handles /\ id[tracked[s].handle] = s
      BY <2>1
    <3>3. e.stable = s /\ e.handle = tracked[s].handle
      BY <2>4, <3>1
    <3>4. e \in [stable : Nat \ {0}, handle : Handles]
      BY <3>1, <3>2
    <3> QED
      BY <3>2, <3>3, <3>4
  <2>6. ASSUME NEW e \in todo', NEW f \in todo', e.stable = f.stable PROVE e = f
    <3>1. PICK s \in DOMAIN tracked : e = [stable |-> s, handle |-> tracked[s].handle]
      BY <2>2
    <3>2. PICK r \in DOMAIN tracked : f = [stable |-> r, handle |-> tracked[r].handle]
      BY <2>2
    <3>3. s = r
      BY <2>4, <2>6, <3>1, <3>2
    <3> QED
      BY <3>1, <3>2, <3>3
  <2>7. \A s \in DOMAIN tracked : \E e \in todo' : e.stable = s
    BY <2>3, <2>4
  <2> QED
    BY <2>5, <2>6, <2>7
<1>8. \A i \in {0, 1} : i \in Nat
  BY SMT
<1>9. Types'
  <2>1. pc' \in [Tasks -> PC]
    BY <1>1, <1>2, ExceptAt DEF CallTypes, Goto, PC
  <2>2. CallTypes' /\ HandleTypes' /\ ClientTypes'
    BY <1>1, <1>2, <2>1 DEF CallTypes, HandleTypes, ClientTypes
  <2>3. NetTypes' /\ HistoryTypes'
    <3>1. <<>> \in Seq(Frame) /\ <<>> \in Seq(Reply)
      BY SMT
    <3> QED
      BY <1>1, <1>2, <1>8, <3>1 DEF NetTypes, HistoryTypes
  <2>4. ServerTypes'
    BY <1>1, <1>2, <1>8, EmptyMap DEF ServerTypes
  <2>5. ConnTypes'
    BY <1>2, <1>8, EmptyMap DEF ConnTypes
  <2>6. HolderTypes'
    BY <1>1, <1>2, <1>7 DEF HolderTypes
  <2> QED
    BY <2>2, <2>3, <2>4, <2>5, <2>6 DEF Types
<1>10. DOMAIN to_server' = {} /\ DOMAIN to_client' = {} /\ Len(to_server') = 0 /\ DOMAIN server_subs' = {}
       /\ DOMAIN subscriptions' = {}
  BY <1>2, EmptyMap, SMT
<1>11. Locked' /\ Network'
  <2>1. Phase' \notin {"free", "connecting", "unsub_remove"} \cup FlushPhases /\ Phase' \notin SubPhases
    BY <1>5 DEF FlushPhases, SubPhases
  <2>2. Locked'
    BY <1>1, <1>2, <1>5, <1>6, <2>1 DEF Locked
  <2>3. Network'
    BY <1>2, <1>5 DEF Network, CanSend
  <2> QED
    BY <2>2, <2>3
<1>12. Room'
  <2>1. Waiting(t)' => Waiting(t)
    BY <1>2 DEF Waiting, SubPhases
  <2>2. made \in Nat
    BY <1>1, SMT DEF HandleTypes
  <2> QED
    BY <1>1, <1>2, <1>4, <1>5, <2>1, <2>2, RoomHolder
<1>13. Hands'
  BY <1>1, <1>2, <1>5 DEF Hands
<1>14. Asked'
  BY <1>2, <1>10, OneOfNothing DEF Asked
<1>15. Pinged'
  <2>1. FlushConfirms' /\ OneOf("PING", "PONG", to_server', to_client')
    BY <1>1, <1>2, OneOfNothing DEF Pinged, FlushConfirms
  <2>2. served' + Len(to_server') = sent'
    BY <1>2, <1>10, SMT
  <2> QED
    BY <1>2, <1>5, <1>10, <2>1, <2>2 DEF Pinged
<1>16. Kept'
  <2>1. Phase' \notin SubPhases
    BY <1>5 DEF SubPhases
  <2>2. \A e \in todo' : e.stable # 0
    BY <1>7
  <2> QED
    BY <1>1, <1>2, <1>6, <1>7, <2>1, <2>2 DEF Kept
<1>17. Single'
  BY <1>5, <1>10 DEF Single
<1>18. Owned(own)'
  <2>1. RoutedToOwner'
    BY <1>1, <1>2 DEF RoutedToOwner
  <2> QED
    BY <1>2, <1>5, <1>10, <2>1 DEF Owned
<1>19. ASSUME ~ restarted PROVE Known(own)'
  <2>1. Known(own)
    BY <1>1, <1>19
  <2>2. \A u \in Tasks : pc'[u] \in {"unsub_lock", "unsub_remove"} => pc'[u] = pc[u]
    BY <1>5
  <2> QED
    BY <1>2, <1>10, <2>1, <2>2 DEF Known, GivenUp
<1>20. Restored'
  <2>1. Replaying'
    BY <1>5 DEF Replaying
  <2>2. (\A s \in DOMAIN tracked : \E e \in todo : e.stable = s)'
    BY <1>2, <1>7
  <2> QED
    BY <1>5, <1>10, <2>1, <2>2 DEF Restored
<1> QED
  BY <1>2, <1>9, <1>11, <1>12, <1>13, <1>14, <1>15, <1>16, <1>17, <1>18, <1>19, <1>20 DEF IInvOf

-----------------------------------------------------------------------------
(* The lock, and parts of the invariant *)

\* So elements of another type are where they were.
LEMMA AppendOther ==
    ASSUME NEW S, NEW q \in Seq(S), NEW x \in S, NEW f, x.type # f
    PROVE  \A j \in DOMAIN Append(q, x) :
               Append(q, x)[j].type = f => j \in DOMAIN q /\ Append(q, x)[j] = q[j]
BY AppendAt

\* The first f is the only one.
LEMMA OneOfFirst ==
    ASSUME NEW f, NEW r, NEW q \in Seq(Frame), NEW p \in Seq(Reply), NEW x \in Frame,
           \A j \in DOMAIN q : q[j].type # f, \A j \in DOMAIN p : p[j].type # r
    PROVE  OneOf(f, r, Append(q, x), p)
BY AppendAt, SMT DEF OneOf

\* Drop removes it.
LEMMA DropAt ==
    ASSUME NEW map, NEW key
    PROVE  /\ DOMAIN Drop(map, key) = DOMAIN map \ {key}
           /\ \A k \in DOMAIN map \ {key} : Drop(map, key)[k] = map[k]
BY DEF Drop, Restrict

\* A step of a task that does not hold the lock, and does not take it, changes no phase.
LEMMA PhaseStays ==
    ASSUME CallTypes, HolderTypes, Agree, NEW t \in Tasks, NEW l, pc[t] \notin Holding, l \notin Holding,
           Goto(t, l), lock' = lock
    PROVE  /\ Agree' /\ Phase' = Phase /\ lock # t
           /\ \A u \in Tasks : u # t => pc'[u] = pc[u]
           /\ pc'[t] = l
<1>1. pc'[t] = l /\ \A u \in Tasks : u # t => pc'[u] = pc[u]
  BY DEF Goto, CallTypes
<1>2. lock # t
  BY DEF Agree
<1>3. Agree'
  BY <1>1, <1>2 DEF Agree
<1>4. lock # None => lock \in Tasks
  BY DEF HolderTypes
<1> QED
  BY <1>1, <1>2, <1>3, <1>4 DEF Phase

\* A task takes the lock.
LEMMA PhaseBegins ==
    ASSUME CallTypes, Agree, NEW t \in Tasks, NEW l \in Holding, lock = None, Goto(t, l), lock' = t
    PROVE  /\ Agree' /\ Phase = "free" /\ Phase' = l
           /\ pc'[t] = l /\ \A u \in Tasks : u # t => pc'[u] = pc[u]
<1>1. pc'[t] = l /\ \A u \in Tasks : u # t => pc'[u] = pc[u]
  BY DEF Goto, CallTypes
<1>2. \A u \in Tasks : u # None
  BY ClientAssumption DEF Tasks
<1>3. Agree'
  BY <1>1, <1>2 DEF Agree
<1> QED
  BY <1>1, <1>2, <1>3 DEF Phase

\* The holder's locals.
LEMMA LockedFrame ==
    ASSUME Locked, UNCHANGED <<got, cur, todo, remapped>>, Phase' = Phase, Agree', goal'[LoopTask] = "none"
    PROVE  Locked'
BY DEF Locked

\* The ids in use.
LEMMA OwnedFrame ==
    ASSUME NEW own, Owned(own), RoutedToOwner', Asked,
           UNCHANGED <<server_subs, link, restarted, next_id, subscriptions, to_client, held>>,
           Asking => cur' = cur,
           Phase' = "sub_wait" /\ got' # 0 => Phase = "sub_wait" /\ got' = got /\ cur' = cur
    PROVE  Owned(own)'
<1>1. \A j \in DOMAIN to_client : to_client[j].type = "SUBACK" => cur' = cur
  BY DEF Asked
<1> QED
  BY <1>1 DEF Owned, Given

\* The ids in use of earlier connections.
LEMMA KnownFrame ==
    ASSUME NEW own, Known(own), NetTypes, UNCHANGED <<id, next_id, tracked>>,
           \A s \in DOMAIN remapped' : s \in DOMAIN remapped /\ remapped'[s] = remapped[s],
           SendsNothing \/ \E x \in Frame : x.type # "UNSUB" /\ Sends(x),
           \A u \in Tasks : pc'[u] \in {"unsub_lock", "unsub_remove"} =>
               /\ pc[u] \in {"unsub_lock", "unsub_remove"}
               /\ target'[u] = target[u] /\ hand'[u] = hand[u]
    PROVE  Known(own)'
<1>1. \A j \in DOMAIN to_server' : to_server'[j].type = "UNSUB" =>
          j \in DOMAIN to_server /\ to_server'[j] = to_server[j]
  <2>1. CASE SendsNothing
    BY <2>1 DEF SendsNothing
  <2>2. ASSUME NEW x \in Frame, x.type # "UNSUB", Sends(x) PROVE <1>1!:
    <3>1. to_server \in Seq(Frame) /\ to_server' = Append(to_server, x)
      BY <2>2 DEF NetTypes, Sends
    <3>2. \A j \in DOMAIN Append(to_server, x) : Append(to_server, x)[j].type = "UNSUB" =>
              j \in DOMAIN to_server /\ Append(to_server, x)[j] = to_server[j]
      BY <2>2, <3>1, AppendOther, SMT
    <3> QED
      BY <3>1, <3>2
  <2> QED
    BY <2>1, <2>2
<1>2. (\A t \in Tasks : pc[t] \in {"unsub_lock", "unsub_remove"} =>
           own[target[t]] = hand[t] /\ target[t] < next_id /\ GivenUp(hand[t]))'
  BY ZenonT(40) DEF Known, GivenUp
<1>3. (\A j \in DOMAIN to_server : to_server[j].type = "UNSUB" =>
           to_server[j].id < next_id /\ GivenUp(own[to_server[j].id]))'
  BY <1>1, ZenonT(40) DEF Known, GivenUp
<1> QED
  BY <1>2, <1>3 DEF Known

\* The replay.
LEMMA RestoredFrame ==
    ASSUME Restored, ClientTypes, \A h \in Handles : rx'[h] => rx[h],
           UNCHANGED <<link, tracked, todo, remapped, server_subs, subscriptions, to_client>>,
           cur'.stable = cur.stable, Phase' = "replay" <=> Phase = "replay",
           Phase' = "sub_wait" /\ got' # 0 => Phase = "sub_wait" /\ got' = got
    PROVE  Restored'
<1>2. \A s \in DOMAIN tracked : tracked[s].handle \in Handles
  BY DEF ClientTypes
<1>3. (Replaying' <=> Replaying) /\ (Wanted' <=> Wanted)
  BY DEF Replaying, Wanted
<1>4. SUFFICES ASSUME link = "up" PROVE Restored'
  BY DEF Restored
<1>5. (\A s \in DOMAIN tracked :
         IF Replaying
         THEN \/ s = cur.stable
              \/ \E e \in todo : e.stable = s
              \/ s \in DOMAIN remapped /\ Live(remapped[s], tracked[s].handle)
         ELSE Live(tracked[s].server, tracked[s].handle))'
  BY <1>2, <1>3, <1>4 DEF Restored, Live
<1> QED
  BY <1>3, <1>4, <1>5 DEF Restored

\* A step beside the connection: its task neither holds the lock nor takes it, and publishes at most.
LEMMA Aside ==
    ASSUME NEW own, IInvOf(own), Types', Agree', Room', Hands', RoutedToOwner', goal'[LoopTask] = "none",
           UNCHANGED <<link, to_client>>, UNCHANGED <<server_subs, next_id, served>>,
           UNCHANGED <<write_tx, writer, held>>, UNCHANGED <<pending_flush, subscriptions>>,
           UNCHANGED <<lock, corr, got, cur, todo, remapped>>, UNCHANGED <<tracked, made, id>>,
           UNCHANGED <<late, flushed, restarted>>, SendsNothing \/ Sends([type |-> "PUB"]),
           Phase' = Phase, Phase = "flush_wait" => target'[lock'] = target[lock],
           \A u \in Tasks : pc'[u] \in {"unsub_lock", "unsub_remove"} =>
               /\ pc[u] \in {"unsub_lock", "unsub_remove"}
               /\ target'[u] = target[u] /\ hand'[u] = hand[u],
           \A h \in Handles : rx'[h] => rx[h]
    PROVE  IInvOf(own)'
<1>1. [type |-> "PUB"] \in Frame /\ [type |-> "PUB"].type \notin {"SUB", "PING", "UNSUB"}
  BY DEF Frame
<1>2. /\ SendsNothing \/ \E x \in Frame : x.type # "SUB" /\ Sends(x)
      /\ SendsNothing \/ \E x \in Frame : x.type # "PING" /\ Sends(x)
      /\ SendsNothing \/ \E x \in Frame : x.type # "UNSUB" /\ Sends(x)
  BY <1>1
<1>3. /\ Asking => Asking' /\ cur' = cur
      /\ Pinging => Pinging' /\ target'[lock'] = target[lock]
  BY DEF Asking, Pinging
<1>4. Locked' /\ Network'
  BY LockedFrame, NetworkFrame DEF IInvOf
<1>5. Asked'
  BY <1>2, <1>3, AskedFrame DEF IInvOf, Types
<1>6. Pinged'
  <2>1. /\ pending_flush' \subseteq {corr'} /\ FlushConfirms'
        /\ pending_flush' # {} => got' = 0 /\ Phase' \in {"flush_send", "flush_wait", "flush_expired"}
    BY DEF IInvOf, Pinged, FlushConfirms
  <2>2. Pinged /\ NetTypes /\ ServerTypes /\ HistoryTypes
    BY DEF IInvOf, Types
  <2> QED
    BY <1>2, <1>3, <2>1, <2>2, PingedFrame
<1>7. Kept'
  BY KeptFrame DEF IInvOf, Types
<1>8. Single'
  <2>1. Phase' \in {"sub_pending", "sub_send"} => \A i \in DOMAIN server_subs : server_subs[i] # cur'.handle
    BY DEF IInvOf, Single
  <2> QED
    BY <1>2, <2>1, SingleFrame DEF IInvOf, Types
<1>9. Owned(own)'
  BY OwnedFrame DEF IInvOf
<1>10. ~ restarted' => Known(own)'
  BY <1>2, KnownFrame DEF IInvOf, Types
<1>11. ~ restarted' => Restored'
  BY RestoredFrame DEF IInvOf, Types
<1> QED
  BY <1>4, <1>5, <1>6, <1>7, <1>8, <1>9, <1>10, <1>11 DEF IInvOf

-----------------------------------------------------------------------------
(* Calls that do not use the connection *)

\* The types of what such a step leaves alone.
LEMMA TypesFrame ==
    ASSUME Types, UNCHANGED <<network, server, tasks_of_conn, sub_counter, conn_state, holder, tracked, history>>,
           closed' \in BOOLEAN, CallTypes', HandleTypes'
    PROVE  Types'
<1>1. NetTypes' /\ ServerTypes'
  BY DEF Types, NetTypes, ServerTypes, network, server
<1>2. ConnTypes'
  BY DEF Types, ConnTypes, tasks_of_conn, conn_state
<1>3. HolderTypes' /\ ClientTypes' /\ HistoryTypes'
  BY DEF Types, HolderTypes, ClientTypes, HistoryTypes, holder, history
<1> QED
  BY <1>1, <1>2, <1>3 DEF Types

\* A call goes from one label to another without the lock.
LEMMA AsideCall ==
    ASSUME NEW own, IInvOf(own), NEW t \in Tasks, NEW l, pc[t] \notin Holding,
           l \notin Holding \cup {"unsub_lock"}, Goto(t, l),
           UNCHANGED <<network, server, tasks_of_conn, sub_counter, conn_state, holder, tracked, history>>,
           UNCHANGED <<made, id>>,
           closed' \in BOOLEAN, CallTypes', HandleTypes', Room', Hands', RoutedToOwner',
           goal'[LoopTask] = "none",
           \A u \in Tasks : u # t => target'[u] = target[u] /\ hand'[u] = hand[u],
           \A h \in Handles : rx'[h] => rx[h]
    PROVE  IInvOf(own)'
<1>1. Types /\ Locked
  BY DEF IInvOf
<1>2. CallTypes /\ HolderTypes /\ Agree /\ l \notin Holding /\ l # "unsub_lock" /\ "unsub_remove" \in Holding
  BY <1>1 DEF Types, Locked, Holding
<1>3. /\ UNCHANGED <<link, to_client>> /\ UNCHANGED <<server_subs, next_id, served>>
      /\ UNCHANGED <<write_tx, writer, held>> /\ UNCHANGED <<pending_flush, subscriptions>>
      /\ UNCHANGED <<corr, got, cur, todo, remapped>> /\ UNCHANGED <<tracked, made, id>>
      /\ UNCHANGED <<late, flushed, restarted>> /\ lock' = lock /\ SendsNothing
  BY DEF network, server, tasks_of_conn, conn_state, holder, history, SendsNothing
<1>4. /\ Agree' /\ Phase' = Phase /\ lock # t /\ pc'[t] = l
      /\ \A u \in Tasks : u # t => pc'[u] = pc[u]
  BY <1>2, <1>3, PhaseStays
<1>5. Types'
  BY <1>1, TypesFrame
<1>6. Phase = "flush_wait" => lock \in Tasks
  BY <1>2 DEF HolderTypes, Phase
<1>7. Phase = "flush_wait" => target'[lock'] = target[lock]
  BY <1>3, <1>4, <1>6
<1>8. \A u \in Tasks : pc'[u] \in {"unsub_lock", "unsub_remove"} =>
          /\ pc[u] \in {"unsub_lock", "unsub_remove"}
          /\ target'[u] = target[u] /\ hand'[u] = hand[u]
  BY <1>2, <1>4
<1> HIDE DEF Goto
<1> QED
  BY <1>3, <1>4, <1>5, <1>7, <1>8, Aside

\* What a call that returns leaves.
LEMMA ReturnFacts ==
    ASSUME CallTypes, HandleTypes, NEW t \in Tasks, Return(t)
    PROVE  /\ CallTypes' /\ HandleTypes' /\ made' = made /\ id' = id
           /\ pc'[t] \in {"sleep", "idle"} /\ goal'[t] = "none"
           /\ \A u \in Tasks : u # t =>
                  pc'[u] = pc[u] /\ goal'[u] = goal[u] /\ hand'[u] = hand[u] /\ target'[u] = target[u]
           /\ \A h \in Handles : rx'[h] => rx[h]
           /\ RoutedToOwner => RoutedToOwner'
           /\ Hands => Hands'
<1>1. CallTypes'
  BY ClientAssumption, SMT DEF Return, Goto, CallTypes, PC, Goals
<1>2. /\ pc'[t] \in {"sleep", "idle"} /\ goal'[t] = "none"
      /\ \A u \in Tasks : u # t =>
             pc'[u] = pc[u] /\ goal'[u] = goal[u] /\ hand'[u] = hand[u] /\ target'[u] = target[u]
  BY DEF Return, Goto, CallTypes
<1>3. /\ rx' \in [Handles -> BOOLEAN] /\ \A h \in Handles : rx'[h] => rx[h]
      /\ buffer' \in [Handles -> Seq(Handles)] /\ \A h \in Handles : buffer'[h] = buffer[h] \/ buffer'[h] = <<>>
  <2>1. <<>> \in Seq(Handles)
    BY SMT
  <2>2. CASE goal[t] = "reply"
    <3>1. /\ [rx EXCEPT ![hand[t]] = FALSE] \in [Handles -> BOOLEAN]
          /\ \A d \in Handles : [rx EXCEPT ![hand[t]] = FALSE][d] = IF d = hand[t] THEN FALSE ELSE rx[d]
      BY ExceptAt DEF HandleTypes
    <3>2. /\ [buffer EXCEPT ![hand[t]] = <<>>] \in [Handles -> Seq(Handles)]
          /\ \A d \in Handles : [buffer EXCEPT ![hand[t]] = <<>>][d] = IF d = hand[t] THEN <<>> ELSE buffer[d]
      BY <2>1, ExceptAt DEF HandleTypes
    <3>3. rx' = [rx EXCEPT ![hand[t]] = FALSE] /\ buffer' = [buffer EXCEPT ![hand[t]] = <<>>]
      BY <2>2 DEF Return
    <3> QED
      BY <3>1, <3>2, <3>3
  <2>3. CASE goal[t] # "reply"
    BY <2>3 DEF Return, HandleTypes
  <2> QED
    BY <2>2, <2>3
<1>4. made' = made /\ id' = id
  BY DEF Return
<1>5. Len(<<>>) = 0 /\ DOMAIN <<>> = {} /\ 0 <= SubBuffer
  BY ClientAssumption, SMT
<1>6. HandleTypes'
  BY <1>3, <1>4, <1>5 DEF HandleTypes
<1>7. RoutedToOwner => RoutedToOwner'
  BY <1>3, <1>5 DEF RoutedToOwner
<1>8. Hands => Hands'
  BY <1>2, <1>4 DEF Hands
<1> QED
  BY <1>1, <1>2, <1>3, <1>4, <1>6, <1>7, <1>8

\* A call that does not hold the lock returns.
LEMMA AsideReturn ==
    ASSUME NEW own, IInvOf(own), NEW t \in Tasks, pc[t] \notin Holding, Return(t),
           UNCHANGED <<network, server, tasks_of_conn, sub_counter, conn_state, holder, client, history>>
    PROVE  IInvOf(own)'
<1>1. /\ CallTypes /\ HandleTypes /\ Room /\ Hands /\ RoutedToOwner /\ goal[LoopTask] = "none" /\ closed \in BOOLEAN
      /\ Agree /\ made \in Nat
  BY SMT DEF IInvOf, Types, Owned, Locked, ClientTypes, HandleTypes
<1>2. /\ CallTypes' /\ HandleTypes' /\ made' = made /\ id' = id
      /\ pc'[t] \in {"sleep", "idle"} /\ goal'[t] = "none"
      /\ \A u \in Tasks : u # t =>
             pc'[u] = pc[u] /\ goal'[u] = goal[u] /\ hand'[u] = hand[u] /\ target'[u] = target[u]
      /\ \A h \in Handles : rx'[h] => rx[h]
      /\ RoutedToOwner' /\ Hands'
  BY <1>1, ReturnFacts
<1>3. PICK l \in {"sleep", "idle"} : Goto(t, l)
  BY DEF Return
<1>4. l \notin Holding \cup {"unsub_lock"}
  BY <1>3 DEF Holding, SubPhases, FlushPhases
<1>5. cur' = cur /\ tracked' = tracked /\ closed' = closed
  BY DEF holder, client
<1>6. \A u \in Apps : Waiting(u)' => Waiting(u)
  <2>1. \A u \in Apps : u \in Tasks
    BY DEF Tasks
  <2>2. goal'[t] \notin Subscribing
    BY <1>2 DEF Subscribing
  <2> QED
    BY <1>2, <1>5, <2>1, <2>2 DEF Waiting
<1>7. Room'
  BY <1>1, <1>2, <1>6, RoomFrame
<1>8. goal'[LoopTask] = "none"
  BY <1>1, <1>2 DEF Tasks
<1>9. closed' \in BOOLEAN
  BY <1>1, <1>5
<1> HIDE DEF Return
<1> QED
  BY <1>2, <1>3, <1>4, <1>5, <1>7, <1>8, <1>9, AsideCall

\* A call that does not hold the lock goes on, with what it has.
LEMMA AsideGoto ==
    ASSUME NEW own, IInvOf(own), NEW t \in Tasks, pc[t] \notin Holding,
           NEW l \in PC, l \notin Holding \cup {"unsub", "unsub_lock", "reply_wait"}, Goto(t, l),
           UNCHANGED <<network, server, tasks_of_conn, sub_counter, conn_state, holder, tracked, history>>,
           UNCHANGED <<goal, hand, target>>, UNCHANGED handles,
           closed' \in BOOLEAN, attempts' \in [Tasks -> 0..MaxAttempts]
    PROVE  IInvOf(own)'
<1>1. /\ CallTypes /\ HandleTypes /\ Room /\ Hands /\ RoutedToOwner /\ goal[LoopTask] = "none"
      /\ made \in Nat
  BY SMT DEF IInvOf, Types, Owned, Locked, HandleTypes
<1>2. pc' \in [Tasks -> PC] /\ \A u \in Tasks : pc'[u] = IF u = t THEN l ELSE pc[u]
  BY <1>1, ExceptAt DEF CallTypes, Goto
<1>3. CallTypes'
  BY <1>1, <1>2 DEF CallTypes
<1>4. HandleTypes' /\ RoutedToOwner' /\ UNCHANGED <<made, id, rx>>
  BY <1>1 DEF HandleTypes, RoutedToOwner, handles
<1>5. Hands'
  BY <1>1, <1>2, <1>4 DEF Hands, Holding
<1>6. SubPhases \subseteq Holding /\ cur' = cur
  BY DEF Holding, holder
<1>7. \A u \in Apps : Waiting(u)' => Waiting(u)
  BY <1>2, <1>6 DEF Waiting, Tasks
<1>8. Room'
  BY <1>1, <1>4, <1>7, RoomFrame
<1>9. l \notin Holding \cup {"unsub_lock"}
  OBVIOUS
<1> QED
  BY <1>1, <1>3, <1>4, <1>5, <1>8, <1>9, AsideCall, ZenonT(40)

\* ensure_connected.
LEMMA EnsureKeeps ==
    ASSUME NEW own, IInvOf(own), NEW t \in Tasks, Ensure(t)
    PROVE  IInvOf(own)'
<1>1. PICK l \in {"begin", "attempt"} : Goto(t, l)
  BY DEF Ensure
<1>2. l \in PC /\ l \notin Holding \cup {"unsub", "unsub_lock", "reply_wait"} /\ pc[t] \notin Holding
  BY <1>1 DEF PC, Holding, SubPhases, FlushPhases, Ensure
<1>3. closed' \in BOOLEAN /\ attempts' \in [Tasks -> 0..MaxAttempts]
  BY DEF Ensure, client, IInvOf, Types, ClientTypes, CallTypes
<1>4. /\ UNCHANGED <<network, server, tasks_of_conn, sub_counter, conn_state, holder, tracked, history>>
      /\ UNCHANGED <<goal, hand, target>> /\ UNCHANGED handles
  BY DEF Ensure, client
<1> QED
  BY <1>1, <1>2, <1>3, <1>4, AsideGoto

\* reconnect_once finds that someone else has reconnected.
LEMMA FoundConnectedKeeps ==
    ASSUME NEW own, IInvOf(own), NEW t \in Tasks, FoundConnected(t)
    PROVE  IInvOf(own)'
<1>1. PICK l \in {"sleep", "begin"} : Goto(t, l)
  BY DEF FoundConnected, Reconnected
<1>2. l \in PC /\ l \notin Holding \cup {"unsub", "unsub_lock", "reply_wait"} /\ pc[t] \notin Holding
  BY <1>1 DEF PC, Holding, SubPhases, FlushPhases, FoundConnected
<1>3. closed' \in BOOLEAN
  BY DEF FoundConnected, client, IInvOf, Types, ClientTypes
<1>4. 0 \in 0..MaxAttempts
  BY ClientAssumption, SMT
<1>5. attempts' \in [Tasks -> 0..MaxAttempts]
  BY <1>4, ExceptAt DEF FoundConnected, Reconnected, IInvOf, Types, CallTypes
<1>6. /\ UNCHANGED <<network, server, tasks_of_conn, sub_counter, conn_state, holder, tracked, history>>
      /\ UNCHANGED <<goal, hand, target>> /\ UNCHANGED handles
  BY DEF FoundConnected, Reconnected, client
<1> QED
  BY <1>1, <1>2, <1>3, <1>5, <1>6, AsideGoto

\* The reconnect loop looks at closed and at the connection.
LEMMA LoopKeeps ==
    ASSUME NEW own, IInvOf(own), LoopStep
    PROVE  IInvOf(own)'
<1>1. PICK l \in {"exit", "look", "sleep", "attempt"} : Goto(LoopTask, l)
  BY DEF LoopStep, LoopWakes, LoopLooks
<1>2. LoopTask \in Tasks
  BY DEF Tasks
<1>3. l \in PC /\ l \notin Holding \cup {"unsub", "unsub_lock", "reply_wait"} /\ pc[LoopTask] \notin Holding
  BY <1>1 DEF PC, Holding, SubPhases, FlushPhases, LoopStep, LoopWakes, LoopLooks
<1>4. closed' \in BOOLEAN /\ attempts' \in [Tasks -> 0..MaxAttempts]
  BY DEF LoopStep, LoopWakes, LoopLooks, client, IInvOf, Types, ClientTypes, CallTypes
<1>5. /\ UNCHANGED <<network, server, tasks_of_conn, sub_counter, conn_state, holder, tracked, history>>
      /\ UNCHANGED <<goal, hand, target>> /\ UNCHANGED handles
  BY DEF LoopStep, LoopWakes, LoopLooks, client
<1> QED
  BY <1>1, <1>2, <1>3, <1>4, <1>5, AsideGoto

\* close is called.
LEMMA StartCloseKeeps ==
    ASSUME NEW own, IInvOf(own), NEW t \in Apps, StartClose(t)
    PROVE  IInvOf(own)'
<1>1. t \in Tasks /\ pc[t] = "idle" /\ Goto(t, "close")
  BY DEF Tasks, StartClose
<1>2. /\ "close" \in PC /\ "close" \notin Holding \cup {"unsub", "unsub_lock", "reply_wait"}
      /\ pc[t] \notin Holding
  BY <1>1 DEF PC, Holding, SubPhases, FlushPhases
<1>3. closed' \in BOOLEAN /\ attempts' \in [Tasks -> 0..MaxAttempts]
  BY DEF StartClose, IInvOf, Types, CallTypes
<1>4. /\ UNCHANGED <<network, server, tasks_of_conn, sub_counter, conn_state, holder, tracked, history>>
      /\ UNCHANGED <<goal, hand, target>> /\ UNCHANGED handles
  BY DEF StartClose
<1> QED
  BY <1>1, <1>2, <1>3, <1>4, AsideGoto

\* A call of subscribe, request, publish or flush starts.
LEMMA StartKeeps ==
    ASSUME NEW own, IInvOf(own), NEW t \in Apps, NEW c \in Calls \ {"unsubscribe", "close"}, Start(t, c)
    PROVE  IInvOf(own)'
<1>1. /\ CallTypes /\ HandleTypes /\ Room /\ Hands /\ RoutedToOwner /\ goal[LoopTask] = "none"
      /\ made \in Nat /\ closed \in BOOLEAN
  BY SMT DEF IInvOf, Types, Owned, Locked, HandleTypes, ClientTypes
<1>2. t \in Tasks /\ t # LoopTask /\ pc[t] = "idle" /\ Goto(t, "ensure")
  BY ClientAssumption DEF Tasks, Start
<1>3. c \in Goals \ {"reply"}
  BY ClientAssumption DEF Goals
<1>4. pc' \in [Tasks -> PC] /\ \A u \in Tasks : pc'[u] = IF u = t THEN "ensure" ELSE pc[u]
  BY <1>1, <1>2, ExceptAt DEF CallTypes, Goto, PC
<1>5. goal' \in [Tasks -> Goals] /\ \A u \in Tasks : goal'[u] = IF u = t THEN c ELSE goal[u]
  BY <1>1, <1>3, ExceptAt DEF CallTypes, Start
<1>6. /\ UNCHANGED <<network, server, tasks_of_conn, sub_counter, conn_state, holder, tracked, history>>
      /\ UNCHANGED <<closed, hand, target, attempts>> /\ UNCHANGED <<made, id, rx, buffer>> /\ cur' = cur
  BY DEF Start, client, handles, holder
<1>7. CallTypes'
  BY <1>1, <1>4, <1>5, <1>6 DEF CallTypes
<1>8. HandleTypes' /\ RoutedToOwner'
  BY <1>1, <1>6 DEF HandleTypes, RoutedToOwner
<1>9. Hands'
  BY <1>1, <1>3, <1>4, <1>5, <1>6 DEF Hands
<1>10. Room'
  <2>1. SubPhases \subseteq Holding /\ pc[t] \notin Holding
    BY <1>2 DEF Holding, SubPhases, FlushPhases
  <2>2. \A u \in Apps : u # t /\ Waiting(u)' => Waiting(u)
    BY <1>4, <1>5, <1>6 DEF Waiting, Tasks
  <2>3. CASE c \notin Subscribing
    <3>1. \A u \in Apps : Waiting(u)' => Waiting(u)
      BY <2>2, <2>3, <1>2, <1>5 DEF Waiting
    <3> QED
      BY <1>1, <1>6, <3>1, RoomFrame
  <2>4. CASE c \in Subscribing
    <3> DEFINE G == {u \in Apps : goal[u] \in Subscribing}
    <3> DEFINE V == {u \in Apps : Waiting(u)'}
    <3>1. V \subseteq G \cup {t} /\ G \subseteq Apps
      BY <2>2 DEF Waiting
    <3>2. Counted
      BY <1>1 DEF Room
    <3>3. Cardinality(G \cup {t}) \in {Cardinality(G), Cardinality(G) + 1} /\ Cardinality(G) \in Nat
      <4>1. t \in G => G \cup {t} = G
        OBVIOUS
      <4>2. t \notin G => Cardinality(G \cup {t}) = Cardinality(G) + 1
        BY <3>1, <3>2 DEF Counted
      <4>3. Cardinality(G) \in Nat
        BY <3>1, <3>2 DEF Counted
      <4> QED
        BY <4>1, <4>2, <4>3
    <3>4. Cardinality(V) <= Cardinality(G \cup {t}) /\ Cardinality(V) \in Nat
      <4>1. G \cup {t} \in SUBSET Apps /\ V \in SUBSET (G \cup {t}) /\ V \in SUBSET Apps
        BY <3>1
      <4> QED
        BY <3>2, <4>1 DEF Counted
    <3>5. made + Cardinality(G) < MaxHandles /\ MaxHandles \in Nat
      BY <2>4, ClientAssumption DEF Start
    <3> HIDE DEF G, V
    <3>6. made + Cardinality(V) <= MaxHandles
      BY <1>1, <3>3, <3>4, <3>5, SMT
    <3> QED
      BY <3>2, <3>6, <1>6 DEF Room, V
  <2> QED
    BY <2>3, <2>4
<1>11. "ensure" \notin Holding \cup {"unsub_lock"} /\ pc[t] \notin Holding
  BY <1>2 DEF Holding, SubPhases, FlushPhases
<1>12. goal'[LoopTask] = "none" /\ closed' \in BOOLEAN
  BY <1>1, <1>2, <1>5, <1>6 DEF Tasks
<1> QED
  BY <1>2, <1>6, <1>7, <1>8, <1>9, <1>10, <1>11, <1>12, AsideCall

\* A call of unsubscribe starts.
LEMMA StartUnsubscribeKeeps ==
    ASSUME NEW own, IInvOf(own), NEW t \in Apps, NEW h \in Handles, StartUnsubscribe(t, h)
    PROVE  IInvOf(own)'
<1>1. /\ CallTypes /\ HandleTypes /\ Room /\ Hands /\ RoutedToOwner /\ goal[LoopTask] = "none"
      /\ made \in Nat /\ closed \in BOOLEAN
  BY SMT DEF IInvOf, Types, Owned, Locked, HandleTypes, ClientTypes
<1>2. t \in Tasks /\ t # LoopTask /\ pc[t] = "idle" /\ Goto(t, "unsub")
  BY ClientAssumption DEF Tasks, StartUnsubscribe
<1>3. "unsubscribe" \in Goals /\ "unsubscribe" \notin Subscribing
  BY DEF Goals, Subscribing
<1>4. pc' \in [Tasks -> PC] /\ \A u \in Tasks : pc'[u] = IF u = t THEN "unsub" ELSE pc[u]
  BY <1>1, <1>2, ExceptAt DEF CallTypes, Goto, PC
<1>5. goal' \in [Tasks -> Goals] /\ \A u \in Tasks : goal'[u] = IF u = t THEN "unsubscribe" ELSE goal[u]
  BY <1>1, <1>3, ExceptAt DEF CallTypes, StartUnsubscribe
<1>6. hand' \in [Tasks -> Handles \cup {0}] /\ \A u \in Tasks : hand'[u] = IF u = t THEN h ELSE hand[u]
  BY <1>1, ExceptAt DEF CallTypes, StartUnsubscribe
<1>7. /\ UNCHANGED <<network, server, tasks_of_conn, sub_counter, conn_state, holder, tracked, history>>
      /\ UNCHANGED <<closed, target, attempts>> /\ UNCHANGED <<made, id, rx, buffer>> /\ cur' = cur
  BY DEF StartUnsubscribe, client, handles, holder
<1>8. CallTypes'
  BY <1>1, <1>4, <1>5, <1>6, <1>7 DEF CallTypes
<1>9. HandleTypes' /\ RoutedToOwner'
  BY <1>1, <1>7 DEF HandleTypes, RoutedToOwner
<1>10. Hands'
  <2>1. id[h] # 0
    BY DEF StartUnsubscribe
  <2> QED
    BY <2>1, <1>1, <1>4, <1>5, <1>6, <1>7 DEF Hands
<1>11. Room'
  <2>1. \A u \in Apps : Waiting(u)' => Waiting(u)
    BY <1>3, <1>4, <1>5, <1>7 DEF Waiting, Tasks
  <2> QED
    BY <1>1, <1>7, <2>1, RoomFrame
<1>12. "unsub" \notin Holding \cup {"unsub_lock"} /\ pc[t] \notin Holding
  BY <1>2 DEF Holding, SubPhases, FlushPhases
<1>13. goal'[LoopTask] = "none" /\ closed' \in BOOLEAN
  BY <1>1, <1>2, <1>5, <1>7 DEF Tasks
<1> QED
  BY <1>2, <1>6, <1>7, <1>8, <1>9, <1>10, <1>11, <1>12, <1>13, AsideCall

\* What is taken from a channel came for its subscription, as did what is left.
LEMMA TakeFacts ==
    ASSUME HandleTypes, RoutedToOwner, NEW h, UNCHANGED <<made, id, rx>>,
           buffer' = [buffer EXCEPT ![h] = Tail(@)], buffer[h] # <<>>
    PROVE  HandleTypes' /\ RoutedToOwner'
<1>1. CASE h \in Handles
  <2>1. /\ Tail(buffer[h]) \in Seq(Handles) /\ Len(Tail(buffer[h])) = Len(buffer[h]) - 1
        /\ \A j \in DOMAIN Tail(buffer[h]) : j + 1 \in DOMAIN buffer[h] /\ Tail(buffer[h])[j] = buffer[h][j + 1]
    BY <1>1, TailAt, ZenonT(40) DEF HandleTypes
  <2>2. /\ buffer' \in [Handles -> Seq(Handles)]
        /\ \A g \in Handles : buffer'[g] = IF g = h THEN Tail(buffer[h]) ELSE buffer[g]
    BY <2>1, ExceptAt, ZenonT(40) DEF HandleTypes
  <2>3. \A n \in Nat : n <= SubBuffer => n - 1 <= SubBuffer
    BY ClientAssumption, SMT
  <2>4. Len(buffer[h]) \in Nat /\ Len(buffer[h]) <= SubBuffer
    BY <1>1, SMT DEF HandleTypes
  <2>5. \A g \in Handles : Len(buffer'[g]) <= SubBuffer
    BY <2>1, <2>2, <2>3, <2>4 DEF HandleTypes
  <2>6. RoutedToOwner'
    BY <2>1, <2>2, <1>1 DEF RoutedToOwner
  <2> QED
    BY <2>2, <2>5, <2>6 DEF HandleTypes
<1>2. CASE h \notin Handles
  <2>1. buffer' = buffer
    BY <1>2 DEF HandleTypes
  <2> QED
    BY <2>1 DEF HandleTypes, RoutedToOwner
<1> QED
  BY <1>1, <1>2

\* The reply to a request comes.
LEMMA GetReplyKeeps ==
    ASSUME NEW own, IInvOf(own), NEW t \in Tasks, GetReply(t)
    PROVE  IInvOf(own)'
<1>1. /\ CallTypes /\ HandleTypes /\ Room /\ Hands /\ RoutedToOwner /\ goal[LoopTask] = "none"
      /\ made \in Nat /\ closed \in BOOLEAN
  BY SMT DEF IInvOf, Types, Owned, Locked, HandleTypes, ClientTypes
<1>2. pc[t] = "reply_wait" /\ Goto(t, "unsub")
  BY DEF GetReply
<1>3. /\ UNCHANGED <<network, server, tasks_of_conn, sub_counter, conn_state, holder, tracked, history>>
      /\ UNCHANGED <<closed, goal, hand, target, attempts>> /\ UNCHANGED <<made, id, rx>> /\ cur' = cur
  BY DEF GetReply, client, holder
<1>4. pc' \in [Tasks -> PC] /\ \A u \in Tasks : pc'[u] = IF u = t THEN "unsub" ELSE pc[u]
  BY <1>1, <1>2, ExceptAt DEF CallTypes, Goto, PC
<1>5. CallTypes'
  BY <1>1, <1>3, <1>4 DEF CallTypes
<1>6. HandleTypes' /\ RoutedToOwner'
  BY <1>1, <1>3, TakeFacts DEF GetReply
<1>7. Hands'
  BY <1>1, <1>2, <1>3, <1>4 DEF Hands
<1>8. pc[t] \notin SubPhases
  BY <1>2 DEF SubPhases
<1>9. \A u \in Apps : Waiting(u)' => Waiting(u)
  BY <1>3, <1>4, <1>8 DEF Waiting, Tasks
<1>10. Room'
  BY <1>1, <1>3, <1>9, RoomFrame
<1>11. "unsub" \notin Holding \cup {"unsub_lock"} /\ pc[t] \notin Holding
  BY <1>2 DEF Holding, SubPhases, FlushPhases
<1> QED
  BY <1>1, <1>2, <1>3, <1>5, <1>6, <1>7, <1>10, <1>11, AsideCall

\* The reply to a request does not come.
LEMMA ReplyTimeoutKeeps ==
    ASSUME NEW own, IInvOf(own), NEW t \in Tasks, ReplyTimeout(t)
    PROVE  IInvOf(own)'
<1>1. pc[t] \notin Holding
  BY DEF Holding, SubPhases, FlushPhases, ReplyTimeout
<1>2. /\ Return(t)
      /\ UNCHANGED <<network, server, tasks_of_conn, sub_counter, conn_state, holder, client, history>>
  BY DEF ReplyTimeout
<1> QED
  BY <1>1, <1>2, AsideReturn

\* The application takes a message, or drops a subscription.
LEMMA HandlesKeep ==
    ASSUME NEW own, IInvOf(own), NEW h \in Handles, Receive(h) \/ DropSubscription(h)
    PROVE  IInvOf(own)'
<1>1. /\ CallTypes /\ HandleTypes /\ Room /\ Hands /\ RoutedToOwner /\ goal[LoopTask] = "none"
      /\ made \in Nat /\ closed \in BOOLEAN /\ Types /\ Agree
  BY SMT DEF IInvOf, Types, Owned, Locked, HandleTypes, ClientTypes
<1>2. /\ UNCHANGED <<network, server, tasks_of_conn, sub_counter, conn_state, holder, tracked, history>>
      /\ UNCHANGED <<closed, pc, goal, hand, target, attempts>> /\ UNCHANGED <<made, id>>
  BY DEF Receive, DropSubscription, client, call
<1>3. HandleTypes' /\ RoutedToOwner' /\ \A g \in Handles : rx'[g] => rx[g]
  <2>1. CASE Receive(h)
    BY <1>1, <2>1, TakeFacts DEF Receive
  <2>2. CASE DropSubscription(h)
    <3>1. /\ rx' \in [Handles -> BOOLEAN]
          /\ \A d \in Handles : rx'[d] = IF d = h THEN FALSE ELSE rx[d]
      BY <1>1, <2>2, ExceptAt DEF HandleTypes, DropSubscription
    <3>2. <<>> \in Seq(Handles) /\ Len(<<>>) = 0 /\ DOMAIN <<>> = {} /\ 0 <= SubBuffer
      BY ClientAssumption, SMT
    <3>3. /\ buffer' \in [Handles -> Seq(Handles)]
          /\ \A d \in Handles : buffer'[d] = IF d = h THEN <<>> ELSE buffer[d]
      BY <1>1, <2>2, <3>2, ExceptAt DEF HandleTypes, DropSubscription
    <3>4. RoutedToOwner'
      BY <1>1, <3>2, <3>3 DEF RoutedToOwner
    <3> QED
      BY <1>1, <1>2, <3>1, <3>2, <3>3, <3>4 DEF HandleTypes
  <2> QED
    BY <2>1, <2>2
<1>4. CallTypes' /\ Hands'
  BY <1>1, <1>2 DEF CallTypes, Hands
<1>5. /\ UNCHANGED <<link, to_client>> /\ UNCHANGED <<server_subs, next_id, served>>
      /\ UNCHANGED <<write_tx, writer, held>> /\ UNCHANGED <<pending_flush, subscriptions>>
      /\ UNCHANGED <<corr, got, cur, todo, remapped>> /\ UNCHANGED <<tracked, made, id>>
      /\ UNCHANGED <<late, flushed, restarted>> /\ lock' = lock /\ SendsNothing
  BY <1>2 DEF network, server, tasks_of_conn, conn_state, holder, history, SendsNothing
<1>6. Agree' /\ Phase' = Phase
  BY <1>1, <1>2, <1>5 DEF Agree, Phase
<1>7. Types'
  BY <1>1, <1>2, <1>3, <1>4, TypesFrame
<1>8. \A u \in Apps : Waiting(u)' => Waiting(u)
  BY <1>2, <1>5 DEF Waiting
<1>9. Room'
  BY <1>1, <1>2, <1>8, RoomFrame
<1>10. goal'[LoopTask] = "none" /\ target'[lock'] = target[lock]
  BY <1>1, <1>2, <1>5
<1>11. \A u \in Tasks : pc'[u] \in {"unsub_lock", "unsub_remove"} =>
           /\ pc[u] \in {"unsub_lock", "unsub_remove"}
           /\ target'[u] = target[u] /\ hand'[u] = hand[u]
  BY <1>2
<1> QED
  BY <1>3, <1>4, <1>5, <1>6, <1>7, <1>9, <1>10, <1>11, Aside

\* publish: one frame is sent, or the call fails.
LEMMA PublishKeeps ==
    ASSUME NEW own, IInvOf(own), NEW t \in Tasks, Publish(t)
    PROVE  IInvOf(own)'
<1>1. /\ NetTypes /\ ServerTypes /\ ConnTypes /\ HolderTypes /\ ClientTypes /\ CallTypes /\ HandleTypes
      /\ HistoryTypes /\ Agree /\ Room /\ Hands /\ goal[LoopTask] = "none"
  BY ZenonT(40) DEF IInvOf, Types, Locked
<1>2. RoutedToOwner /\ made \in Nat
  BY <1>1, SMT DEF IInvOf, Owned, HandleTypes
<1>3. pc[t] = "begin" /\ lock = None /\ pc[t] \notin Holding
  BY DEF Publish, Holding, SubPhases, FlushPhases
<1>4. CASE ~ CanSend
  <2>1. /\ Return(t)
        /\ UNCHANGED <<network, server, tasks_of_conn, sub_counter, conn_state, holder, client, history>>
    BY <1>4 DEF Publish, network, history
  <2> QED
    BY <1>3, <2>1, AsideReturn
<1>5. CASE CanSend
  <2>1. /\ Sends([type |-> "PUB"])
        /\ UNCHANGED <<link, to_client>> /\ UNCHANGED <<server_subs, next_id, served>>
        /\ UNCHANGED <<connected, write_tx, writer, reader, held>> /\ UNCHANGED sub_counter
        /\ UNCHANGED <<pending_subs, pending_flush, subscriptions>>
        /\ UNCHANGED <<lock, corr, got, cur, todo, remapped>> /\ UNCHANGED <<tracked, closed>>
        /\ UNCHANGED <<late, flushed, restarted>>
    BY <1>5 DEF Publish, Enqueue, Sends, server, tasks_of_conn, conn_state, holder, client
  <2>2. /\ CallTypes' /\ HandleTypes' /\ UNCHANGED <<made, id>> /\ RoutedToOwner' /\ Hands'
        /\ \A h \in Handles : rx'[h] => rx[h]
        /\ \A u \in Tasks : u # t =>
               pc'[u] = pc[u] /\ goal'[u] = goal[u] /\ hand'[u] = hand[u] /\ target'[u] = target[u]
        /\ goal'[t] = goal[t] \/ goal'[t] = "none"
        /\ \E l \in {"reply_wait", "sleep", "idle"} : Goto(t, l)
    <3>1. CASE goal[t] = "reply"
      <4>1. Goto(t, "reply_wait") /\ UNCHANGED <<goal, hand, target, attempts>> /\ UNCHANGED <<made, id, rx, buffer>>
        BY <1>5, <3>1 DEF Publish, handles
      <4>2. pc' \in [Tasks -> PC] /\ \A u \in Tasks : pc'[u] = IF u = t THEN "reply_wait" ELSE pc[u]
        BY <1>1, <4>1, ExceptAt DEF CallTypes, Goto, PC
      <4>3. CallTypes' /\ HandleTypes' /\ RoutedToOwner'
        BY <1>1, <1>2, <4>1, <4>2 DEF CallTypes, HandleTypes, RoutedToOwner
      <4>4. Hands'
        BY <1>1, <3>1, <4>1, <4>2 DEF Hands
      <4> QED
        BY <4>1, <4>2, <4>3, <4>4
    <3>2. CASE goal[t] # "reply"
      <4>1. Return(t)
        BY <3>2 DEF Publish
      <4>2. \E l \in {"sleep", "idle"} : Goto(t, l)
        BY <4>1 DEF Return
      <4> QED
        BY <1>1, <1>2, <4>1, <4>2, ReturnFacts
    <3> QED
      BY <3>1, <3>2
  <2>3. PICK l \in {"reply_wait", "sleep", "idle"} : Goto(t, l)
    BY <2>2
  <2>4. l \notin Holding \cup {"unsub_lock", "unsub_remove"} \cup SubPhases
    BY <2>3 DEF Holding, SubPhases, FlushPhases
  <2>5. /\ Agree' /\ Phase' = Phase /\ lock # t /\ pc'[t] = l
        /\ \A u \in Tasks : u # t => pc'[u] = pc[u]
    BY <1>1, <1>3, <2>1, <2>3, <2>4, PhaseStays
  <2>6. Phase # "flush_wait"
    BY <1>3 DEF Phase
  <2>7. Room'
    <3>1. Waiting(t)' => Waiting(t)
      BY <1>3, <2>2 DEF Waiting, Subscribing, Holding
    <3> QED
      BY <1>1, <1>2, <1>3, <2>2, <3>1, RoomHolder
  <2>8. goal'[LoopTask] = "none"
    BY <1>1, <2>2 DEF Tasks
  <2>9. [type |-> "PUB"] \in Frame
    BY DEF Frame
  <2>10. NetTypes'
    BY <1>1, <2>1, <2>9, AppendAt DEF NetTypes, Sends
  <2>11. ServerTypes' /\ ConnTypes'
    BY <1>1, <2>1 DEF ServerTypes, ConnTypes
  <2>12. HolderTypes' /\ ClientTypes'
    BY <1>1, <2>1 DEF HolderTypes, ClientTypes
  <2>13. HistoryTypes'
    BY <1>1, <2>1, SMT DEF HistoryTypes, Sends
  <2>14. Types'
    BY <2>2, <2>10, <2>11, <2>12, <2>13 DEF Types
  <2>15. \A u \in Tasks : pc'[u] \in {"unsub_lock", "unsub_remove"} =>
             /\ pc[u] \in {"unsub_lock", "unsub_remove"}
             /\ target'[u] = target[u] /\ hand'[u] = hand[u]
    BY <2>2, <2>4, <2>5
  <2> QED
    BY <2>1, <2>2, <2>5, <2>6, <2>7, <2>8, <2>14, <2>15, Aside
<1> QED
  BY <1>4, <1>5

=============================================================================

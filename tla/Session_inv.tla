------------------------------ MODULE Session_inv ------------------------------
(***************************************************************************)
(* The inductive invariant of Session.  Server_proofs proves it.           *)
(***************************************************************************)
EXTENDS Session

\* A step of one session, of its client or of somebody who uses its channel
Step(c) ==
    \/ Client(c) \/ Select(c) \/ Heartbeat(c) \/ ReceiveShutdown(c)
    \/ HandleFrame(c) \/ End(c) \/ WriteTask(c) \/ Socket(c) \/ Offer(c) \/ Others(c)

\* TypeOK by the groups of variables, with the histories the invariants speak of
FramesOK ==
    /\ inbox \in [Conns -> Seq(Kinds)] /\ peer \in [Conns -> {"open", "closed"}]
    /\ read_buf \in [Conns -> Seq(Kinds)] /\ state \in [Conns -> {"New", "Connected", "Draining"}]
    /\ loop \in [Conns -> Loop]

PublishOK ==
    /\ processed \in [Conns -> Nat] /\ batch \in [Conns -> Nat] /\ local_published \in [Conns -> Nat]
    /\ \A c \in Conns : processed[c] <= IF loop[c] = "batch" THEN PubBatchLimit ELSE SkimLimit
    /\ \A c \in Conns : batch[c] <= processed[c] /\ local_published[c] < FlushThreshold

ChannelOK ==
    /\ outbound \in [Conns -> Seq(Outbound)] /\ accepted \in [Conns -> Seq(Outbound)]
    /\ \A c \in Conns : Len(outbound[c]) <= Capacity

WriteOK ==
    /\ encode_buf \in [Conns -> Seq(Outbound)] /\ wire \in [Conns -> Seq(Outbound)]
    /\ writer \in [Conns -> {"recv", "write", "done"}] /\ failed \in [Conns -> BOOLEAN]

SendersOK ==
    /\ own_tx \in [Conns -> BOOLEAN] /\ subs \in [Conns -> SUBSET (1..MaxIds)]
    /\ \A c \in Conns : Cardinality(subs[c]) <= MaxSubscriptions
    /\ inflight \in [Conns -> Nat] /\ tasks \in [Conns -> Nat]
    /\ next_id \in 1..(MaxIds + 1)

CountersOK ==
    /\ shutdown \in BOOLEAN /\ broken_off \in [Conns -> BOOLEAN]
    /\ active_connections \in 0..(Word - 1)
    /\ messages_published \in Nat /\ pubs \in Nat /\ lost \in Nat

Types == FramesOK /\ PublishOK /\ ChannelOK /\ WriteOK /\ SendersOK /\ CountersOK

\* Concatenation, as an operator of its own
Cat(s, t) == s \o t

\* s is what t begins with
IsPrefix(s, t) == Len(s) <= Len(t) /\ s = SubSeq(t, 1, Len(s))

\* What the channel took is on the wire, in the encode buffer or in the channel; the buffer is
\* filled only between a receive and the write that follows it.
Written(c) ==
    /\ IsPrefix(wire[c], accepted[c])
    /\ ~ failed[c] => Cat(Cat(wire[c], encode_buf[c]), outbound[c]) = accepted[c]
    /\ failed[c] => writer[c] = "done"
    /\ writer[c] # "write" /\ ~ failed[c] => encode_buf[c] = <<>>
    /\ writer[c] = "done" /\ ~ failed[c] => outbound[c] = <<>>
    /\ loop[c] = "closed" => writer[c] = "done"

\* A connection without a session has nothing and is given nothing.
NoSession == {"waiting", "handshake", "refused"}
Idle(c) ==
    loop[c] \in NoSession =>
        /\ read_buf[c] = <<>> /\ accepted[c] = <<>> /\ outbound[c] = <<>> /\ wire[c] = <<>>
        /\ writer[c] = "recv" /\ ~ failed[c]
        /\ own_tx[c] /\ subs[c] = {} /\ inflight[c] = 0 /\ tasks[c] = 0

\* Where PUBs taken from a read buffer can be that are not counted yet
Counting(c) ==
    /\ loop[c] \notin {"batch", "skim"} => processed[c] = 0 /\ batch[c] = 0
    /\ loop[c] \in {"await", "closed"} => local_published[c] = 0

\* The PUBs of each session that are not counted yet, each as a pair of the session and a number:
\* the sum of local_published and batch over the sessions is the number of these pairs.
Uncounted == [c \in Conns |-> local_published[c] + batch[c]]
Pairs(x) == {p \in Conns \X Nat : p[2] \in 1..x[p[1]]}
AllCounted ==
    /\ IsFiniteSet(Pairs(Uncounted))
    /\ messages_published + lost + Cardinality(Pairs(Uncounted)) >= pubs

IInv ==
    /\ Types
    /\ \A c \in Conns : Written(c) /\ Idle(c) /\ Counting(c)
    /\ AllCounted
    /\ ReadLoopHandlesAll

================================================================================

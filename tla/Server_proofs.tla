----------------------------- MODULE Server_proofs -----------------------------
(***************************************************************************)
(* The invariants of Session hold for every set of connections, every kind *)
(* of frames the clients send and every size of the channel, the batches   *)
(* and the other limits.  Those of Server hold besides for every limit on  *)
(* the connections, with TLS and without.                                  *)
(***************************************************************************)
EXTENDS Server, Session_inv, SequenceTheorems, FiniteSetTheorems, TLAPS

\* A step a session takes without ending, with what its client and the users of its channel do
Inner(c) ==
    \/ Peer(c) \/ ReadSome(c) \/ Heartbeat(c) \/ Told(c)
    \/ WriteTask(c) \/ Socket(c) \/ Offer(c) \/ Others(c) \/ Cleanup(c)

\* The connections active_connections should count, and those in a handshake
Live == {c \in Conns : c \notin Over /\ loop[c] # "waiting"}
Handshaking == {c \in Conns : loop[c] = "handshake"}

RunOK ==
    /\ listener \in {"accept", "handshake", "drain", "exited"}
    /\ missed \subseteq Conns /\ drained \in BOOLEAN
    /\ listener = "handshake" => \E c \in Conns : Handshaking = {c}
    /\ listener # "handshake" => Handshaking = {}
    /\ drained => listener = "exited" /\ Live = {}

ServerIInv == IInv /\ RunOK /\ ActiveIsExact

-----------------------------------------------------------------------------
(* Sequences and sums *)

\* A prefix agrees with the longer sequence at each of its places.
LEMMA PrefixDef ==
    ASSUME NEW S, NEW s \in Seq(S), NEW t \in Seq(S)
    PROVE  IsPrefix(s, t) <=> Len(s) <= Len(t) /\ \A i \in 1..Len(s) : s[i] = t[i]
<1>1. ASSUME Len(s) <= Len(t)
      PROVE  /\ SubSeq(t, 1, Len(s)) \in Seq(S)
             /\ Len(SubSeq(t, 1, Len(s))) = Len(s)
             /\ \A i \in 1..Len(s) : SubSeq(t, 1, Len(s))[i] = t[i]
  BY <1>1
<1>2. ASSUME Len(s) <= Len(t), \A i \in 1..Len(s) : s[i] = t[i]
      PROVE  s = SubSeq(t, 1, Len(s))
  BY <1>1, <1>2, SeqEqual
<1> QED
  BY <1>1, <1>2 DEF IsPrefix

\* What concatenation yields.
LEMMA CatType ==
    ASSUME NEW S, NEW s \in Seq(S), NEW t \in Seq(S)
    PROVE  /\ Cat(s, t) \in Seq(S)
           /\ Len(Cat(s, t)) = Len(s) + Len(t)
           /\ \A i \in 1..Len(s) : Cat(s, t)[i] = s[i]
  BY ConcatProperties DEF Cat

\* The empty sequence adds nothing.
LEMMA CatEmpty ==
    ASSUME NEW S, NEW s \in Seq(S)
    PROVE  Cat(s, <<>>) = s /\ Cat(<<>>, s) = s
  BY ConcatEmptySeq DEF Cat

\* Concatenations may be regrouped.
LEMMA CatAssoc ==
    ASSUME NEW S, NEW s \in Seq(S), NEW t \in Seq(S), NEW u \in Seq(S)
    PROVE  Cat(Cat(s, t), u) = Cat(s, Cat(t, u))
  BY ConcatAssociative DEF Cat

\* A frame that is appended is a sequence of one that is concatenated.
LEMMA AppendIsCat ==
    ASSUME NEW S, NEW s \in Seq(S), NEW f \in S
    PROVE  <<f>> \in Seq(S) /\ Append(s, f) = Cat(s, <<f>>)
<1>1. <<f>> \in Seq(S)
  OBVIOUS
<1>2. Append(s, f) = s \o <<f>>
  BY AppendIsConcat
<1> QED
  BY <1>1, <1>2 DEF Cat

\* A sequence is what is cut off its front, and the rest.
LEMMA Cut ==
    ASSUME NEW S, NEW s \in Seq(S), NEW k \in 0..Len(s)
    PROVE  /\ SubSeq(s, 1, k) \in Seq(S) /\ SubSeq(s, k + 1, Len(s)) \in Seq(S)
           /\ Len(SubSeq(s, k + 1, Len(s))) <= Len(s)
           /\ Cat(SubSeq(s, 1, k), SubSeq(s, k + 1, Len(s))) = s
<1>1. /\ SubSeq(s, 1, k) \in Seq(S) /\ SubSeq(s, k + 1, Len(s)) \in Seq(S)
      /\ Len(SubSeq(s, k + 1, Len(s))) <= Len(s)
  OBVIOUS
<1>2. 1 \in 1..Len(s) + 1 /\ k \in 1 - 1..Len(s) /\ Len(s) \in k..Len(s)
  OBVIOUS
<1>3. SubSeq(s, 1, k) \o SubSeq(s, k + 1, Len(s)) = SubSeq(s, 1, Len(s))
  BY <1>2, ConcatAdjacentSubSeq, Zenon
<1>4. SubSeq(s, 1, Len(s)) = s
  BY SubSeqFull
<1> QED
  BY <1>1, <1>3, <1>4, Zenon DEF Cat

\* A longer sequence keeps its prefixes.
LEMMA CatKeepsPrefix ==
    ASSUME NEW S, NEW s \in Seq(S), NEW t \in Seq(S), NEW u \in Seq(S), IsPrefix(s, t)
    PROVE  IsPrefix(s, Cat(t, u))
<1>1. Cat(t, u) \in Seq(S) /\ Len(Cat(t, u)) = Len(t) + Len(u)
      /\ \A i \in 1..Len(t) : Cat(t, u)[i] = t[i]
  BY CatType
<1>2. Len(s) <= Len(t) /\ \A i \in 1..Len(s) : s[i] = t[i]
  BY PrefixDef
<1>3. Len(s) <= Len(Cat(t, u)) /\ \A i \in 1..Len(s) : s[i] = Cat(t, u)[i]
  BY <1>1, <1>2
<1> QED
  BY <1>1, <1>3, PrefixDef, Zenon

\* A sequence is a prefix of itself.
LEMMA PrefixOfItself ==
    ASSUME NEW S, NEW s \in Seq(S)
    PROVE  IsPrefix(s, s)
<1>1. Len(s) <= Len(s) /\ \A i \in 1..Len(s) : s[i] = s[i]
  OBVIOUS
<1> QED
  BY <1>1, PrefixDef, Zenon

\* A frame that is taken goes behind what is in the buffer and the channel.
LEMMA AppendAccepted ==
    ASSUME NEW S, NEW w \in Seq(S), NEW e \in Seq(S), NEW o \in Seq(S), NEW a \in Seq(S), NEW f \in S,
           IsPrefix(w, a), Cat(Cat(w, e), o) = a
    PROVE  IsPrefix(w, Append(a, f)) /\ Cat(Cat(w, e), Append(o, f)) = Append(a, f)
<1>1. /\ <<f>> \in Seq(S)
      /\ Append(o, f) = Cat(o, <<f>>) /\ Append(a, f) = Cat(a, <<f>>)
  BY AppendIsCat
<1>2. Cat(w, e) \in Seq(S)
  BY CatType
<1>3. ASSUME NEW x \in Seq(S), NEW y \in Seq(S)
      PROVE  Cat(Cat(x, o), y) = Cat(x, Cat(o, y))
  BY CatAssoc
<1>4. IsPrefix(w, Cat(a, <<f>>))
  BY <1>1, CatKeepsPrefix, Zenon
<1>5. Cat(Cat(Cat(w, e), o), <<f>>) = Cat(Cat(w, e), Cat(o, <<f>>))
  BY <1>1, <1>2, <1>3, Zenon
<1> QED
  BY <1>1, <1>4, <1>5, Zenon

\* The number of pairs follows a change at one session.
LEMMA PairsChange ==
    ASSUME NEW x \in [Conns -> Nat], NEW y \in [Conns -> Nat], NEW c \in Conns,
           \A d \in Conns : d # c => x[d] = y[d],
           IsFiniteSet(Pairs(x))
    PROVE  /\ IsFiniteSet(Pairs(y))
           /\ Cardinality(Pairs(x)) \in Nat /\ Cardinality(Pairs(y)) \in Nat
           /\ Cardinality(Pairs(y)) + x[c] = Cardinality(Pairs(x)) + y[c]
<1> DEFINE Own(n) == {c} \X (1..n)
           Rest == {p \in Pairs(x) : p[1] # c}
<1>1. ASSUME NEW n \in Nat
      PROVE  IsFiniteSet(Own(n)) /\ Cardinality(Own(n)) = n
  <2>1. IsFiniteSet({c}) /\ Cardinality({c}) = 1
    BY FS_Singleton, Zenon
  <2>2. IsFiniteSet(1..n) /\ Cardinality(1..n) = n
    <3>1. 1 \in Int /\ n \in Int
      OBVIOUS
    <3>2. /\ IsFiniteSet(1..n)
          /\ Cardinality(1..n) = IF 1 > n THEN 0 ELSE n - 1 + 1
      BY <3>1, FS_Interval, Zenon
    <3> QED
      BY <3>2
  <2>3. IsFiniteSet(Own(n)) /\ Cardinality(Own(n)) = Cardinality({c}) * Cardinality(1..n)
    BY <2>1, <2>2, FS_Product, Zenon
  <2> QED
    BY <2>1, <2>2, <2>3
<1>2. Pairs(x) = Rest \cup Own(x[c]) /\ Rest \cap Own(x[c]) = {}
  BY DEF Pairs
<1>3. Pairs(y) = Rest \cup Own(y[c]) /\ Rest \cap Own(y[c]) = {}
  BY DEF Pairs
<1>4. IsFiniteSet(Rest)
  BY FS_Subset
<1> HIDE DEF Own, Rest
<1>5. x[c] \in Nat /\ y[c] \in Nat
  OBVIOUS
<1>6. /\ Cardinality(Pairs(x)) = Cardinality(Rest) + x[c] - 0
      /\ Cardinality(Pairs(y)) = Cardinality(Rest) + y[c] - 0
      /\ IsFiniteSet(Pairs(y))
  BY <1>1, <1>2, <1>3, <1>4, <1>5, FS_Union, FS_EmptySet
<1>7. Cardinality(Rest) \in Nat
  BY <1>4, FS_CardinalityType
<1> QED
  BY <1>5, <1>6, <1>7

\* Without anything to count there is no pair.
LEMMA PairsEmpty ==
    ASSUME NEW x \in [Conns -> Nat], \A c \in Conns : x[c] = 0
    PROVE  IsFiniteSet(Pairs(x)) /\ Cardinality(Pairs(x)) = 0
<1>1. Pairs(x) = {}
  BY DEF Pairs
<1> QED
  BY <1>1, FS_EmptySet

-----------------------------------------------------------------------------
(* Types *)

\* A step of a session keeps the types of what it reads, where it is and what state it is in.
LEMMA FramesStep ==
    ASSUME FramesOK, NEW c \in Conns, Step(c)
    PROVE  FramesOK'
<1>1. \/ UNCHANGED loop
      \/ \E l \in Loop : Goto(c, l)
  BY Zenon DEF Step, Client, Select, HandleFrame, End, WriteTask, Socket, Others, ClientSend, ClientClose,
         Read, ReadEof, Heartbeat, ReceiveShutdown, Drain, NoFrame, PartOfPub, StartPubs, TakePub,
         PubError, BatchDone, SkimDone, Connect, RefuseConnect, Answer, Ignore, DecodeError,
         RefuseSub, InvalidSub, Sub, Suback, Unsub, Unsuback, SpawnStoreTask, Cleanup, Await,
         WriterRecv, WriterWrite, WriterFails, WriterEnds, Offer, Deliver, StoreReply,
         frames, Loop
<1>2. \/ UNCHANGED state
      \/ \E x \in {"Connected", "Draining"} : state' = [state EXCEPT ![c] = x]
  BY Zenon DEF Step, Client, Select, HandleFrame, End, WriteTask, Socket, Others, ClientSend, ClientClose,
         Read, ReadEof, Heartbeat, ReceiveShutdown, Drain, NoFrame, PartOfPub, StartPubs, TakePub,
         PubError, BatchDone, SkimDone, Connect, RefuseConnect, Answer, Ignore, DecodeError,
         RefuseSub, InvalidSub, Sub, Suback, Unsub, Unsuback, SpawnStoreTask, Cleanup, Await,
         WriterRecv, WriterWrite, WriterFails, WriterEnds, Offer, Deliver, StoreReply,
         frames
<1>3. \/ UNCHANGED <<inbox, read_buf>>
      \/ \E f \in Kinds : ClientSend(c, f)
      \/ \E k \in 1..Len(inbox[c]) : Read(c, k)
      \/ \E k \in 0..Len(inbox[c]) : Drain(c, k)
      \/ UNCHANGED inbox /\ read_buf' = [read_buf EXCEPT ![c] = <<>>]
      \/ UNCHANGED inbox /\ read_buf[c] # <<>> /\ read_buf' = [read_buf EXCEPT ![c] = Tail(@)]
  BY Zenon DEF Step, Client, Select, HandleFrame, End, WriteTask, Socket, Others, ClientSend, ClientClose,
         Read, ReadEof, Heartbeat, ReceiveShutdown, Drain, NoFrame, PartOfPub, StartPubs, TakePub,
         PubError, BatchDone, SkimDone, Connect, RefuseConnect, Answer, Ignore, DecodeError,
         RefuseSub, InvalidSub, Sub, Suback, Unsub, Unsuback, SpawnStoreTask, Cleanup, Await,
         WriterRecv, WriterWrite, WriterFails, WriterEnds, Offer, Deliver, StoreReply,
         client, frames, Take, Handles, NextIsPub
<1>5. UNCHANGED peer \/ peer' = [peer EXCEPT ![c] = "closed"]
  BY Zenon DEF Step, Client, Select, HandleFrame, End, WriteTask, Socket, Others, ClientSend, ClientClose,
         Read, ReadEof, Heartbeat, ReceiveShutdown, Drain, NoFrame, PartOfPub, StartPubs, TakePub,
         PubError, BatchDone, SkimDone, Connect, RefuseConnect, Answer, Ignore, DecodeError,
         RefuseSub, InvalidSub, Sub, Suback, Unsub, Unsuback, SpawnStoreTask, Cleanup, Await,
         WriterRecv, WriterWrite, WriterFails, WriterEnds, Offer, Deliver, StoreReply,
         client
<1>6. inbox' \in [Conns -> Seq(Kinds)] /\ read_buf' \in [Conns -> Seq(Kinds)]
  <2> inbox \in [Conns -> Seq(Kinds)] /\ read_buf \in [Conns -> Seq(Kinds)]
    BY DEF FramesOK
  <2>1. CASE UNCHANGED <<inbox, read_buf>>
    BY <2>1
  <2>2. ASSUME NEW f \in Kinds, ClientSend(c, f)
        PROVE  inbox' \in [Conns -> Seq(Kinds)] /\ read_buf' \in [Conns -> Seq(Kinds)]
    BY <2>2 DEF ClientSend, frames
  <2>3. ASSUME NEW k \in 0..Len(inbox[c]), Read(c, k) \/ Drain(c, k)
        PROVE  inbox' \in [Conns -> Seq(Kinds)] /\ read_buf' \in [Conns -> Seq(Kinds)]
    <3>1. SubSeq(inbox[c], 1, k) \in Seq(Kinds) /\ SubSeq(inbox[c], k + 1, Len(inbox[c])) \in Seq(Kinds)
      BY Cut
    <3>2. read_buf[c] \o SubSeq(inbox[c], 1, k) \in Seq(Kinds)
      BY <3>1
    <3>3. /\ read_buf' = [read_buf EXCEPT ![c] = read_buf[c] \o SubSeq(inbox[c], 1, k)]
          /\ inbox' = [inbox EXCEPT ![c] = SubSeq(inbox[c], k + 1, Len(inbox[c]))]
      BY <2>3 DEF Read, Drain
    <3> QED
      BY <3>1, <3>2, <3>3
  <2>4. CASE UNCHANGED inbox /\ read_buf' = [read_buf EXCEPT ![c] = <<>>]
    BY <2>4
  <2>5. CASE UNCHANGED inbox /\ read_buf[c] # <<>> /\ read_buf' = [read_buf EXCEPT ![c] = Tail(@)]
    BY <2>5
  <2>6. \A k \in 1..Len(inbox[c]) : k \in 0..Len(inbox[c])
    OBVIOUS
  <2> QED
    BY <1>3, <2>1, <2>2, <2>3, <2>4, <2>5, <2>6
<1>7. loop' \in [Conns -> Loop]
  BY <1>1, Zenon DEF FramesOK, Goto
<1>8. state' \in [Conns -> {"New", "Connected", "Draining"}] /\ peer' \in [Conns -> {"open", "closed"}]
  BY <1>2, <1>5, Zenon DEF FramesOK
<1> QED
  BY <1>6, <1>7, <1>8, Zenon DEF FramesOK

\* The counters of the publish path stay within their limits, and are 0 outside it.
LEMMA PublishStep ==
    ASSUME FramesOK, PublishOK, \A d \in Conns : Counting(d), NEW c \in Conns, Step(c)
    PROVE  PublishOK' /\ \A d \in Conns : Counting(d)'
<1> DEFINE Publishing == {"batch", "skim", "await", "closed"}
<1>1. \/ UNCHANGED <<publish, loop>>
      \/ /\ UNCHANGED publish
         /\ loop[c] \notin Publishing /\ \E l \in Loop \ Publishing : Goto(c, l)
      \/ NoFrame(c) \/ StartPubs(c) \/ TakePub(c) \/ PubError(c) \/ BatchDone(c) \/ SkimDone(c)
      \/ DecodeError(c) \/ Cleanup(c) \/ Await(c)
  BY Zenon DEF Step, Client, Select, HandleFrame, End, WriteTask, Socket, Others, ClientSend, ClientClose,
         Read, ReadEof, Heartbeat, ReceiveShutdown, Drain, NoFrame, PartOfPub, StartPubs, TakePub,
         PubError, BatchDone, SkimDone, Connect, RefuseConnect, Answer, Ignore, DecodeError,
         RefuseSub, InvalidSub, Sub, Suback, Unsub, Unsuback, SpawnStoreTask, Cleanup, Await,
         WriterRecv, WriterWrite, WriterFails, WriterEnds, Offer, Deliver, StoreReply,
         frames, Loop, Handles
<1>2. PubBatchLimit \in Nat /\ SkimLimit \in Nat /\ FlushThreshold \in Nat \ {0}
  BY SessionAssumption
<1>3. /\ loop \in [Conns -> Loop]
      /\ processed \in [Conns -> Nat] /\ batch \in [Conns -> Nat] /\ local_published \in [Conns -> Nat]
  BY DEF FramesOK, PublishOK
<1>4. \A d \in Conns :
         /\ processed[d] <= IF loop[d] = "batch" THEN PubBatchLimit ELSE SkimLimit
         /\ batch[d] <= processed[d] /\ local_published[d] < FlushThreshold
         /\ loop[d] \notin {"batch", "skim"} => processed[d] = 0 /\ batch[d] = 0
         /\ loop[d] \in {"await", "closed"} => local_published[d] = 0
  BY DEF PublishOK, Counting
\* What is to be shown of the step, at the session and elsewhere
<1> DEFINE Kept(d) ==
              /\ processed'[d] <= IF loop'[d] = "batch" THEN PubBatchLimit ELSE SkimLimit
              /\ batch'[d] <= processed'[d] /\ local_published'[d] < FlushThreshold
              /\ loop'[d] \notin {"batch", "skim"} => processed'[d] = 0 /\ batch'[d] = 0
              /\ loop'[d] \in {"await", "closed"} => local_published'[d] = 0
           Typed == processed' \in [Conns -> Nat] /\ batch' \in [Conns -> Nat]
                    /\ local_published' \in [Conns -> Nat]
<1>5. ASSUME UNCHANGED <<publish, loop>>
      PROVE  Typed /\ \A d \in Conns : Kept(d)
  BY <1>3, <1>4, <1>5 DEF publish
<1>6. ASSUME UNCHANGED publish /\ loop[c] \notin Publishing /\ \E l \in Loop \ Publishing : Goto(c, l)
      PROVE  Typed /\ \A d \in Conns : Kept(d)
  BY <1>3, <1>4, <1>6 DEF publish, Goto
<1>7. ASSUME NoFrame(c)
      PROVE  Typed /\ \A d \in Conns : Kept(d)
  BY <1>2, <1>3, <1>4, <1>7 DEF NoFrame, Goto
<1>8. ASSUME StartPubs(c)
      PROVE  Typed /\ \A d \in Conns : Kept(d)
  BY <1>2, <1>3, <1>4, <1>8 DEF StartPubs, Goto
<1>9. ASSUME TakePub(c)
      PROVE  Typed /\ \A d \in Conns : Kept(d)
  BY <1>2, <1>3, <1>4, <1>9 DEF TakePub, Goto
<1>10. ASSUME PubError(c)
      PROVE  Typed /\ \A d \in Conns : Kept(d)
  BY <1>2, <1>3, <1>4, <1>10 DEF PubError, Goto
<1>11. ASSUME BatchDone(c)
      PROVE  Typed /\ \A d \in Conns : Kept(d)
  BY <1>2, <1>3, <1>4, <1>11 DEF BatchDone, Goto
<1>12. ASSUME SkimDone(c)
      PROVE  Typed /\ \A d \in Conns : Kept(d)
  BY <1>2, <1>3, <1>4, <1>12 DEF SkimDone, Goto
<1>13. ASSUME DecodeError(c)
      PROVE  Typed /\ \A d \in Conns : Kept(d)
  BY <1>2, <1>3, <1>4, <1>13 DEF DecodeError, Goto
<1>14. ASSUME Cleanup(c)
      PROVE  Typed /\ \A d \in Conns : Kept(d)
  BY <1>2, <1>3, <1>4, <1>14 DEF Cleanup, Goto
<1>15. ASSUME Await(c)
      PROVE  Typed /\ \A d \in Conns : Kept(d)
  BY <1>2, <1>3, <1>4, <1>15, SMTT(30) DEF Await, Goto, publish
<1>16. Typed /\ \A d \in Conns : Kept(d)
  BY <1>1, <1>5, <1>6, <1>7, <1>8, <1>9, <1>10, <1>11, <1>12, <1>13, <1>14, <1>15, ZenonT(40)
<1> QED
  BY <1>16 DEF PublishOK, Counting

\* The senders are counted by naturals, and no session has more subscriptions than it may.
LEMMA SendersStep ==
    ASSUME SendersOK, NEW c \in Conns, Step(c)
    PROVE  SendersOK'
<1>1. \/ UNCHANGED <<senders, next_id>>
      \/ Sub(c) \/ (\E s \in 0..MaxIds : Unsub(c, s)) \/ SpawnStoreTask(c) \/ Cleanup(c)
      \/ Offer(c) \/ Deliver(c) \/ StoreReply(c)
  BY Zenon DEF Step, Client, Select, HandleFrame, End, WriteTask, Socket, Others, ClientSend, ClientClose,
         Read, ReadEof, Heartbeat, ReceiveShutdown, Drain, NoFrame, PartOfPub, StartPubs, TakePub,
         PubError, BatchDone, SkimDone, Connect, RefuseConnect, Answer, Ignore, DecodeError,
         RefuseSub, InvalidSub, Sub, Suback, Unsub, Unsuback, SpawnStoreTask, Cleanup, Await,
         WriterRecv, WriterWrite, WriterFails, WriterEnds, Offer, Deliver, StoreReply
<1>2. \A T \in SUBSET (1..MaxIds) : IsFiniteSet(T)
  <2>1. MaxIds \in Int /\ 1 \in Int
    BY SessionAssumption
  <2> QED
    BY <2>1, FS_Interval, FS_Subset, ZenonT(40)
<1>3. MaxSubscriptions \in Nat \ {0} /\ MaxIds \in Nat
  BY SessionAssumption
<1>4. CASE UNCHANGED <<senders, next_id>>
  BY <1>4 DEF senders, SendersOK
<1>5. CASE Sub(c)
  <2>1. /\ IsFiniteSet(subs[c]) /\ subs[c] \subseteq 1..MaxIds
        /\ next_id \in 1..MaxIds /\ Cardinality(subs[c]) < MaxSubscriptions
        /\ subs' = [subs EXCEPT ![c] = @ \cup {next_id}] /\ next_id' = next_id + 1
        /\ UNCHANGED <<own_tx, inflight, tasks>>
    BY <1>2, <1>3, <1>5 DEF Sub, SendersOK
  <2>2. /\ Cardinality(subs[c]) \in Nat
        /\ Cardinality(subs[c] \cup {next_id}) =
              IF next_id \in subs[c] THEN Cardinality(subs[c]) ELSE Cardinality(subs[c]) + 1
    BY <2>1, FS_AddElement, FS_CardinalityType, Zenon
  <2>3. Cardinality(subs[c] \cup {next_id}) <= MaxSubscriptions
    BY <1>3, <2>1, <2>2
  <2>4. subs' \in [Conns -> SUBSET (1..MaxIds)] /\ \A d \in Conns : Cardinality(subs'[d]) <= MaxSubscriptions
    BY <2>1, <2>3 DEF SendersOK
  <2>5. next_id' \in 1..(MaxIds + 1)
    BY <1>3, <2>1
  <2>6. own_tx' \in [Conns -> BOOLEAN] /\ inflight' \in [Conns -> Nat] /\ tasks' \in [Conns -> Nat]
    BY <2>1 DEF SendersOK
  <2> QED
    BY <2>4, <2>5, <2>6 DEF SendersOK
<1>6. ASSUME NEW s \in 0..MaxIds, Unsub(c, s) PROVE SendersOK'
  <2>1. subs' = [d \in Conns |-> subs[d] \ {s}] /\ UNCHANGED <<own_tx, inflight, tasks, next_id>>
    BY <1>6 DEF Unsub
  <2>2. ASSUME NEW d \in Conns PROVE Cardinality(subs[d] \ {s}) <= MaxSubscriptions
    <3>1. IsFiniteSet(subs[d]) /\ Cardinality(subs[d]) <= MaxSubscriptions
      BY <1>2 DEF SendersOK
    <3>2. Cardinality(subs[d] \ {s}) <= Cardinality(subs[d]) /\ Cardinality(subs[d]) \in Nat
          /\ Cardinality(subs[d] \ {s}) \in Nat
      BY <3>1, FS_RemoveElement, FS_CardinalityType
    <3> QED
      BY <1>3, <3>1, <3>2
  <2> QED
    BY <2>1, <2>2 DEF SendersOK
<1>7. CASE SpawnStoreTask(c)
  BY <1>7 DEF SpawnStoreTask, SendersOK
<1>8. CASE Cleanup(c)
  BY <1>3, <1>8, FS_EmptySet DEF Cleanup, SendersOK
<1>9. CASE Offer(c)
  BY <1>9 DEF Offer, SendersOK
<1>10. CASE Deliver(c)
  BY <1>10 DEF Deliver, SendersOK
<1>11. CASE StoreReply(c)
  BY <1>11 DEF StoreReply, SendersOK
<1> QED
  BY <1>1, <1>4, <1>5, <1>6, <1>7, <1>8, <1>9, <1>10, <1>11

\* The counters are naturals; the gauge of the connections is an unsigned word.
LEMMA CountersStep ==
    ASSUME PublishOK, CountersOK, NEW c \in Conns, Step(c)
    PROVE  CountersOK'
<1>1. UNCHANGED shutdown
  BY Zenon DEF Step, Client, Select, HandleFrame, End, WriteTask, Socket, Others, ClientSend, ClientClose,
         Read, ReadEof, Heartbeat, ReceiveShutdown, Drain, NoFrame, PartOfPub, StartPubs, TakePub,
         PubError, BatchDone, SkimDone, Connect, RefuseConnect, Answer, Ignore, DecodeError,
         RefuseSub, InvalidSub, Sub, Suback, Unsub, Unsuback, SpawnStoreTask, Cleanup, Await,
         WriterRecv, WriterWrite, WriterFails, WriterEnds, Offer, Deliver, StoreReply
<1>2. \/ UNCHANGED active_connections
      \/ active_connections' = (active_connections + 1) % Word
      \/ active_connections' = (active_connections - 1) % Word
  BY Zenon DEF Step, Client, Select, HandleFrame, End, WriteTask, Socket, Others, ClientSend, ClientClose,
         Read, ReadEof, Heartbeat, ReceiveShutdown, Drain, NoFrame, PartOfPub, StartPubs, TakePub,
         PubError, BatchDone, SkimDone, Connect, RefuseConnect, Answer, Ignore, DecodeError,
         RefuseSub, InvalidSub, Sub, Suback, Unsub, Unsuback, SpawnStoreTask, Cleanup, Await,
         WriterRecv, WriterWrite, WriterFails, WriterEnds, Offer, Deliver, StoreReply,
         metrics
<1>3. \/ UNCHANGED messages_published
      \/ messages_published' = messages_published + local_published[c]
      \/ messages_published' = messages_published + batch[c]
      \/ messages_published' = messages_published + (local_published[c] + batch[c])
  BY Zenon DEF Step, Client, Select, HandleFrame, End, WriteTask, Socket, Others, ClientSend, ClientClose,
         Read, ReadEof, Heartbeat, ReceiveShutdown, Drain, NoFrame, PartOfPub, StartPubs, TakePub,
         PubError, BatchDone, SkimDone, Connect, RefuseConnect, Answer, Ignore, DecodeError,
         RefuseSub, InvalidSub, Sub, Suback, Unsub, Unsuback, SpawnStoreTask, Cleanup, Await,
         WriterRecv, WriterWrite, WriterFails, WriterEnds, Offer, Deliver, StoreReply,
         metrics
<1>4. /\ pubs' \in {pubs, pubs + 1}
      /\ lost' \in {lost, lost + batch[c]}
  BY Zenon DEF Step, Client, Select, HandleFrame, End, WriteTask, Socket, Others, ClientSend, ClientClose,
         Read, ReadEof, Heartbeat, ReceiveShutdown, Drain, NoFrame, PartOfPub, StartPubs, TakePub,
         PubError, BatchDone, SkimDone, Connect, RefuseConnect, Answer, Ignore, DecodeError,
         RefuseSub, InvalidSub, Sub, Suback, Unsub, Unsuback, SpawnStoreTask, Cleanup, Await,
         WriterRecv, WriterWrite, WriterFails, WriterEnds, Offer, Deliver, StoreReply,
         history
<1>5. UNCHANGED broken_off \/ \E b \in BOOLEAN : broken_off' = [broken_off EXCEPT ![c] = b]
  BY Zenon DEF Step, Client, Select, HandleFrame, End, WriteTask, Socket, Others, ClientSend, ClientClose,
         Read, ReadEof, Heartbeat, ReceiveShutdown, Drain, NoFrame, PartOfPub, StartPubs, TakePub,
         PubError, BatchDone, SkimDone, Connect, RefuseConnect, Answer, Ignore, DecodeError,
         RefuseSub, InvalidSub, Sub, Suback, Unsub, Unsuback, SpawnStoreTask, Cleanup, Await,
         WriterRecv, WriterWrite, WriterFails, WriterEnds, Offer, Deliver, StoreReply,
         history
<1>6. Word \in Nat \ {0}
  BY SessionAssumption
<1>7. active_connections' \in 0..(Word - 1)
  BY <1>2, <1>6 DEF CountersOK
<1>8. messages_published' \in Nat /\ pubs' \in Nat /\ lost' \in Nat
  BY <1>3, <1>4 DEF CountersOK, PublishOK
<1> QED
  BY <1>1, <1>5, <1>7, <1>8 DEF CountersOK

-----------------------------------------------------------------------------
(* The channel and the write task *)

\* A frame the channel takes goes behind everything it took before.
LEMMA TrySendStep ==
    ASSUME ChannelOK, WriteOK, \A d \in Conns : Written(d),
           NEW c \in Conns, NEW f \in Outbound, TrySend(c, f), UNCHANGED write_task
    PROVE  /\ ChannelOK'
           /\ \A d \in Conns : (loop'[d] = "closed" => loop[d] = "closed") => Written(d)'
<1>1. /\ outbound \in [Conns -> Seq(Outbound)] /\ accepted \in [Conns -> Seq(Outbound)]
      /\ \A d \in Conns : Len(outbound[d]) <= Capacity
      /\ Capacity \in Nat
  BY SessionAssumption, SMTT(30) DEF ChannelOK
<1>2. CASE ~ Room(c)
  <2>1. outbound' = outbound /\ accepted' = accepted
    BY <1>1, <1>2 DEF TrySend
  <2> QED
    BY <2>1 DEF ChannelOK, Written, write_task
<1>3. CASE Room(c)
  <2>1. /\ outbound' = [outbound EXCEPT ![c] = Append(outbound[c], f)]
        /\ accepted' = [accepted EXCEPT ![c] = Append(accepted[c], f)]
        /\ writer[c] # "done" /\ Len(outbound[c]) < Capacity
    BY <1>3 DEF TrySend, Room
  <2>2. /\ Append(outbound[c], f) \in Seq(Outbound) /\ Append(accepted[c], f) \in Seq(Outbound)
        /\ Len(Append(outbound[c], f)) <= Capacity
    BY <1>1, <2>1
  <2>3. ChannelOK'
    BY <1>1, <2>1, <2>2 DEF ChannelOK
  <2>4. ~ failed[c] /\ Cat(Cat(wire[c], encode_buf[c]), outbound[c]) = accepted[c]
    BY <2>1 DEF Written
  <2>5. /\ IsPrefix(wire[c], Append(accepted[c], f))
        /\ Cat(Cat(wire[c], encode_buf[c]), Append(outbound[c], f)) = Append(accepted[c], f)
    <3>1. /\ wire[c] \in Seq(Outbound) /\ encode_buf[c] \in Seq(Outbound)
          /\ outbound[c] \in Seq(Outbound) /\ accepted[c] \in Seq(Outbound)
      BY <1>1 DEF WriteOK
    <3>2. IsPrefix(wire[c], accepted[c])
      BY DEF Written
    <3> QED
      BY <2>4, <3>1, <3>2, AppendAccepted
  <2>6. ASSUME NEW d \in Conns, loop'[d] = "closed" => loop[d] = "closed"
        PROVE  Written(d)'
    <3>1. CASE d = c
      BY <1>1, <2>1, <2>4, <2>5, <2>6, <3>1 DEF Written, write_task
    <3>2. CASE d # c
      BY <1>1, <2>1, <2>6, <3>2 DEF Written, write_task
    <3> QED
      BY <3>1, <3>2, SMTT(30)
  <2> QED
    BY <2>3, <2>6
<1> QED
  BY <1>2, <1>3

\* recv and the try_recv after it only move frames to the buffer.
LEMMA WriterRecvStep ==
    ASSUME ChannelOK, WriteOK, \A d \in Conns : Written(d),
           NEW c \in Conns, NEW k \in 1..Len(outbound[c]), WriterRecv(c, k)
    PROVE  ChannelOK' /\ WriteOK' /\ \A d \in Conns : Written(d)'
<1> DEFINE w == wire[c]
           e == encode_buf[c]
           o == outbound[c]
           front == SubSeq(o, 1, k)
           rest == SubSeq(o, k + 1, Len(o))
<1>1. /\ outbound \in [Conns -> Seq(Outbound)] /\ accepted \in [Conns -> Seq(Outbound)]
      /\ encode_buf \in [Conns -> Seq(Outbound)] /\ wire \in [Conns -> Seq(Outbound)]
      /\ \A d \in Conns : Len(outbound[d]) <= Capacity
      /\ Capacity \in Nat
  BY SessionAssumption DEF ChannelOK, WriteOK
<1>2. /\ front \in Seq(Outbound) /\ rest \in Seq(Outbound) /\ Len(rest) <= Len(o)
      /\ Cat(front, rest) = o
  BY <1>1, Cut
<1>3. /\ encode_buf' = [encode_buf EXCEPT ![c] = Cat(e, front)]
      /\ outbound' = [outbound EXCEPT ![c] = rest]
      /\ writer' = [writer EXCEPT ![c] = "write"]
      /\ writer[c] = "recv"
      /\ UNCHANGED <<accepted, wire, failed, loop>>
  BY DEF WriterRecv, Cat, frames
<1>4. w \in Seq(Outbound) /\ e \in Seq(Outbound) /\ o \in Seq(Outbound) /\ Len(o) <= Capacity
  BY <1>1
<1>5. ~ failed[c] /\ e = <<>> /\ Cat(Cat(w, e), o) = accepted[c] /\ loop[c] # "closed"
  BY <1>3 DEF Written, WriteOK
<1> HIDE DEF w, e, o, front, rest
<1>6. Cat(e, front) = front /\ Cat(w, e) = w /\ Cat(e, front) \in Seq(Outbound)
  BY <1>2, <1>4, <1>5, CatEmpty
<1>7. Cat(Cat(w, front), rest) = Cat(w, Cat(front, rest))
  BY <1>2, <1>4, CatAssoc
<1>8. Len(rest) <= Capacity
  BY <1>1, <1>2, <1>4
<1>9. ChannelOK' /\ WriteOK'
  BY <1>1, <1>2, <1>3, <1>6, <1>8 DEF ChannelOK, WriteOK
<1>10. ASSUME NEW d \in Conns PROVE Written(d)'
  <2>1. CASE d = c
    BY <1>1, <1>2, <1>3, <1>5, <1>6, <1>7, <2>1 DEF Written, WriteOK, w
  <2>2. CASE d # c
    BY <1>1, <1>3, <2>2 DEF Written, WriteOK
  <2> QED
    BY <2>1, <2>2
<1> QED
  BY <1>9, <1>10

\* write_all puts the buffer on the wire.
LEMMA WriterWriteStep ==
    ASSUME ChannelOK, WriteOK, \A d \in Conns : Written(d), NEW c \in Conns, WriterWrite(c)
    PROVE  ChannelOK' /\ WriteOK' /\ \A d \in Conns : Written(d)'
<1> DEFINE w == wire[c]
           e == encode_buf[c]
           o == outbound[c]
<1>1. /\ outbound \in [Conns -> Seq(Outbound)] /\ accepted \in [Conns -> Seq(Outbound)]
      /\ encode_buf \in [Conns -> Seq(Outbound)] /\ wire \in [Conns -> Seq(Outbound)]
  BY DEF ChannelOK, WriteOK
<1>2. /\ wire' = [wire EXCEPT ![c] = Cat(w, e)]
      /\ encode_buf' = [encode_buf EXCEPT ![c] = <<>>]
      /\ writer' = [writer EXCEPT ![c] = "recv"]
      /\ writer[c] = "write"
      /\ UNCHANGED <<accepted, outbound, failed, loop>>
  BY DEF WriterWrite, Cat, frames, channel
<1>3. w \in Seq(Outbound) /\ e \in Seq(Outbound) /\ o \in Seq(Outbound) /\ <<>> \in Seq(Outbound)
  BY <1>1
<1>4. ~ failed[c] /\ Cat(Cat(w, e), o) = accepted[c] /\ loop[c] # "closed"
  BY <1>2 DEF Written, WriteOK
<1> HIDE DEF w, e, o
<1>5. Cat(w, e) \in Seq(Outbound)
  BY <1>3, CatType
<1>6. Cat(Cat(w, e), <<>>) = Cat(w, e)
  BY <1>5, CatEmpty
<1>7. IsPrefix(Cat(w, e), Cat(Cat(w, e), o))
  BY <1>3, <1>5, CatKeepsPrefix, PrefixOfItself
<1>8. ChannelOK' /\ WriteOK'
  BY <1>1, <1>2, <1>3, <1>5 DEF ChannelOK, WriteOK
<1>9. ASSUME NEW d \in Conns PROVE Written(d)'
  <2>1. CASE d = c
    BY <1>1, <1>2, <1>4, <1>6, <1>7, <2>1 DEF Written, WriteOK, o
  <2>2. CASE d # c
    BY <1>1, <1>2, <2>2 DEF Written, WriteOK
  <2> QED
    BY <2>1, <2>2
<1> QED
  BY <1>8, <1>9

\* Every step keeps what the channel took in order: on the wire, in the buffer, in the channel.
LEMMA WrittenStep ==
    ASSUME FramesOK, ChannelOK, WriteOK, \A d \in Conns : Written(d), NEW c \in Conns, Step(c)
    PROVE  ChannelOK' /\ WriteOK' /\ \A d \in Conns : Written(d)'
<1>1. \/ /\ UNCHANGED write_task
         /\ UNCHANGED channel \/ \E f \in Outbound : TrySend(c, f)
         /\ UNCHANGED loop \/ \E l \in Loop \ {"closed"} : Goto(c, l)
      \/ Await(c)
      \/ (\E k \in 1..Len(outbound[c]) : WriterRecv(c, k)) \/ WriterWrite(c)
      \/ WriterFails(c) \/ WriterEnds(c)
  BY Zenon DEF Step, Client, Select, HandleFrame, End, WriteTask, Socket, Others, ClientSend, ClientClose,
         Read, ReadEof, Heartbeat, ReceiveShutdown, Drain, NoFrame, PartOfPub, StartPubs, TakePub,
         PubError, BatchDone, SkimDone, Connect, RefuseConnect, Answer, Ignore, DecodeError,
         RefuseSub, InvalidSub, Sub, Suback, Unsub, Unsuback, SpawnStoreTask, Cleanup, Await,
         WriterRecv, WriterWrite, WriterFails, WriterEnds, Offer, Deliver, StoreReply,
         frames, Loop, Outbound
<1>2. CASE /\ UNCHANGED write_task
           /\ UNCHANGED channel \/ \E f \in Outbound : TrySend(c, f)
           /\ UNCHANGED loop \/ \E l \in Loop \ {"closed"} : Goto(c, l)
  <2>1. \A d \in Conns : loop'[d] = "closed" => loop[d] = "closed"
    BY <1>2 DEF Goto, FramesOK
  <2>2. WriteOK'
    BY <1>2, SMTT(30) DEF WriteOK, write_task
  <2>3. CASE UNCHANGED channel
    BY <1>2, <2>1, <2>2, <2>3 DEF ChannelOK, Written, channel, write_task
  <2>4. CASE \E f \in Outbound : TrySend(c, f)
    BY <1>2, <2>1, <2>2, <2>4, TrySendStep
  <2> QED
    BY <1>2, <2>3, <2>4
<1>3. CASE Await(c)
  BY <1>3 DEF Await, Goto, FramesOK, ChannelOK, WriteOK, Written, channel, write_task
<1>4. CASE \E k \in 1..Len(outbound[c]) : WriterRecv(c, k)
  BY <1>4, WriterRecvStep
<1>5. CASE WriterWrite(c)
  BY <1>5, WriterWriteStep
<1>6. CASE WriterFails(c)
  <2>1. /\ writer' = [writer EXCEPT ![c] = "done"] /\ failed' = [failed EXCEPT ![c] = TRUE]
        /\ outbound' = [outbound EXCEPT ![c] = <<>>]
        /\ UNCHANGED <<accepted, encode_buf, wire, loop>>
    BY <1>6 DEF WriterFails, frames
  <2>2. <<>> \in Seq(Outbound) /\ Len(<<>>) <= Capacity
    BY SessionAssumption
  <2>3. ChannelOK' /\ WriteOK'
    BY <2>1, <2>2 DEF ChannelOK, WriteOK
  <2>4. ASSUME NEW d \in Conns PROVE Written(d)'
    BY <2>1 DEF ChannelOK, WriteOK, Written
  <2> QED
    BY <2>3, <2>4
<1>7. CASE WriterEnds(c)
  BY <1>7, Zenon DEF WriterEnds, ChannelOK, WriteOK, Written, channel, frames
<1> QED
  BY <1>1, <1>2, <1>3, <1>4, <1>5, <1>6, <1>7

\* A connection without a session stays without anything in its channel and without senders.
LEMMA IdleStep ==
    ASSUME FramesOK, ChannelOK, WriteOK, SendersOK, \A d \in Conns : Idle(d),
           NEW c \in Conns, Step(c)
    PROVE  \A d \in Conns : Idle(d)'
<1>1. \/ /\ loop[c] \notin NoSession
         /\ UNCHANGED loop \/ \E l \in Loop \ NoSession : Goto(c, l)
      \/ UNCHANGED <<loop, read_buf, channel, write_task, senders>>
      \/ /\ UNCHANGED loop
         /\ \/ Offer(c) \/ Deliver(c) \/ StoreReply(c)
            \/ (\E k \in 1..Len(outbound[c]) : WriterRecv(c, k)) \/ WriterWrite(c)
            \/ WriterFails(c) \/ WriterEnds(c)
  BY Zenon DEF Step, Client, Select, HandleFrame, End, WriteTask, Socket, Others, ClientSend, ClientClose,
         Read, ReadEof, Heartbeat, ReceiveShutdown, Drain, NoFrame, PartOfPub, StartPubs, TakePub,
         PubError, BatchDone, SkimDone, Connect, RefuseConnect, Answer, Ignore, DecodeError,
         RefuseSub, InvalidSub, Sub, Suback, Unsub, Unsuback, SpawnStoreTask, Cleanup, Await,
         WriterRecv, WriterWrite, WriterFails, WriterEnds, Offer, Deliver, StoreReply,
         frames, Loop, NoSession, Handles
<1>2. Idle(c)'
  <2>1. CASE /\ loop[c] \notin NoSession
             /\ UNCHANGED loop \/ \E l \in Loop \ NoSession : Goto(c, l)
    BY <2>1 DEF Idle, Goto, FramesOK
  <2>2. CASE UNCHANGED <<loop, read_buf, channel, write_task, senders>>
    BY <2>2, Zenon DEF Idle, channel, write_task, senders
  <2>3. CASE /\ UNCHANGED loop
             /\ \/ Offer(c) \/ Deliver(c) \/ StoreReply(c)
                \/ (\E k \in 1..Len(outbound[c]) : WriterRecv(c, k)) \/ WriterWrite(c)
                \/ WriterFails(c) \/ WriterEnds(c)
    <3>1. SUFFICES ASSUME loop[c] \in NoSession PROVE FALSE
      BY <2>3, ZenonT(40) DEF Idle
    <3>2. Idle(c)
      BY Zenon
    <3>3. /\ outbound[c] = <<>> /\ writer[c] = "recv" /\ own_tx[c]
          /\ subs[c] = {} /\ inflight[c] = 0 /\ tasks[c] = 0
      BY <3>1, <3>2, Zenon DEF Idle
    <3> QED
      <4>1. CASE Offer(c) \/ Deliver(c) \/ StoreReply(c)
        <5>1. subs[c] # {} \/ inflight[c] > 0 \/ tasks[c] > 0
          BY <4>1, ZenonT(40) DEF Offer, Deliver, StoreReply
        <5> QED
          BY <3>3, <5>1, SMTT(30)
      <4>2. CASE (\E k \in 1..Len(outbound[c]) : WriterRecv(c, k))
        <5>1. 1..Len(outbound[c]) = {}
          BY <3>3, SMTT(30)
        <5> QED
          BY <4>2, <5>1, Zenon
      <4>3. CASE WriterWrite(c) \/ WriterFails(c) \/ WriterEnds(c)
        BY <3>3, <4>3, Zenon DEF WriterWrite, WriterFails, WriterEnds
      <4> QED
        BY <2>3, <4>1, <4>2, <4>3, SMTT(30)
  <2> QED
    BY <1>1, <2>1, <2>2, <2>3
<1>3. ASSUME NEW d \in Conns, d # c
      PROVE  Idle(d)'
  <2>1. accepted'[d] = accepted[d] /\ outbound'[d] = outbound[d]
    <3>1. \/ UNCHANGED channel
          \/ \E f \in Outbound : TrySend(c, f)
          \/ (\E k \in 1..Len(outbound[c]) : WriterRecv(c, k)) \/ WriterFails(c)
      BY ZenonT(40) DEF Step, Client, Select, HandleFrame, End, WriteTask, Socket, Others,
         ClientSend, ClientClose, Read, ReadEof, Heartbeat, ReceiveShutdown, Drain, NoFrame,
         PartOfPub, StartPubs, TakePub, PubError, BatchDone, SkimDone, Connect, RefuseConnect,
         Answer, Ignore, DecodeError, RefuseSub, InvalidSub, Sub, Suback, Unsub, Unsuback,
         SpawnStoreTask, Cleanup, Await, WriterRecv, WriterWrite, WriterFails, WriterEnds, Offer,
         Deliver, StoreReply, Outbound
    <3> QED
      BY <1>3, <3>1 DEF TrySend, WriterRecv, WriterFails, ChannelOK, channel
  <2>2. wire'[d] = wire[d] /\ writer'[d] = writer[d] /\ failed'[d] = failed[d]
    <3>1. \/ UNCHANGED write_task
          \/ (\E k \in 1..Len(outbound[c]) : WriterRecv(c, k)) \/ WriterWrite(c)
          \/ WriterFails(c) \/ WriterEnds(c)
      BY Zenon DEF Step, Client, Select, HandleFrame, End, WriteTask, Socket, Others, ClientSend, ClientClose,
         Read, ReadEof, Heartbeat, ReceiveShutdown, Drain, NoFrame, PartOfPub, StartPubs, TakePub,
         PubError, BatchDone, SkimDone, Connect, RefuseConnect, Answer, Ignore, DecodeError,
         RefuseSub, InvalidSub, Sub, Suback, Unsub, Unsuback, SpawnStoreTask, Cleanup, Await,
         WriterRecv, WriterWrite, WriterFails, WriterEnds, Offer, Deliver, StoreReply
    <3> QED
      BY <1>3, <3>1, ZenonT(40) DEF WriterRecv, WriterWrite, WriterFails, WriterEnds, WriteOK,
         write_task
  <2>3. loop'[d] = loop[d]
    <3>1. UNCHANGED loop \/ \E l \in Loop : Goto(c, l)
      BY Zenon DEF Step, Client, Select, HandleFrame, End, WriteTask, Socket, Others, ClientSend, ClientClose,
         Read, ReadEof, Heartbeat, ReceiveShutdown, Drain, NoFrame, PartOfPub, StartPubs, TakePub,
         PubError, BatchDone, SkimDone, Connect, RefuseConnect, Answer, Ignore, DecodeError,
         RefuseSub, InvalidSub, Sub, Suback, Unsub, Unsuback, SpawnStoreTask, Cleanup, Await,
         WriterRecv, WriterWrite, WriterFails, WriterEnds, Offer, Deliver, StoreReply,
             frames, Loop
    <3> QED
      BY <1>3, <3>1 DEF Goto, FramesOK
  <2>4. /\ own_tx'[d] = own_tx[d] /\ inflight'[d] = inflight[d] /\ tasks'[d] = tasks[d]
        /\ subs'[d] \subseteq subs[d]
    <3>1. \/ UNCHANGED senders
          \/ Sub(c) \/ (\E s \in 0..MaxIds : Unsub(c, s)) \/ SpawnStoreTask(c) \/ Cleanup(c)
          \/ Offer(c) \/ Deliver(c) \/ StoreReply(c)
      BY Zenon DEF Step, Client, Select, HandleFrame, End, WriteTask, Socket, Others, ClientSend, ClientClose,
         Read, ReadEof, Heartbeat, ReceiveShutdown, Drain, NoFrame, PartOfPub, StartPubs, TakePub,
         PubError, BatchDone, SkimDone, Connect, RefuseConnect, Answer, Ignore, DecodeError,
         RefuseSub, InvalidSub, Sub, Suback, Unsub, Unsuback, SpawnStoreTask, Cleanup, Await,
         WriterRecv, WriterWrite, WriterFails, WriterEnds, Offer, Deliver, StoreReply
    <3> QED
      BY <1>3, <3>1, Zenon DEF Sub, Unsub, SpawnStoreTask, Cleanup, Offer, Deliver, StoreReply, SendersOK, senders
  <2>5. read_buf'[d] = read_buf[d]
    <3>1. UNCHANGED read_buf \/ \E s : read_buf' = [read_buf EXCEPT ![c] = s]
      BY Zenon DEF Step, Client, Select, HandleFrame, End, WriteTask, Socket, Others, ClientSend, ClientClose,
         Read, ReadEof, Heartbeat, ReceiveShutdown, Drain, NoFrame, PartOfPub, StartPubs, TakePub,
         PubError, BatchDone, SkimDone, Connect, RefuseConnect, Answer, Ignore, DecodeError,
         RefuseSub, InvalidSub, Sub, Suback, Unsub, Unsuback, SpawnStoreTask, Cleanup, Await,
         WriterRecv, WriterWrite, WriterFails, WriterEnds, Offer, Deliver, StoreReply,
             frames, Take
    <3> QED
      BY <1>3, <3>1, Zenon DEF FramesOK
  <2> QED
    BY <1>3, <2>1, <2>2, <2>3, <2>4, <2>5, ZenonT(40) DEF Idle
<1> QED
  BY <1>2, <1>3

-----------------------------------------------------------------------------
(* The read loop and the counts *)

\* The loop over the frames is left only with an empty read buffer, or at a refused CONNECT.
LEMMA HandledStep ==
    ASSUME FramesOK, CountersOK, ReadLoopHandlesAll, NEW c \in Conns, Step(c)
    PROVE  ReadLoopHandlesAll'
<1>1. \/ UNCHANGED <<loop, read_buf, broken_off>>
      \/ (\E l \in Loop \ {"select"} : Goto(c, l)) /\ UNCHANGED <<read_buf, broken_off>>
      \/ NoFrame(c) \/ PartOfPub(c)
      \/ (\E k \in 1..Len(inbox[c]) : Read(c, k)) \/ (\E k \in 0..Len(inbox[c]) : Drain(c, k))
      \/ RefuseConnect(c)
      \/ /\ loop[c] # "select"
         /\ UNCHANGED broken_off
         /\ UNCHANGED loop \/ \E l \in Loop \ {"select"} : Goto(c, l)
         /\ read_buf' = [read_buf EXCEPT ![c] = Tail(@)] \/ read_buf' = [read_buf EXCEPT ![c] = <<>>]
  BY Zenon DEF Step, Client, Select, HandleFrame, End, WriteTask, Socket, Others, ClientSend, ClientClose,
         Read, ReadEof, Heartbeat, ReceiveShutdown, Drain, NoFrame, PartOfPub, StartPubs, TakePub,
         PubError, BatchDone, SkimDone, Connect, RefuseConnect, Answer, Ignore, DecodeError,
         RefuseSub, InvalidSub, Sub, Suback, Unsub, Unsuback, SpawnStoreTask, Cleanup, Await,
         WriterRecv, WriterWrite, WriterFails, WriterEnds, Offer, Deliver, StoreReply,
         frames, history, Loop, Take, Handles
<1>2. loop \in [Conns -> Loop] /\ read_buf \in [Conns -> Seq(Kinds)] /\ broken_off \in [Conns -> BOOLEAN]
  BY SMTT(30) DEF FramesOK, CountersOK
<1>3. CASE UNCHANGED <<loop, read_buf, broken_off>>
  BY <1>3 DEF ReadLoopHandlesAll
<1>4. CASE (\E l \in Loop \ {"select"} : Goto(c, l)) /\ UNCHANGED <<read_buf, broken_off>>
  BY <1>2, <1>4 DEF ReadLoopHandlesAll, Goto
<1>5. CASE NoFrame(c) \/ PartOfPub(c)
  BY <1>2, <1>5 DEF ReadLoopHandlesAll, NoFrame, PartOfPub, Goto, history
<1>6. ASSUME NEW k, Read(c, k) \/ Drain(c, k)
      PROVE  ReadLoopHandlesAll'
  BY <1>2, <1>6 DEF ReadLoopHandlesAll, Read, Drain, Goto, history
<1>7. CASE RefuseConnect(c)
  BY <1>2, <1>7 DEF ReadLoopHandlesAll, RefuseConnect, Goto, Take
<1>8. CASE /\ loop[c] # "select"
           /\ UNCHANGED broken_off
           /\ UNCHANGED loop \/ \E l \in Loop \ {"select"} : Goto(c, l)
           /\ read_buf' = [read_buf EXCEPT ![c] = Tail(@)] \/ read_buf' = [read_buf EXCEPT ![c] = <<>>]
  BY <1>2, <1>8 DEF ReadLoopHandlesAll, Goto
<1> QED
  BY <1>1, <1>3, <1>4, <1>5, <1>6, <1>7, <1>8, SMTT(30)

\* No step leaves a PUB behind: what a session took is counted, lost with a malformed PUB, or
\* still among the uncounted.
LEMMA CountedStep ==
    ASSUME PublishOK, CountersOK, AllCounted, \A d \in Conns : Counting(d),
           PublishOK', NEW c \in Conns, Step(c)
    PROVE  AllCounted'
<1>1. \/ UNCHANGED <<publish, messages_published, pubs, lost>>
      \/ NoFrame(c) \/ StartPubs(c) \/ TakePub(c) \/ PubError(c) \/ BatchDone(c) \/ SkimDone(c)
      \/ DecodeError(c) \/ Cleanup(c)
  BY Zenon DEF Step, Client, Select, HandleFrame, End, WriteTask, Socket, Others, ClientSend, ClientClose,
         Read, ReadEof, Heartbeat, ReceiveShutdown, Drain, NoFrame, PartOfPub, StartPubs, TakePub,
         PubError, BatchDone, SkimDone, Connect, RefuseConnect, Answer, Ignore, DecodeError,
         RefuseSub, InvalidSub, Sub, Suback, Unsub, Unsuback, SpawnStoreTask, Cleanup, Await,
         WriterRecv, WriterWrite, WriterFails, WriterEnds, Offer, Deliver, StoreReply,
         metrics, history
<1> DEFINE u == local_published[c] + batch[c]
           v == local_published'[c] + batch'[c]
<1>2. /\ local_published \in [Conns -> Nat] /\ batch \in [Conns -> Nat]
      /\ local_published' \in [Conns -> Nat] /\ batch' \in [Conns -> Nat]
      /\ messages_published \in Nat /\ pubs \in Nat /\ lost \in Nat
  BY Zenon DEF PublishOK, CountersOK
<1>3. CASE UNCHANGED <<publish, messages_published, pubs, lost>>
  <2>1. Uncounted' = Uncounted
    BY <1>3, Zenon DEF Uncounted, publish
  <2> QED
    BY <1>3, <2>1 DEF AllCounted, Pairs
<1>4. ASSUME \A d \in Conns \ {c} : local_published'[d] = local_published[d] /\ batch'[d] = batch[d],
             messages_published' \in Nat, pubs' \in Nat, lost' \in Nat,
             messages_published' + lost' + v + pubs >= messages_published + lost + u + pubs'
      PROVE  AllCounted'
  <2>1. /\ Uncounted \in [Conns -> Nat] /\ Uncounted' \in [Conns -> Nat]
        /\ Uncounted[c] = u /\ Uncounted'[c] = v
        /\ \A d \in Conns : d # c => Uncounted[d] = Uncounted'[d]
    BY <1>2, <1>4 DEF Uncounted
  <2>2. IsFiniteSet(Pairs(Uncounted))
    BY SMTT(30) DEF AllCounted
  <2>3. /\ IsFiniteSet(Pairs(Uncounted'))
        /\ Cardinality(Pairs(Uncounted)) \in Nat /\ Cardinality(Pairs(Uncounted')) \in Nat
        /\ Cardinality(Pairs(Uncounted')) + Uncounted[c] = Cardinality(Pairs(Uncounted)) + Uncounted'[c]
    BY <2>1, <2>2, PairsChange, SMTT(30)
  <2> DEFINE n == Cardinality(Pairs(Uncounted))
             m == Cardinality(Pairs(Uncounted'))
  <2>4. n \in Nat /\ m \in Nat /\ m + u = n + v /\ messages_published + lost + n >= pubs
    BY <2>1, <2>3 DEF AllCounted
  <2>5. u \in Nat /\ v \in Nat
    BY <1>2
  <2> HIDE DEF u, v, n, m
  <2>6. messages_published' + lost' + m >= pubs'
    <3>1. messages_published' + lost' + v + pubs >= messages_published + lost + u + pubs'
      BY <1>4
    <3>2. \A M, L, P, N, K, Q \in Nat :
             M + L + n >= P /\ N + K + v + P >= M + L + u + Q => N + K + m >= Q
      BY <2>4, <2>5
    <3>3. /\ messages_published \in Nat /\ lost \in Nat /\ pubs \in Nat
          /\ messages_published' \in Nat /\ lost' \in Nat /\ pubs' \in Nat
          /\ messages_published + lost + n >= pubs
      BY <1>2, <1>4, <2>4
    <3> QED
      BY <3>1, <3>2, <3>3, Zenon
  <2>7. Pairs(Uncounted)' = Pairs(Uncounted')
    BY DEF Pairs
  <2> QED
    BY <2>3, <2>6, <2>7 DEF AllCounted, m
<1>5. CASE NoFrame(c) \/ DecodeError(c) \/ Cleanup(c)
  BY <1>2, <1>4, <1>5 DEF NoFrame, DecodeError, Cleanup, history
<1>6. CASE StartPubs(c)
  <2>1. batch[c] = 0
    BY <1>6, SMTT(30) DEF StartPubs, Counting
  <2>2. /\ UNCHANGED <<local_published, messages_published, pubs, lost>>
        /\ batch' = [batch EXCEPT ![c] = 0]
    BY <1>6 DEF StartPubs, metrics, history
  <2> QED
    BY <1>2, <1>4, <2>1, <2>2
<1>7. CASE TakePub(c)
  <2>1. /\ UNCHANGED <<local_published, messages_published, lost>>
        /\ \/ batch' = [batch EXCEPT ![c] = batch[c] + 1] /\ pubs' \in {pubs, pubs + 1}
           \/ UNCHANGED <<batch, pubs>>
    BY <1>2, <1>7, Zenon DEF TakePub, Counts, Allowed, metrics
  <2> QED
    BY <1>2, <1>4, <2>1
<1>8. CASE PubError(c)
  BY <1>2, <1>4, <1>8 DEF PubError, metrics
<1>9. CASE BatchDone(c)
  BY <1>2, <1>4, <1>9 DEF BatchDone, history
<1>10. CASE SkimDone(c)
  BY <1>2, <1>4, <1>10, SMTT(30) DEF SkimDone, history
<1> QED
  BY <1>1, <1>3, <1>5, <1>6, <1>7, <1>8, <1>9, <1>10, SMTT(30)

-----------------------------------------------------------------------------
(* The invariant and the theorems *)

\* TypeOK is what Types says without the histories.
LEMMA TypesAreTypeOK == Types => TypeOK
  BY DEF Types, FramesOK, PublishOK, ChannelOK, WriteOK, SendersOK, CountersOK, TypeOK

\* The invariant holds before anything has happened, with or without sessions.
LEMMA StartIInv ==
    ASSUME NEW l \in Loop \ {"await", "closed"}, StartAt(l)
    PROVE  IInv
<1>1. FramesOK
  BY SMTT(30) DEF StartAt, FramesOK
<1>2. PublishOK /\ \A c \in Conns : Counting(c)
  BY SessionAssumption DEF StartAt, PublishOK, Counting
<1>3. <<>> \in Seq(Outbound) /\ Len(<<>>) = 0 /\ Capacity \in Nat
  BY SessionAssumption
<1>4. ChannelOK /\ WriteOK
  BY <1>3 DEF StartAt, ChannelOK, WriteOK
<1>5. SendersOK
  BY SessionAssumption, FS_EmptySet DEF StartAt, SendersOK
<1>6. CountersOK
  <2>1. Word \in Nat \ {0}
    BY SessionAssumption, Zenon
  <2>2. 0 \in 0..(Word - 1)
    BY <2>1
  <2> QED
    BY <2>2, Zenon DEF StartAt, CountersOK
<1>7. ASSUME NEW c \in Conns PROVE Written(c) /\ Idle(c)
  <2>1. Cat(<<>>, <<>>) = <<>> /\ IsPrefix(<<>>, <<>>)
    BY <1>3, CatEmpty, PrefixOfItself, Zenon
  <2>2. /\ wire[c] = <<>> /\ encode_buf[c] = <<>> /\ outbound[c] = <<>> /\ accepted[c] = <<>>
        /\ writer[c] = "recv" /\ failed[c] = FALSE /\ loop[c] = l /\ read_buf[c] = <<>>
        /\ own_tx[c] = TRUE /\ subs[c] = {} /\ inflight[c] = 0 /\ tasks[c] = 0
    BY DEF StartAt
  <2> QED
    BY <2>1, <2>2 DEF Written, Idle
<1>8. AllCounted
  <2>1. Uncounted \in [Conns -> Nat] /\ \A c \in Conns : Uncounted[c] = 0
    BY DEF StartAt, Uncounted
  <2>2. IsFiniteSet(Pairs(Uncounted)) /\ Cardinality(Pairs(Uncounted)) = 0
    BY <2>1, PairsEmpty
  <2>3. messages_published = 0 /\ lost = 0 /\ pubs = 0
    BY DEF StartAt
  <2> QED
    BY <2>2, <2>3 DEF AllCounted
<1>9. ReadLoopHandlesAll
  BY DEF StartAt, ReadLoopHandlesAll
<1> QED
  BY <1>1, <1>2, <1>4, <1>5, <1>6, <1>7, <1>8, <1>9, SMTT(30) DEF IInv, Types

\* The broadcast of the shutdown, and a step that leaves the state alone, keep the invariant.
LEMMA OtherIInv ==
    ASSUME IInv, Shutdown \/ UNCHANGED vars
    PROVE  IInv'
<1>1. /\ UNCHANGED <<client, frames, publish, channel, write_task, senders, next_id, metrics, history>>
      /\ shutdown' = TRUE \/ UNCHANGED shutdown
  BY Zenon DEF Shutdown, vars
<1>2. UNCHANGED <<inbox, peer, read_buf, state, loop, processed, batch, local_published, outbound,
                  accepted, encode_buf, wire, writer, failed, own_tx, subs, inflight, tasks, next_id,
                  active_connections, messages_published, pubs, lost, broken_off>>
  BY <1>1, Zenon DEF client, frames, publish, channel, write_task, senders, metrics, history
<1>3. FramesOK' /\ PublishOK' /\ ChannelOK' /\ WriteOK' /\ SendersOK'
  BY <1>2, Zenon DEF IInv, Types, FramesOK, PublishOK, ChannelOK, WriteOK, SendersOK
<1>4. CountersOK'
  BY <1>1, <1>2, Zenon DEF IInv, Types, CountersOK
<1>5. ASSUME NEW c \in Conns
      PROVE  Written(c)' /\ Idle(c)' /\ Counting(c)'
  <2>1. Written(c) /\ Idle(c) /\ Counting(c)
    BY DEF IInv
  <2>2. Written(c)'
    BY <1>2, <2>1, Zenon DEF Written
  <2>3. Idle(c)' /\ Counting(c)'
    BY <1>2, <2>1, Zenon DEF Idle, Counting
  <2> QED
    BY <2>2, <2>3
<1>6. AllCounted' /\ ReadLoopHandlesAll'
  BY <1>2, Zenon DEF IInv, AllCounted, Uncounted, Pairs, ReadLoopHandlesAll
<1> QED
  BY <1>3, <1>4, <1>5, <1>6 DEF IInv, Types

\* Every step of a session, of its client and of the users of its channel keeps it.
LEMMA StepIInv ==
    ASSUME IInv, NEW c \in Conns, Step(c)
    PROVE  IInv'
<1>1. /\ FramesOK /\ PublishOK /\ ChannelOK /\ WriteOK /\ SendersOK /\ CountersOK
      /\ \A d \in Conns : Written(d) /\ Idle(d) /\ Counting(d)
      /\ AllCounted /\ ReadLoopHandlesAll
  BY DEF IInv, Types
<1>2. FramesOK' /\ SendersOK' /\ CountersOK'
  BY <1>1, FramesStep, SendersStep, CountersStep
<1>3. PublishOK' /\ \A d \in Conns : Counting(d)'
  BY <1>1, PublishStep
<1>4. ChannelOK' /\ WriteOK' /\ \A d \in Conns : Written(d)'
  BY <1>1, WrittenStep
<1>5. \A d \in Conns : Idle(d)'
  BY <1>1, IdleStep
<1>6. AllCounted'
  BY <1>1, <1>3, CountedStep
<1>7. ReadLoopHandlesAll'
  BY <1>1, HandledStep
<1> QED
  BY <1>2, <1>3, <1>4, <1>5, <1>6, <1>7 DEF IInv, Types

\* The invariant holds in every state the sessions reach.
LEMMA SessionInvariant == Spec => []IInv
<1>1. Init => IInv
  <2>1. "select" \in Loop \ {"await", "closed"}
    BY DEF Loop
  <2> QED
    BY <2>1, StartIInv DEF Init
<1>2. IInv /\ [Next]_vars => IInv'
  <2>1. ASSUME Next PROVE Shutdown \/ \E c \in Conns : Step(c)
    BY <2>1 DEF Next, Step
  <2> QED
    BY <2>1, OtherIInv, StepIInv
<1> QED
  BY <1>1, <1>2, PTL DEF Spec

\* What the invariant says of the channel is what WrittenInOrder and ClosedIsFlushed say.
LEMMA FlushedWhenClosed ==
    ASSUME IInv
    PROVE  WrittenInOrder /\ ClosedIsFlushed
<1>1. WrittenInOrder
  BY Zenon DEF IInv, Written, WrittenInOrder, Cat, IsPrefix
<1>2. ASSUME NEW c \in Conns, loop[c] = "closed", ~ failed[c]
      PROVE  wire[c] = accepted[c]
  <2>1. wire[c] \in Seq(Outbound)
    BY SMTT(30) DEF IInv, Types, WriteOK
  <2>2. /\ encode_buf[c] = <<>> /\ outbound[c] = <<>>
        /\ Cat(Cat(wire[c], encode_buf[c]), outbound[c]) = accepted[c]
    BY <1>2 DEF IInv, Written
  <2> QED
    BY <2>1, <2>2, CatEmpty
<1> QED
  BY <1>1, <1>2 DEF ClosedIsFlushed

\* When all sessions are over, nothing is left among the uncounted.
LEMMA CountedWhenClosed ==
    ASSUME IInv
    PROVE  PubsAreCounted
<1> SUFFICES ASSUME \A c \in Conns : loop[c] = "closed"
             PROVE  messages_published + lost >= pubs
  BY DEF PubsAreCounted
<1>1. Uncounted \in [Conns -> Nat] /\ \A c \in Conns : Uncounted[c] = 0
  <2>1. local_published \in [Conns -> Nat] /\ batch \in [Conns -> Nat]
    BY DEF IInv, Types, PublishOK
  <2>2. \A c \in Conns : local_published[c] = 0 /\ batch[c] = 0
    BY Zenon DEF IInv, Counting
  <2> QED
    BY <2>1, <2>2 DEF Uncounted
<1>2. Cardinality(Pairs(Uncounted)) = 0
  BY <1>1, PairsEmpty
<1>3. messages_published + lost + 0 >= pubs /\ messages_published \in Nat /\ lost \in Nat
  BY <1>2 DEF IInv, AllCounted, Types, CountersOK
<1> QED
  BY <1>3

\* Types of the session and its write task: every session stays within the capacity of its channel,
\* its subscriptions and its batches.
THEOREM SessionTypes == Spec => []TypeOK
<1>1. IInv => TypeOK
  BY TypesAreTypeOK DEF IInv
<1> QED
  BY <1>1, SessionInvariant, PTL

\* The socket is given what the channel took, in order and each frame once (handler.rs, the
\* write task), whatever the capacity and however the frames are cut into batches.
THEOREM SessionWritesInOrder == Spec => []WrittenInOrder
  BY SessionInvariant, FlushedWhenClosed, PTL

\* A connection is closed only when everything its channel took was written (handler.rs, the
\* cleanup), also what publishers and store tasks sent after the cleanup.
THEOREM SessionClosesFlushed == Spec => []ClosedIsFlushed
  BY SessionInvariant, FlushedWhenClosed, PTL

\* When the sessions are over every well-formed PUB they took is in messages_published, for any
\* number of sessions, batch limit and flush threshold (handler.rs, dispatcher.rs).
THEOREM SessionCountsPubs == Spec => []PubsAreCounted
  BY SessionInvariant, CountedWhenClosed, PTL

\* The read loop goes back to wait for bytes only with an empty read buffer or after a refused
\* CONNECT (handler.rs).
THEOREM SessionHandlesFrames == Spec => []ReadLoopHandlesAll
<1>1. IInv => ReadLoopHandlesAll
  BY DEF IInv
<1> QED
  BY <1>1, SessionInvariant, PTL

-----------------------------------------------------------------------------
(* The steps of the server as steps of the sessions *)

\* A session's own steps are steps of Session; they neither open nor end a connection.
LEMMA InnerStep ==
    ASSUME NEW c \in Conns, Inner(c)
    PROVE  /\ Step(c)
           /\ \/ UNCHANGED loop
              \/ /\ loop[c] \notin NoSession \cup {"closed"}
                 /\ \E l \in Loop \ (NoSession \cup {"closed"}) : Goto(c, l)
<1>1. Step(c)
  BY Zenon DEF Inner, Peer, ReadSome, Told, Step, Client, End
<1> QED
  BY <1>1, Zenon DEF Inner, Peer, ReadSome, Told, Select, HandleFrame, WriteTask, Socket, Others,
         ClientSend, ClientClose,
         Read, ReadEof, Heartbeat, ReceiveShutdown, Drain, NoFrame, PartOfPub, StartPubs, TakePub,
         PubError, BatchDone, SkimDone, Connect, RefuseConnect, Answer, Ignore, DecodeError,
         RefuseSub, InvalidSub, Sub, Suback, Unsub, Unsuback, SpawnStoreTask, Cleanup,
         WriterRecv, WriterWrite, WriterFails, WriterEnds, Offer, Deliver, StoreReply,
         frames, Loop, NoSession, Handles

\* A step of the server is a step of the accept loop that leaves the sessions alone, the
\* broadcast, the acceptance of a connection, the end of one, or a session's own step.
LEMMA ServerSteps ==
    ASSUME ServerNext
    PROVE  \/ UNCHANGED vars /\ (AcceptFails \/ StopAccepting \/ Drained \/ DrainTimeout)
           \/ Shutdown /\ UNCHANGED run
           \/ \E c \in Conns : Listen(c) \/ Handshake(c)
           \/ \E c \in Conns : Await(c) /\ active' = active - 1 /\ UNCHANGED <<listener, missed, drained>>
           \/ \E c \in Conns : Inner(c) /\ UNCHANGED run
<1>1. AcceptFails \/ StopAccepting \/ Drained \/ DrainTimeout => UNCHANGED vars
  BY Zenon DEF AcceptFails, StopAccepting, Drained, DrainTimeout
<1> QED
  BY <1>1, Zenon DEF ServerNext, SessionEnds, Inner

\* A connection that gets its session, its handshake or its refusal keeps what holds of sessions.
LEMMA OpenIInv ==
    ASSUME IInv, NEW c \in Conns, loop[c] \in {"waiting", "handshake"},
           NEW l \in NoSession \cup {"select"}, Goto(c, l), UNCHANGED sessions
    PROVE  IInv'
<1>1. UNCHANGED <<inbox, peer, read_buf, state, processed, batch, local_published, outbound,
                  accepted, encode_buf, wire, writer, failed, own_tx, subs, inflight, tasks, next_id,
                  shutdown, active_connections, messages_published, pubs, lost, broken_off>>
  BY Zenon DEF sessions, client, publish, channel, write_task, senders, metrics, history
<1>2. loop \in [Conns -> Loop] /\ l \in Loop
  BY Zenon DEF IInv, Types, FramesOK, Loop, NoSession
<1>3. loop' \in [Conns -> Loop] /\ loop'[c] = l /\ \A d \in Conns : d # c => loop'[d] = loop[d]
  BY <1>2 DEF Goto
<1>4. FramesOK' /\ ChannelOK' /\ WriteOK' /\ SendersOK' /\ CountersOK'
  BY <1>1, <1>3, Zenon DEF IInv, Types, FramesOK, ChannelOK, WriteOK, SendersOK, CountersOK
<1>5. \A d \in Conns : Written(d) /\ Idle(d) /\ Counting(d)
  BY DEF IInv
<1>6. /\ loop[c] \in NoSession /\ loop[c] \notin {"batch", "skim", "await", "closed", "select"}
      /\ l \notin {"batch", "skim", "await", "closed"}
  BY DEF NoSession
<1>7. PublishOK'
  <2>1. processed[c] = 0 /\ batch[c] = 0
    BY <1>5, <1>6, Zenon DEF Counting
  <2>2. 0 <= PubBatchLimit /\ 0 <= SkimLimit
    BY SessionAssumption
  <2>3. PublishOK
    BY DEF IInv, Types
  <2> QED
    BY <1>1, <1>3, <1>6, <2>1, <2>2, <2>3, Zenon DEF PublishOK
<1>8. ASSUME NEW d \in Conns
      PROVE  Written(d)' /\ Idle(d)' /\ Counting(d)'
  <2>1. /\ loop'[d] = "closed" => loop[d] = "closed"
        /\ loop'[d] \in NoSession => loop[d] \in NoSession
        /\ loop'[d] \notin {"batch", "skim"} => loop[d] \notin {"batch", "skim"}
        /\ loop'[d] \in {"await", "closed"} => loop[d] \in {"await", "closed"}
    BY <1>3, <1>6
  <2>2. Written(d)'
    BY <1>1, <1>5, <2>1, Zenon DEF Written
  <2>3. Idle(d)'
    BY <1>1, <1>5, <2>1, Zenon DEF Idle
  <2>4. Counting(d)'
    BY <1>1, <1>5, <2>1, Zenon DEF Counting
  <2> QED
    BY <2>2, <2>3, <2>4
<1>9. AllCounted'
  BY <1>1, Zenon DEF IInv, AllCounted, Uncounted, Pairs
<1>10. ReadLoopHandlesAll'
  <2>1. read_buf[c] = <<>>
    BY <1>5, <1>6, Zenon DEF Idle
  <2>2. ReadLoopHandlesAll
    BY DEF IInv
  <2> QED
    BY <1>1, <1>3, <2>1, <2>2, Zenon DEF ReadLoopHandlesAll
<1> QED
  BY <1>4, <1>7, <1>8, <1>9, <1>10 DEF IInv, Types

\* Every step of the server keeps what holds of sessions.
LEMMA ServerKeepsIInv ==
    ASSUME IInv, [ServerNext]_serverVars
    PROVE  IInv'
<1>1. CASE UNCHANGED vars \/ Shutdown
  BY <1>1, OtherIInv
<1>2. ASSUME NEW c \in Conns, Listen(c) \/ Handshake(c)
      PROVE  IInv'
  <2>1. /\ loop[c] \in {"waiting", "handshake"} /\ UNCHANGED sessions
        /\ \E l \in NoSession \cup {"select"} : Goto(c, l)
    BY <1>2, Zenon DEF Listen, Handshake, Reject, Accept, EndHandshake, NoSession
  <2> QED
    BY <2>1, OpenIInv
<1>3. ASSUME NEW c \in Conns, Await(c) \/ Inner(c)
      PROVE  IInv'
  <2>1. Step(c)
    BY <1>3, InnerStep, Zenon DEF Step, End
  <2> QED
    BY <2>1, StepIInv
<1>4. CASE UNCHANGED serverVars
  BY <1>1, <1>4, Zenon DEF serverVars
<1> QED
  BY <1>1, <1>2, <1>3, <1>4, ServerSteps

-----------------------------------------------------------------------------
(* The count of connections *)

\* What a move of one connection does to the set of those that are counted.
LEMMA LiveGoto ==
    ASSUME loop \in [Conns -> Loop], NEW c \in Conns, NEW l \in Loop, Goto(c, l)
    PROVE  /\ IsFiniteSet(Live) /\ Cardinality(Live) \in Nat
           /\ l \notin {"waiting", "refused", "closed"} /\ c \in Live => Live' = Live
           /\ l \in {"waiting", "refused", "closed"} /\ c \notin Live => Live' = Live
           /\ l \notin {"waiting", "refused", "closed"} /\ c \notin Live =>
                 Live' = Live \cup {c} /\ Cardinality(Live') = Cardinality(Live) + 1
           /\ l \in {"waiting", "refused", "closed"} /\ c \in Live =>
                 Live' = Live \ {c} /\ Cardinality(Live') = Cardinality(Live) - 1
<1>1. IsFiniteSet(Live) /\ Cardinality(Live) \in Nat
  <2>1. Live \subseteq Conns /\ IsFiniteSet(Conns)
    BY SessionAssumption, Zenon DEF Live
  <2> QED
    BY <2>1, FS_Subset, FS_CardinalityType, Zenon
<1>2. \A d \in Conns : loop'[d] = IF d = c THEN l ELSE loop[d]
  BY DEF Goto
<1>3. /\ \A d : d \in Live <=> d \in Conns /\ loop[d] \notin {"waiting", "refused", "closed"}
      /\ \A d : d \in Live' <=> d \in Conns /\ loop'[d] \notin {"waiting", "refused", "closed"}
  BY Zenon DEF Live, Over
<1>4. /\ l \notin {"waiting", "refused", "closed"} /\ c \in Live => Live' = Live
      /\ l \in {"waiting", "refused", "closed"} /\ c \notin Live => Live' = Live
      /\ l \notin {"waiting", "refused", "closed"} /\ c \notin Live => Live' = Live \cup {c}
      /\ l \in {"waiting", "refused", "closed"} /\ c \in Live => Live' = Live \ {c}
  BY <1>2, <1>3
<1>5. /\ c \notin Live => Cardinality(Live \cup {c}) = Cardinality(Live) + 1
      /\ c \in Live => Cardinality(Live \ {c}) = Cardinality(Live) - 1
  BY <1>1, FS_AddElement, FS_RemoveElement, Zenon
<1> QED
  BY <1>1, <1>4, <1>5, Zenon

\* What it does to the set of those in a handshake.
LEMMA HandshakingGoto ==
    ASSUME loop \in [Conns -> Loop], NEW c \in Conns, NEW l \in Loop, Goto(c, l)
    PROVE  /\ l # "handshake" /\ loop[c] # "handshake" => Handshaking' = Handshaking
           /\ l = "handshake" /\ Handshaking = {} => Handshaking' = {c}
           /\ l # "handshake" /\ Handshaking = {c} => Handshaking' = {}
<1>1. \A d \in Conns : loop'[d] = IF d = c THEN l ELSE loop[d]
  BY DEF Goto
<1> QED
  BY <1>1 DEF Handshaking

\* What ActiveIsExact and RunOK say, in terms of the two sets.
LEMMA CountOf ==
    ASSUME IInv, RunOK, ActiveIsExact
    PROVE  /\ loop \in [Conns -> Loop]
           /\ active = Cardinality(Live) /\ active \in Nat /\ active <= MaxConnections /\ MaxConnections \in Nat
           /\ listener # "exited" => drained = FALSE
<1>1. loop \in [Conns -> Loop] /\ active = Cardinality(Live) /\ active <= MaxConnections /\ MaxConnections \in Nat
  BY ServerAssumption, Zenon DEF IInv, Types, FramesOK, ActiveIsExact, Live
<1>2. Cardinality(Live) \in Nat
  <2>1. Live \subseteq Conns /\ IsFiniteSet(Conns)
    BY SessionAssumption, Zenon DEF Live
  <2> QED
    BY <2>1, FS_Subset, FS_CardinalityType, Zenon
<1>3. listener # "exited" => drained = FALSE
  BY DEF RunOK
<1> QED
  BY <1>1, <1>2, <1>3, Zenon

\* A step that leaves the connections where they are keeps the count; only the accept loop moves.
LEMMA CountStays ==
    ASSUME IInv, RunOK, ActiveIsExact, UNCHANGED loop,
           \/ UNCHANGED run
           \/ AcceptFails \/ StopAccepting \/ Drained \/ DrainTimeout
    PROVE  RunOK' /\ ActiveIsExact'
<1>1. Live' = Live /\ Handshaking' = Handshaking /\ Over' = Over /\ UNCHANGED <<active, missed>>
  BY Zenon DEF Live, Over, Handshaking, run, AcceptFails, StopAccepting, Drained, DrainTimeout
<1>2. ActiveIsExact'
  BY <1>1, Zenon DEF ActiveIsExact
<1>3. CASE UNCHANGED run
  BY <1>1, <1>2, <1>3, Zenon DEF RunOK, run
<1>4. CASE AcceptFails \/ StopAccepting \/ DrainTimeout
  <2>1. /\ listener \in {"accept", "drain"} /\ listener' \in {"drain", "exited"} /\ UNCHANGED drained
    BY <1>4 DEF AcceptFails, StopAccepting, DrainTimeout
  <2> QED
    BY <1>1, <1>2, <2>1, CountOf DEF RunOK
<1>5. CASE Drained
  <2>1. Live = {}
    <3>1. Live \subseteq Conns /\ IsFiniteSet(Conns)
      BY SessionAssumption, Zenon DEF Live
    <3>2. IsFiniteSet(Live) /\ Cardinality(Live) = 0
      BY <1>5, <3>1, CountOf, FS_Subset, Zenon DEF Drained
    <3> QED
      BY <3>2, FS_EmptySet
  <2>2. listener = "drain" /\ listener' = "exited" /\ drained' = TRUE
    BY <1>5 DEF Drained
  <2> QED
    BY <1>1, <1>2, <2>1, <2>2 DEF RunOK
<1> QED
  BY <1>3, <1>4, <1>5

\* A session that goes on is counted as before, and one that ends is counted out.
LEMMA CountSession ==
    ASSUME IInv, RunOK, ActiveIsExact, listener # "exited", NEW c \in Conns, NEW l \in Loop \ NoSession,
           loop[c] \notin NoSession \cup {"closed"}, Goto(c, l), UNCHANGED <<listener, missed, drained>>,
           active' = IF l = "closed" THEN active - 1 ELSE active
    PROVE  RunOK' /\ ActiveIsExact'
<1>1. /\ loop \in [Conns -> Loop]
      /\ active = Cardinality(Live) /\ active \in Nat /\ active <= MaxConnections /\ MaxConnections \in Nat
      /\ drained = FALSE
  BY CountOf
<1>2. c \in Live /\ loop[c] # "handshake" /\ l # "handshake" /\ l \notin {"waiting", "refused"}
  BY Zenon DEF Live, Over, NoSession
<1>3. Handshaking' = Handshaking
  BY <1>1, <1>2, HandshakingGoto
<1>4. active' = Cardinality(Live') /\ active' <= MaxConnections
  <2>1. CASE l = "closed"
    <3>1. Cardinality(Live') = Cardinality(Live) - 1
      BY <1>1, <1>2, <2>1, LiveGoto
    <3> QED
      BY <1>1, <2>1, <3>1
  <2>2. CASE l # "closed"
    BY <1>1, <1>2, <2>2, LiveGoto
  <2> QED
    BY <2>1, <2>2
<1> QED
  BY <1>1, <1>3, <1>4, Zenon DEF RunOK, ActiveIsExact, Live

\* The accept loop counts a connection in when it takes it, unless it refuses it.
LEMMA CountAccepted ==
    ASSUME IInv, RunOK, ActiveIsExact, NEW c \in Conns, Listen(c)
    PROVE  RunOK' /\ ActiveIsExact'
<1>1. /\ loop \in [Conns -> Loop]
      /\ active = Cardinality(Live) /\ active \in Nat /\ active <= MaxConnections /\ MaxConnections \in Nat
  BY CountOf
<1>2. listener = "accept" /\ loop[c] = "waiting"
  BY Zenon DEF Listen, Reject, Accept
<1>3. drained = FALSE /\ c \notin Live /\ Handshaking = {}
  BY <1>2, CountOf DEF RunOK, Live
<1>4. CASE Reject(c)
  <2>1. Goto(c, "refused") /\ UNCHANGED run /\ "refused" \in Loop
    BY <1>4, Zenon DEF Reject, Loop
  <2>2. Live' = Live /\ Handshaking' = Handshaking
    BY <1>1, <1>2, <1>3, <2>1, LiveGoto, HandshakingGoto
  <2> QED
    BY <1>1, <1>3, <2>1, <2>2, Zenon DEF RunOK, ActiveIsExact, Live, run
<1>5. CASE Accept(c)
  <2> DEFINE l == IF Tls THEN "handshake" ELSE "select"
  <2>1. /\ l \in Loop /\ l \notin {"waiting", "refused", "closed"} /\ Goto(c, l)
        /\ active < MaxConnections /\ active' = active + 1 /\ UNCHANGED drained
        /\ listener' = IF Tls THEN "handshake" ELSE "accept"
        /\ missed' \subseteq Conns
    BY <1>5 DEF Accept, Loop, RunOK
  <2>2. Cardinality(Live') = Cardinality(Live) + 1
    BY <1>1, <1>3, <2>1, LiveGoto
  <2>3. active' = Cardinality(Live') /\ active' <= MaxConnections
    BY <1>1, <2>1, <2>2
  <2>4. IF Tls THEN Handshaking' = {c} ELSE Handshaking' = {}
    BY <1>1, <1>2, <1>3, <2>1, HandshakingGoto
  <2>5. RunOK'
    BY <1>3, <2>1, <2>4 DEF RunOK
  <2> QED
    BY <2>3, <2>5, Zenon DEF ActiveIsExact, Live
<1> QED
  BY <1>4, <1>5 DEF Listen

\* A handshake that fails is counted out, one that succeeds is not.
LEMMA CountHandshake ==
    ASSUME IInv, RunOK, ActiveIsExact, NEW c \in Conns, NEW ok \in BOOLEAN, EndHandshake(c, ok)
    PROVE  RunOK' /\ ActiveIsExact'
<1> DEFINE l == IF ok THEN "select" ELSE "refused"
<1>1. /\ loop \in [Conns -> Loop]
      /\ active = Cardinality(Live) /\ active \in Nat /\ active <= MaxConnections /\ MaxConnections \in Nat
  BY CountOf
<1>2. /\ listener = "handshake" /\ loop[c] = "handshake" /\ Goto(c, l) /\ listener' = "accept"
      /\ active' = (IF ok THEN active ELSE active - 1) /\ UNCHANGED <<missed, drained>>
      /\ l \in Loop /\ l # "handshake"
  BY DEF EndHandshake, Loop
<1>3. drained = FALSE /\ c \in Live /\ Handshaking = {c}
  <2>1. c \in Handshaking /\ c \in Live /\ drained = FALSE
    BY <1>2, CountOf DEF Handshaking, Live, Over
  <2> QED
    BY <1>2, <2>1 DEF RunOK
<1>4. Handshaking' = {}
  BY <1>1, <1>2, <1>3, HandshakingGoto
<1>5. active' = Cardinality(Live') /\ active' <= MaxConnections
  <2>1. CASE ok
    <3>1. Live' = Live
      BY <1>1, <1>2, <1>3, <2>1, LiveGoto
    <3> QED
      BY <1>1, <1>2, <2>1, <3>1
  <2>2. CASE ~ ok
    <3>1. Cardinality(Live') = Cardinality(Live) - 1
      BY <1>1, <1>2, <1>3, <2>2, LiveGoto
    <3> QED
      BY <1>1, <1>2, <2>2, <3>1, SMTT(30)
  <2> QED
    BY <2>1, <2>2
<1>6. RunOK'
  BY <1>2, <1>3, <1>4 DEF RunOK
<1> QED
  BY <1>5, <1>6, Zenon DEF ActiveIsExact, Live

-----------------------------------------------------------------------------
\* The invariant holds in every state the server reaches.
LEMMA ServerInvariant == ServerSpec => []ServerIInv
<1>1. ServerInit => ServerIInv
  <2> SUFFICES ASSUME ServerInit PROVE ServerIInv
    OBVIOUS
  <2>1. StartAt("waiting") /\ "waiting" \in Loop \ {"await", "closed"}
    BY Zenon DEF ServerInit, Loop
  <2>2. IInv
    BY <2>1, StartIInv
  <2>3. loop = [c \in Conns |-> "waiting"]
    BY <2>1 DEF StartAt
  <2>4. Live = {} /\ Handshaking = {}
    BY <2>3 DEF Live, Handshaking
  <2>5. RunOK
    BY <2>4, Zenon DEF RunOK, ServerInit
  <2>6. ActiveIsExact
    <3>1. Cardinality(Live) = 0 /\ MaxConnections \in Nat /\ active = 0
      BY <2>4, FS_EmptySet, ServerAssumption DEF ServerInit
    <3>2. 0 <= MaxConnections
      BY <3>1
    <3> QED
      BY <3>1, <3>2, Zenon DEF ActiveIsExact, Live
  <2> QED
    BY <2>2, <2>5, <2>6 DEF ServerIInv
<1>2. ServerIInv /\ [ServerNext]_serverVars => ServerIInv'
  <2> SUFFICES ASSUME ServerIInv, [ServerNext]_serverVars PROVE ServerIInv'
    OBVIOUS
  <2>1. IInv /\ RunOK /\ ActiveIsExact
    BY DEF ServerIInv
  <2>2. IInv'
    BY <2>1, ServerKeepsIInv
  <2> SUFFICES RunOK' /\ ActiveIsExact'
    BY <2>2 DEF ServerIInv
  <2>3. CASE /\ UNCHANGED loop
             /\ UNCHANGED run \/ AcceptFails \/ StopAccepting \/ Drained \/ DrainTimeout
    BY <2>1, <2>3, CountStays
  <2>4. ASSUME NEW c \in Conns, Listen(c) \/ Handshake(c)
        PROVE  RunOK' /\ ActiveIsExact'
    <3>1. CASE Listen(c)
      BY <2>1, <3>1, CountAccepted, Zenon
    <3>2. CASE Handshake(c)
      BY <2>1, <3>2, CountHandshake, Zenon DEF Handshake
    <3> QED
      BY <2>4, <3>1, <3>2
  <2>5. ASSUME NEW c \in Conns, listener # "exited", Inner(c), UNCHANGED run
        PROVE  RunOK' /\ ActiveIsExact'
    <3>1. CASE UNCHANGED loop
      BY <2>3, <2>5, <3>1
    <3>2. CASE /\ loop[c] \notin NoSession \cup {"closed"}
               /\ \E l \in Loop \ (NoSession \cup {"closed"}) : Goto(c, l)
      <4>1. PICK l \in Loop \ (NoSession \cup {"closed"}) : Goto(c, l)
        BY <3>2
      <4>2. l \in Loop \ NoSession /\ active' = (IF l = "closed" THEN active - 1 ELSE active)
        BY <2>5, Zenon DEF run
      <4>3. UNCHANGED <<listener, missed, drained>>
        BY <2>5, Zenon DEF run
      <4> QED
        BY <2>1, <2>5, <3>2, <4>1, <4>2, <4>3, CountSession, Zenon
    <3> QED
      BY <2>5, <3>1, <3>2, InnerStep
  <2>6. ASSUME NEW c \in Conns, listener # "exited", Await(c), active' = active - 1,
               UNCHANGED <<listener, missed, drained>>
        PROVE  RunOK' /\ ActiveIsExact'
    <3>1. loop[c] = "await" /\ Goto(c, "closed")
      BY <2>6 DEF Await
    <3>2. loop[c] \notin NoSession \cup {"closed"} /\ "closed" \in Loop \ NoSession
      BY <3>1 DEF NoSession, Loop
    <3> QED
      BY <2>1, <2>6, <3>1, <3>2, CountSession, ZenonT(40)
  <2>7. CASE UNCHANGED serverVars
    <3>1. UNCHANGED loop /\ UNCHANGED run
      BY <2>7, Zenon DEF serverVars, vars, frames
    <3> QED
      BY <2>3, <3>1
  <2>8. CASE ServerNext
    <3>1. listener # "exited"
      BY <2>8 DEF ServerNext
    <3>2. UNCHANGED vars \/ Shutdown => UNCHANGED loop
      BY Zenon DEF Shutdown, vars, frames
    <3>3. CASE UNCHANGED vars /\ (AcceptFails \/ StopAccepting \/ Drained \/ DrainTimeout)
      BY <2>3, <3>2, <3>3, Zenon
    <3>4. CASE Shutdown /\ UNCHANGED run
      BY <2>3, <3>2, <3>4, Zenon
    <3> QED
      BY <2>4, <2>5, <2>6, <2>8, <3>1, <3>3, <3>4, ServerSteps, Zenon
  <2> QED
    BY <2>7, <2>8
<1> QED
  BY <1>1, <1>2, PTL DEF ServerSpec

\* Types of the accept loop and the sessions; at most one connection is in a handshake at a time
\* (listener.rs does it in the accept loop).
THEOREM ServerTypes == ServerSpec => []ServerTypeOK
<1>1. ServerIInv => ServerTypeOK
  <2> SUFFICES ASSUME ServerIInv PROVE ServerTypeOK
    OBVIOUS
  <2>1. IInv /\ RunOK /\ ActiveIsExact
    BY DEF ServerIInv
  <2>2. TypeOK
    BY <2>1, TypesAreTypeOK DEF IInv
  <2>3. Cardinality(Handshaking) = IF listener = "handshake" THEN 1 ELSE 0
    BY <2>1, FS_EmptySet, FS_Singleton, Zenon DEF RunOK
  <2>4. active \in 0..Cardinality(Conns)
    <3>1. Live \subseteq Conns /\ IsFiniteSet(Conns)
      BY SessionAssumption, Zenon DEF Live
    <3>2. Cardinality(Live) <= Cardinality(Conns) /\ Cardinality(Conns) \in Nat
      BY <3>1, FS_Subset, FS_CardinalityType, Zenon
    <3> QED
      BY <2>1, <3>2, CountOf
  <2> QED
    BY <2>1, <2>2, <2>3, <2>4, Zenon DEF ServerTypeOK, RunOK, Handshaking
<1> QED
  BY <1>1, ServerInvariant, PTL

\* TcpServer.active_connections is exact and stays within max_connections, for any number of
\* connections, with handshakes that fail and sessions that end in any order (listener.rs).
THEOREM ServerCountsConnections == ServerSpec => []ActiveIsExact
<1>1. ServerIInv => ActiveIsExact
  BY DEF ServerIInv
<1> QED
  BY <1>1, ServerInvariant, PTL

\* When run ends with "all connections drained", every frame a session's channel took was written
\* to its client, unless the write failed (listener.rs, handler.rs).
THEOREM ServerDrainsAll == ServerSpec => []DrainedMeansDone
<1>1. ServerIInv => DrainedMeansDone
  <2> SUFFICES ASSUME ServerIInv, drained, NEW c \in Conns, ~ failed[c]
               PROVE  wire[c] = accepted[c]
    BY DEF DrainedMeansDone
  <2>1. IInv /\ Live = {}
    BY DEF ServerIInv, RunOK
  <2>2. loop[c] \in {"waiting", "refused", "closed"}
    BY <2>1 DEF Live, Over
  <2>3. CASE loop[c] = "closed"
    BY <2>1, <2>3, FlushedWhenClosed DEF ClosedIsFlushed
  <2>4. CASE loop[c] \in {"waiting", "refused"}
    <3>1. Idle(c)
      BY <2>1 DEF IInv
    <3> QED
      BY <2>4, <3>1, Zenon DEF Idle, NoSession
  <2> QED
    BY <2>2, <2>3, <2>4
<1> QED
  BY <1>1, ServerInvariant, PTL

===============================================================================

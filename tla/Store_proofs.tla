----------------------------- MODULE Store_proofs -----------------------------
(***************************************************************************)
(* The theorems about the two stores of zetmq-store, the message store in  *)
(* memory and the log segment on disk, for every choice of names,          *)
(* payloads, configurations and bounds: that the operations preserve the   *)
(* invariants of MessageStore_inv and Segment_inv, the invariants that     *)
(* follow from them, and that the message store implements StreamLog.      *)
(*                                                                         *)
(* The retention loops are described by where they stop, so what they do   *)
(* to a queue is arithmetic on SubSeq.  What they do to its bytes is about *)
(* a sum, which is proved by taking the least place where it goes wrong.   *)
(***************************************************************************)
EXTENDS MessageStore_inv, MessageStoreLog, Segment_inv, FiniteSetTheorems, WellFoundedInduction, TLAPS

USE Zenon

-----------------------------------------------------------------------------
(* Sums of payload lengths *)

\* A set of numbers that is not empty has a least element: what the inductions below rest on.
LEMMA LeastNumber ==
    ASSUME NEW T \in SUBSET Nat, T # {}
    PROVE  \E x \in T : \A y \in T : x <= y
  <1> DEFINE R == OpToRel(<, Nat)
  <1>1. IsWellFoundedOn(R, Nat)
    BY NatLessThanWellFounded
  <1>2. \A x, y \in Nat : x < y => <<x, y>> \in R
    BY DEF OpToRel
  <1> HIDE DEF R
  <1>3. PICK x \in T : \A y \in T : ~ (<<y, x>> \in R)
    BY <1>1, WFMin
  <1>4. \A y \in T : ~ (y < x)
    BY <1>2, <1>3
  <1> QED  BY <1>4, SMT

\* f sums up the first n of the numbers a
IsSum(f, n, a) == f[0] = 0 /\ \A i \in 1..n : f[i] = f[i - 1] + a[i]

\* There is such a function for every n.
LEMMA SumExists ==
    ASSUME NEW n \in Nat, NEW a \in [1..n -> Nat]
    PROVE  \E f \in [0..n -> Nat] : IsSum(f, n, a)
  <1> DEFINE Bad == {m \in 0..n : ~ \E f \in [0..m -> Nat] : IsSum(f, m, a)}
  <1>1. SUFFICES ASSUME Bad # {} PROVE FALSE
    <2>1. n \in 0..n
      BY SMT
    <2> QED  BY <1>1, <2>1
  <1>2. PICK m \in Bad : \A k \in Bad : m <= k
    <2>1. Bad \in SUBSET Nat
      BY SMT
    <2> HIDE DEF Bad
    <2> QED  BY <1>1, <2>1, LeastNumber
  <1>3. m \in 0..n /\ ~ \E f \in [0..m -> Nat] : IsSum(f, m, a)
    BY <1>2
  <1>4. CASE m = 0
    <2> DEFINE g == [i \in 0..0 |-> 0]
    <2>1. g \in [0..m -> Nat] /\ IsSum(g, m, a)
      BY <1>4, SMT DEF IsSum
    <2> QED  BY <1>3, <2>1
  <1>5. CASE m # 0
    <2>1. m - 1 \in 0..n /\ m \in 1..n /\ ~ (m <= m - 1)
      BY <1>3, <1>5, SMT
    <2>2. PICK f \in [0..(m - 1) -> Nat] : IsSum(f, m - 1, a)
      BY <1>2, <2>1
    <2> DEFINE g == [i \in 0..m |-> IF i = m THEN f[m - 1] + a[m] ELSE f[i]]
    <2>3. g \in [0..m -> Nat]
      <3>1. f[m - 1] + a[m] \in Nat
        BY <2>1, SMT
      <3>2. \A i \in 0..m : i # m => f[i] \in Nat
        BY <2>1, SMT
      <3> QED  BY <3>1, <3>2
    <2>4. g[0] = 0
      BY <2>1, <2>2, <1>5, SMT DEF IsSum
    <2>5. ASSUME NEW i \in 1..m PROVE g[i] = g[i - 1] + a[i]
      <3>1. CASE i = m
        BY <2>1, <3>1, SMT
      <3>2. CASE i # m
        <4>1. i \in 1..(m - 1) /\ i \in 0..m /\ i - 1 \in 0..m /\ i - 1 # m
          BY <2>1, <3>2, SMT
        <4>2. f[i] = f[i - 1] + a[i]
          BY <2>2, <4>1 DEF IsSum
        <4> QED  BY <3>2, <4>1, <4>2
      <3> QED  BY <3>1, <3>2
    <2> HIDE DEF g
    <2>6. IsSum(g, m, a)
      BY <2>4, <2>5 DEF IsSum
    <2> QED  BY <1>3, <2>3, <2>6
  <1> QED  BY <1>4, <1>5

\* Sums is that function for the payload lengths of a queue.
LEMMA SumsFacts ==
    ASSUME NEW q \in Seq(Message)
    PROVE  /\ \A i \in 0..Len(q) : Sums(q)[i] \in Nat
           /\ Sums(q)[0] = 0
           /\ \A i \in 1..Len(q) : Sums(q)[i] = Sums(q)[i - 1] + q[i].size
  <1> DEFINE n == Len(q)
             a == [i \in 1..n |-> q[i].size]
             Eq(f) == f = [i \in 0..n |-> IF i = 0 THEN 0 ELSE f[i - 1] + q[i].size]
  <1>0. n \in Nat /\ \A i \in 1..n : q[i] \in Message
    BY SMT
  <1>00. \A m \in Message : m.size \in Nat
    BY DEF Message
  <1>1. n \in Nat /\ a \in [1..n -> Nat] /\ \A i \in 1..n : a[i] = q[i].size /\ q[i].size \in Nat
    <2>1. \A i \in 1..n : q[i].size \in Nat
      BY <1>0, <1>00
    <2> QED  BY <1>0, <2>1
  <1> HIDE DEF a
  <1>2. PICK f \in [0..n -> Nat] : IsSum(f, n, a)
    BY <1>1, SumExists
  <1>3. Eq(f)
    <2> DEFINE g == [i \in 0..n |-> IF i = 0 THEN 0 ELSE f[i - 1] + q[i].size]
    <2>1. ASSUME NEW i \in 0..n PROVE f[i] = g[i]
      <3>1. CASE i = 0
        BY <1>2, <3>1 DEF IsSum
      <3>2. CASE i # 0
        <4>1. i \in 1..n
          BY <1>1, <3>2, SMT
        <4> QED  BY <1>1, <1>2, <4>1, <3>2 DEF IsSum
      <3> QED  BY <3>1, <3>2
    <2> QED  BY <1>2, <2>1
  <1>4. Sums(q) = CHOOSE g : Eq(g)
    BY DEF Sums
  <1>5. Eq(Sums(q))
    <2> HIDE DEF Eq
    <2> QED  BY <1>3, <1>4
  <1> DEFINE s == Sums(q)
  <1>6. s = [i \in 0..n |-> IF i = 0 THEN 0 ELSE s[i - 1] + q[i].size]
    BY <1>5
  <1> HIDE DEF s
  <1>7. s[0] = 0
    BY <1>1, <1>6, SMT
  <1>8. \A i \in 1..n : s[i] = s[i - 1] + q[i].size
    BY <1>1, <1>6, SMT
  <1> DEFINE Bad == {i \in 0..n : s[i] \notin Nat}
  <1>9. ASSUME Bad # {} PROVE FALSE
    <2>1. Bad \in SUBSET Nat
      BY <1>1, SMT
    <2> HIDE DEF Bad
    <2>2. PICK i \in Bad : \A k \in Bad : i <= k
      BY <1>9, <2>1, LeastNumber
    <2>3. i \in 0..n /\ s[i] \notin Nat
      BY <2>2 DEF Bad
    <2>4. i \in 1..n /\ i - 1 \in 0..n /\ ~ (i <= i - 1)
      BY <1>1, <1>7, <2>3, SMT
    <2>5. s[i - 1] \in Nat
      BY <2>2, <2>4 DEF Bad
    <2> QED  BY <1>1, <1>8, <2>3, <2>4, <2>5, SMT
  <1> QED  BY <1>7, <1>8, <1>9 DEF s

\* Where a piece of q stands in another queue, the sums grow there as they do in q.
LEMMA SumsOfPiece ==
    ASSUME NEW q \in Seq(Message), NEW p \in Seq(Message), NEW d \in 0..Len(q), NEW n \in 0..Len(p),
           d + n <= Len(q), \A i \in 1..n : p[i] = q[d + i]
    PROVE  Sums(p)[n] = Sums(q)[d + n] - Sums(q)[d]
  <1> DEFINE s == Sums(p)
             t == Sums(q)
             Bad == {i \in 0..n : s[i] # t[d + i] - t[d]}
  <1>1. /\ \A i \in 0..Len(p) : s[i] \in Nat
        /\ s[0] = 0
        /\ \A i \in 1..Len(p) : s[i] = s[i - 1] + p[i].size
        /\ \A i \in 0..Len(q) : t[i] \in Nat
        /\ \A i \in 1..Len(q) : t[i] = t[i - 1] + q[i].size
    BY SumsFacts
  <1> HIDE DEF s, t
  <1>2. Len(q) \in Nat /\ Len(p) \in Nat
    BY SMT
  <1>3. ASSUME Bad # {} PROVE FALSE
    <2>1. Bad \in SUBSET Nat
      BY SMT
    <2> HIDE DEF Bad
    <2>2. PICK i \in Bad : \A k \in Bad : i <= k
      BY <1>3, <2>1, LeastNumber
    <2>3. i \in 0..n /\ s[i] # t[d + i] - t[d]
      BY <2>2 DEF Bad
    <2>4. i # 0
      <3>1. t[d] \in Nat /\ d + 0 = d
        BY <1>1, SMT
      <3> QED  BY <1>1, <2>3, <3>1, SMT
    <2>5. i \in 1..n /\ i - 1 \in 0..n /\ ~ (i <= i - 1) /\ i \in 1..Len(p) /\ d + i \in 1..Len(q) /\ (d + i) - 1 = d + (i - 1)
          /\ d \in 0..Len(q) /\ i - 1 \in 0..Len(p) /\ d + (i - 1) \in 0..Len(q)
      BY <1>2, <2>3, <2>4, SMT
    <2>6. s[i - 1] = t[d + (i - 1)] - t[d]
      BY <2>2, <2>5 DEF Bad
    <2>7. s[i] = s[i - 1] + p[i].size /\ t[d + i] = t[d + (i - 1)] + q[d + i].size /\ p[i] = q[d + i]
      BY <1>1, <2>5
    <2>8. s[i - 1] \in Nat /\ t[d + (i - 1)] \in Nat /\ t[d] \in Nat
      BY <1>1, <2>5
    <2>9. p[i].size \in Nat
      <3>1. p[i] \in Message
        BY <2>5, SMT
      <3> QED  BY <3>1 DEF Message
    <2>10. \A x, y, z \in Nat : (x - y) + z = (x + z) - y
      BY SMT
    <2>11. (t[d + (i - 1)] - t[d]) + p[i].size = (t[d + (i - 1)] + p[i].size) - t[d]
      BY <2>8, <2>9, <2>10
    <2> QED  BY <2>3, <2>6, <2>7, <2>11
  <1>4. n \in 0..n
    BY SMT
  <1> QED  BY <1>3, <1>4 DEF s, t

\* The payload length of a queue, of one more message, and of its two parts.
LEMMA SizeFacts ==
    ASSUME NEW q \in Seq(Message)
    PROVE  /\ Size(q) \in Nat
           /\ \A m \in Message : Size(Append(q, m)) = Size(q) + m.size
           /\ \A k \in 0..Len(q) : Size(Gone(q, k)) \in Nat /\ Size(Rest(q, k)) = Size(q) - Size(Gone(q, k))
  <1>1. Len(q) \in Nat /\ Size(q) \in Nat
    BY SumsFacts, SMT DEF Size
  <1>2. ASSUME NEW m \in Message PROVE Size(Append(q, m)) = Size(q) + m.size
    <2> DEFINE p == Append(q, m)
    <2>1. p \in Seq(Message) /\ Len(p) = Len(q) + 1 /\ p[Len(q) + 1] = m /\ \A i \in 1..Len(q) : q[i] = p[0 + i]
      BY SMT
    <2> HIDE DEF p
    <2>2. Sums(q)[Len(q)] = Sums(p)[0 + Len(q)] - Sums(p)[0]
      <3>1. 0 \in 0..Len(p) /\ Len(q) \in 0..Len(q) /\ 0 + Len(q) <= Len(p)
        BY <1>1, <2>1, SMT
      <3> QED  BY <2>1, <3>1, SumsOfPiece
    <2>3. Sums(p)[Len(q)] \in Nat /\ Sums(p)[0] = 0 /\ Sums(p)[Len(q) + 1] = Sums(p)[(Len(q) + 1) - 1] + p[Len(q) + 1].size
      BY <1>1, <2>1, SumsFacts, SMT
    <2>4. 0 + Len(q) = Len(q) /\ (Len(q) + 1) - 1 = Len(q)
      BY <1>1, SMT
    <2>5. Sums(q)[Len(q)] = Sums(p)[Len(q)]
      BY <2>2, <2>3, <2>4, SMT
    <2>6. Size(p) = Size(q) + m.size
      BY <2>1, <2>3, <2>4, <2>5 DEF Size
    <2> QED  BY <2>6 DEF p
  <1>3. ASSUME NEW k \in 0..Len(q)
        PROVE  Size(Gone(q, k)) \in Nat /\ Size(Rest(q, k)) = Size(q) - Size(Gone(q, k))
    <2> DEFINE g == Gone(q, k)
               r == Rest(q, k)
    <2>1. g \in Seq(Message) /\ Len(g) = k /\ \A i \in 1..k : g[i] = q[0 + i]
      BY SMT DEF Gone
    <2>2. r \in Seq(Message) /\ Len(r) = Len(q) - k /\ \A i \in 1..(Len(q) - k) : r[i] = q[k + i]
      BY SMT DEF Rest
    <2> HIDE DEF g, r
    <2>3. Sums(g)[k] = Sums(q)[0 + k] - Sums(q)[0]
      <3>1. 0 \in 0..Len(q) /\ k \in 0..Len(g) /\ 0 + k <= Len(q)
        BY <1>1, <2>1, SMT
      <3> QED  BY <2>1, <3>1, SumsOfPiece
    <2>4. Sums(r)[Len(q) - k] = Sums(q)[k + (Len(q) - k)] - Sums(q)[k]
      <3>1. Len(q) - k \in 0..Len(r) /\ k + (Len(q) - k) <= Len(q)
        BY <1>1, <2>2, SMT
      <3> QED  BY <2>2, <3>1, SumsOfPiece
    <2>5. Sums(q)[0] = 0 /\ Sums(q)[k] \in Nat /\ Sums(q)[Len(q)] \in Nat
      BY <1>1, SumsFacts, SMT
    <2>6. 0 + k = k /\ k + (Len(q) - k) = Len(q)
      BY <1>1, SMT
    <2>7. Size(g) = Sums(q)[k] /\ Size(r) = Size(q) - Sums(q)[k]
      BY <2>1, <2>2, <2>3, <2>4, <2>5, <2>6, SMT DEF Size
    <2> QED  BY <2>5, <2>7 DEF g, r
  <1> QED  BY <1>1, <1>2, <1>3

\* An empty queue has no bytes.
LEMMA EmptySize == Size(<<>>) = 0
  <1>1. <<>> \in Seq(Message) /\ Len(<<>>) = 0
    BY SMT
  <1>2. Sums(<<>>)[0] = 0
    BY <1>1, SumsFacts
  <1> QED  BY <1>1, <1>2 DEF Size

-----------------------------------------------------------------------------
(* Queues *)

\* What is left of a queue after k calls of remove_front.
LEMMA RestFacts ==
    ASSUME NEW S, NEW q \in Seq(S), NEW k \in 0..Len(q)
    PROVE  /\ Rest(q, k) \in Seq(S)
           /\ Len(Rest(q, k)) = Len(q) - k
           /\ \A i \in 1..(Len(q) - k) : Rest(q, k)[i] = q[k + i]
  BY SMT DEF Rest

\* The limits of a configuration are natural numbers.
LEMMA ConfigFacts ==
    ASSUME NEW cfg \in StreamConfigs \cup {Default}
    PROVE  cfg.max_msgs \in Nat /\ cfg.max_bytes \in Nat /\ cfg.max_age \in Nat
  BY StoreAssumption, SMT DEF Default

\* push_back with the next sequence number keeps the queue contiguous.
LEMMA PushKeepsQueue ==
    ASSUME NEW msgs \in Seq(Message), NEW cnt \in Nat, NEW fst \in Nat, NEW lst \in Nat,
           StreamOK(msgs, cnt, fst, lst),
           NEW msg \in Message, msg.sequence = lst + 1
    PROVE  /\ Append(msgs, msg) \in Seq(Message)
           /\ StreamOK(Append(msgs, msg), cnt + 1, fst, lst + 1)
  <1> DEFINE q == Append(msgs, msg)
  <1>1. q \in Seq(Message) /\ Len(q) = Len(msgs) + 1 /\ Len(msgs) \in Nat
    BY SMT
  <1>2. /\ \A i \in 1..Len(msgs) : q[i] = msgs[i]
        /\ q[Len(msgs) + 1] = msg
    BY SMT
  <1>3. /\ fst + Len(msgs) = lst + 1
        /\ cnt = Len(msgs)
        /\ \A i \in 1..Len(msgs) : msgs[i].sequence = fst + i - 1
    BY DEF StreamOK
  <1> HIDE DEF q
  <1>4. ASSUME NEW i \in 1..Len(q)
        PROVE  q[i].sequence = fst + i - 1
    <2>1. CASE i \in 1..Len(msgs)
      BY <1>2, <1>3, <2>1
    <2>2. CASE i = Len(msgs) + 1
      <3>1. q[i].sequence = lst + 1
        BY <1>2, <2>2
      <3> QED  BY <3>1, <2>2, <1>1, <1>3, SMT
    <2> QED  BY <1>1, <2>1, <2>2, SMT
  <1>5. StreamOK(q, cnt + 1, fst, lst + 1)
    BY <1>1, <1>3, <1>4, SMT DEF StreamOK
  <1> QED  BY <1>1, <1>5 DEF q

\* So does any number of calls of remove_front.
LEMMA RemoveFrontKeepsQueue ==
    ASSUME NEW q \in Seq(Message), NEW cnt \in Nat, NEW fst \in Nat, NEW lst \in Nat,
           StreamOK(q, cnt, fst, lst), NEW k \in 0..Len(q)
    PROVE  /\ Rest(q, k) \in Seq(Message)
           /\ cnt - k \in Nat /\ fst + k \in Nat
           /\ StreamOK(Rest(q, k), cnt - k, fst + k, lst)
  <1> DEFINE r == Rest(q, k)
  <1>1. /\ r \in Seq(Message)
        /\ Len(r) = Len(q) - k
        /\ \A i \in 1..(Len(q) - k) : r[i] = q[k + i]
    BY RestFacts
  <1>2. /\ fst + Len(q) = lst + 1
        /\ cnt = Len(q)
        /\ \A i \in 1..Len(q) : q[i].sequence = fst + i - 1
        /\ Len(q) \in Nat /\ k \in Nat /\ k <= Len(q)
    BY SMT DEF StreamOK
  <1> HIDE DEF r
  <1>3. ASSUME NEW i \in 1..Len(r)
        PROVE  r[i].sequence = (fst + k) + i - 1
    <2>0. i \in 1..(Len(q) - k) /\ Len(q) \in Nat /\ k \in Nat
      BY <1>1, <1>2
    <2>1. k + i \in 1..Len(q) /\ r[i] = q[k + i]
      <3>1. k + i \in 1..Len(q)
        BY <2>0, SMT
      <3> QED  BY <1>1, <2>0, <3>1
    <2>2. r[i].sequence = fst + (k + i) - 1
      BY <1>2, <2>1
    <2> QED  BY <2>2, <1>2, SMT
  <1>4. StreamOK(r, cnt - k, fst + k, lst)
    <2>1. (fst + k) + Len(r) = lst + 1 /\ cnt - k = Len(r)
      <3>1. Len(r) = Len(q) - k /\ Len(q) \in Nat
        BY <1>1, <1>2
      <3>2. \A l \in Nat : fst + l = lst + 1 => (fst + k) + (l - k) = lst + 1
        BY <1>2, SMT
      <3> QED  BY <3>1, <3>2, <1>2
    <2> QED  BY <1>3, <2>1 DEF StreamOK
  <1> QED  BY <1>1, <1>2, <1>4, SMT DEF r

\* Where the loops of apply_retention stop, the limits hold.
LEMMA StoreKeepsLimits ==
    ASSUME NEW cfg \in StreamConfigs \cup {Default}, NEW q1 \in Seq(Message), NEW b2,
           NEW c \in 0..Len(q1), CountStops(cfg, q1, c), b2 = Size(Rest(q1, c)),
           NEW byt \in 0..Len(Rest(q1, c)), BytesStops(cfg, Rest(q1, c), b2, byt)
    PROVE  LimitsOK(cfg, Rest(Rest(q1, c), byt), b2 - Size(Gone(Rest(q1, c), byt)))
  <1> DEFINE q2 == Rest(q1, c)
  <1>1. q2 \in Seq(Message) /\ Len(q2) = Len(q1) - c
    BY RestFacts
  <1>2. cfg.max_msgs \in Nat /\ cfg.max_bytes \in Nat
    BY ConfigFacts
  <1>3. cfg.max_msgs > 0 => Len(q2) <= cfg.max_msgs
    BY <1>1, <1>2, SMT DEF CountStops
  <1> HIDE DEF q2
  <1>4. Len(Rest(q2, byt)) = Len(q2) - byt
    BY <1>1, RestFacts DEF q2
  <1>5. cfg.max_bytes > 0 => ~ (b2 - Size(Gone(q2, byt)) > cfg.max_bytes /\ Len(q2) - byt > 1)
    BY <1>2, SMT DEF BytesStops, q2
  <1>6. byt \in 0..Len(q2) /\ Len(q2) \in Nat
    BY <1>1, SMT DEF q2
  <1>a. b2 - Size(Gone(q2, byt)) = Size(Rest(q2, byt))
    <2>1. b2 = Size(q2)
      BY DEF q2
    <2> QED  BY <1>1, <1>6, <2>1, SizeFacts
  <1>7. LimitsOK(cfg, Rest(q2, byt), b2 - Size(Gone(q2, byt)))
    BY <1>2, <1>3, <1>4, <1>5, <1>6, <1>a, SMT DEF LimitsOK
  <1> QED  BY <1>7 DEF q2

-----------------------------------------------------------------------------
(* The steps of the message store *)

\* What Stream::store leaves behind, on the fields of any stream.
LEMMA StoreFacts ==
    ASSUME TypeOK, NEW n \in StreamNames, NEW st \in StreamRecord,
           StreamOK(st.messages, st.count, st.first_seq, st.last_seq), st.bytes = Size(st.messages),
           NEW msg \in Message, msg.sequence = st.last_seq + 1, Store(n, st, msg)
    PROVE  \E total \in Nat : \E q \in Seq(Message), cnt \in Nat, fst \in Nat :
               /\ StreamOK(q, cnt, fst, st.last_seq + 1)
               /\ LimitsOK(st.config, q, total)
               /\ config' = [config EXCEPT ![n] = st.config]
               /\ messages' = [messages EXCEPT ![n] = q]
               /\ last_seq' = [last_seq EXCEPT ![n] = st.last_seq + 1]
               /\ count' = [count EXCEPT ![n] = cnt]
               /\ bytes' = [bytes EXCEPT ![n] = total]
               /\ first_seq' = [first_seq EXCEPT ![n] = fst]
  <1> DEFINE q0 == Append(st.messages, msg)
             b0 == st.bytes + msg.size
  <1>0. /\ st.config \in StreamConfigs \cup {Default} /\ st.messages \in Seq(Message)
        /\ st.count \in Nat /\ st.first_seq \in Nat /\ st.last_seq \in Nat
    BY DEF StreamRecord
  <1> DEFINE c0 == st.count + 1
             f0 == st.first_seq
             l0 == st.last_seq + 1
  <1>1. /\ q0 \in Seq(Message) /\ c0 \in Nat /\ f0 \in Nat /\ l0 \in Nat
        /\ StreamOK(q0, c0, f0, l0)
    BY <1>0, PushKeepsQueue, SMT
  <1>a. b0 = Size(q0)
    BY <1>0, SizeFacts
  <1> HIDE DEF c0, f0, l0
  <1> HIDE DEF q0, b0
  <1>2. PICK age \in 0..Len(q0) :
           LET q1 == Rest(q0, age)
               b1 == b0 - Size(Gone(q0, age))
           IN  \E cnt \in 0..Len(q1) : CountStops(st.config, q1, cnt) /\
               LET q2 == Rest(q1, cnt)
                   b2 == b1 - Size(Gone(q1, cnt))
               IN  \E byt \in 0..Len(q2) :
                       /\ BytesStops(st.config, q2, b2, byt)
                       /\ Keep(n, st, msg, Rest(q2, byt), b2 - Size(Gone(q2, byt)), age + cnt + byt)
    BY DEF Store, q0, b0
  <1> DEFINE q1 == Rest(q0, age)
             b1 == b0 - Size(Gone(q0, age))
             c1 == c0 - age
             f1 == f0 + age
  <1>3. q1 \in Seq(Message) /\ c1 \in Nat /\ f1 \in Nat /\ StreamOK(q1, c1, f1, l0)
    BY <1>1, RemoveFrontKeepsQueue
  <1>b. b1 = Size(q1)
    BY <1>1, <1>a, SizeFacts
  <1>4. PICK c \in 0..Len(q1) : CountStops(st.config, q1, c) /\
           LET q2 == Rest(q1, c)
               b2 == b1 - Size(Gone(q1, c))
           IN  \E byt \in 0..Len(q2) :
                   /\ BytesStops(st.config, q2, b2, byt)
                   /\ Keep(n, st, msg, Rest(q2, byt), b2 - Size(Gone(q2, byt)), age + c + byt)
    BY <1>2
  <1> HIDE DEF q1, b1, c1, f1
  <1> DEFINE q2 == Rest(q1, c)
             b2 == b1 - Size(Gone(q1, c))
             c2 == c1 - c
             f2 == f1 + c
  <1>5. q2 \in Seq(Message) /\ c2 \in Nat /\ f2 \in Nat /\ StreamOK(q2, c2, f2, l0)
    BY <1>1, <1>3, RemoveFrontKeepsQueue
  <1>c. b2 = Size(q2)
    BY <1>3, <1>b, SizeFacts
  <1>6. PICK byt \in 0..Len(q2) :
                   /\ BytesStops(st.config, q2, b2, byt)
                   /\ Keep(n, st, msg, Rest(q2, byt), b2 - Size(Gone(q2, byt)), age + c + byt)
    BY <1>4
  <1>7. LimitsOK(st.config, Rest(q2, byt), b2 - Size(Gone(q2, byt)))
    BY <1>0, <1>3, <1>4, <1>6, <1>c, StoreKeepsLimits
  <1>8. byt \in 0..Len(q2)
    BY <1>6
  <1> HIDE DEF q2, b2, c2, f2
  <1> DEFINE q3 == Rest(q2, byt)
             b3 == b2 - Size(Gone(q2, byt))
             c3 == c2 - byt
             f3 == f2 + byt
  <1>9. q3 \in Seq(Message) /\ c3 \in Nat /\ f3 \in Nat /\ StreamOK(q3, c3, f3, l0)
    BY <1>1, <1>5, <1>8, RemoveFrontKeepsQueue
  <1>10. c3 = st.count + 1 - (age + c + byt) /\ f3 = st.first_seq + (age + c + byt)
    <2>1. age \in Int /\ c \in Int /\ byt \in Int
      BY <1>8, SMT
    <2>2. c3 = c2 - byt /\ f3 = f2 + byt
      OBVIOUS
    <2>3. c2 = c1 - c /\ f2 = f1 + c
      BY DEF c2, f2
    <2>4. c1 = c0 - age /\ f1 = f0 + age
      BY DEF c1, f1
    <2>5. c0 = st.count + 1 /\ f0 = st.first_seq
      BY DEF c0, f0
    <2>6. \A x, y \in Int : /\ ((x - age) - c) - byt = x - (age + c + byt)
                            /\ ((y + age) + c) + byt = y + (age + c + byt)
      BY <2>1, SMT
    <2> HIDE DEF c3, f3
    <2>7. c3 = ((c0 - age) - c) - byt /\ f3 = ((f0 + age) + c) + byt
      BY <2>2, <2>3, <2>4
    <2>8. c3 = c0 - (age + c + byt) /\ f3 = f0 + (age + c + byt)
      BY <1>1, <2>6, <2>7, SMT
    <2>9. \A x, y \in Int : (x + 1) - y = x + 1 - y
      BY SMT
    <2>10. (st.count + 1) - (age + c + byt) = st.count + 1 - (age + c + byt)
      <3>1. st.count \in Int /\ age + c + byt \in Int
        BY <1>0, <2>1, SMT
      <3> QED  BY <2>9, <3>1
    <2> QED  BY <2>5, <2>8, <2>10
  <1>11. Keep(n, st, msg, q3, b3, age + c + byt)
    BY <1>6
  <1>12. /\ config' = [config EXCEPT ![n] = st.config]
         /\ messages' = [messages EXCEPT ![n] = q3]
         /\ last_seq' = [last_seq EXCEPT ![n] = l0]
         /\ count' = [count EXCEPT ![n] = c3]
         /\ bytes' = [bytes EXCEPT ![n] = b3]
         /\ first_seq' = [first_seq EXCEPT ![n] = f3]
    BY <1>10, <1>11 DEF Keep, l0
  <1>13. LimitsOK(st.config, q3, b3)
    BY <1>7
  <1> HIDE DEF q3, c3, f3, b3
  <1>14. b3 \in Nat
    <2>1. b3 = Size(q3)
      BY <1>13 DEF LimitsOK
    <2> QED  BY <1>9, <2>1, SizeFacts
  <1> QED  BY <1>9, <1>12, <1>13, <1>14 DEF l0

\* Initially no stream is there and every name looks like a new stream.
LEMMA InitIInv == Init => IInv
  <1> SUFFICES ASSUME Init PROVE IInv
    OBVIOUS
  <1>1. TypeOK
    <2>1. /\ now \in StartTime..MaxTime /\ streams \subseteq StreamNames
          /\ config \in [StreamNames -> StreamConfigs \cup {Default}]
          /\ messages \in [StreamNames -> Seq(Message)]
      BY StoreAssumption, SMT DEF Init
    <2>2. /\ count \in [StreamNames -> Nat] /\ bytes \in [StreamNames -> Nat]
          /\ first_seq \in [StreamNames -> Nat] /\ last_seq \in [StreamNames -> Nat]
      BY DEF Init
    <2>3. /\ consumers \subseteq Keys
          /\ cconfig \in [Keys -> ConsumerConfigs \cup {NoRequest}]
          /\ cstream \in [Keys -> StreamNames \cup {<<>>}]
      BY DEF Init
    <2>4. /\ next_sequence \in [Keys -> Nat] /\ pending_ack_count \in [Keys -> Nat]
          /\ pending_acks \in [Keys -> SUBSET Nat]
      BY DEF Init
    <2>5. /\ delivered_count \in [Keys -> Nat] /\ acked_count \in [Keys -> Nat]
          /\ request \in [Tasks -> Request \cup {NoRequest}]
      BY DEF Init
    <2> QED  BY <2>1, <2>2, <2>3, <2>4, <2>5 DEF TypeOK
  <1>2. StreamInv /\ LimitInv
    BY EmptySize, SMT DEF Init, StreamInv, LimitInv, StreamOK, LimitsOK, Default
  <1>3. ConsumerInv /\ BooksBalance
    BY DEF Init, ConsumerInv, BooksBalance
  <1> QED  BY <1>1, <1>2, <1>3 DEF IInv

\* A step that leaves the consumers alone leaves their books alone.
LEMMA ConsumersAlone ==
    ASSUME IInv, UNCHANGED <<consumers, cconfig, cstate>>
    PROVE  ConsumerInv' /\ BooksBalance'
  BY DEF IInv, ConsumerInv, BooksBalance, cstate

\* A step that leaves the streams' fields alone keeps what holds of them.
LEMMA StreamsAlone ==
    ASSUME IInv, UNCHANGED state
    PROVE  StreamInv' /\ LimitInv'
  BY DEF IInv, StreamInv, LimitInv, state

\* The types hold after a step when each part does.
LEMMA TypesJoin ==
    ASSUME StreamTypes', BookTypes', request' \in [Tasks -> Request \cup {NoRequest}]
    PROVE  TypeOK'
  BY DEF TypeOK, StreamTypes, BookTypes

\* A step that leaves the clock and the streams alone keeps their types.
LEMMA StreamTypesStay ==
    ASSUME TypeOK, UNCHANGED <<now, streams, state>>
    PROVE  StreamTypes'
  BY DEF TypeOK, StreamTypes, state

\* A step that leaves the consumers alone keeps their types.
LEMMA BookTypesStay ==
    ASSUME TypeOK, UNCHANGED <<consumers, cconfig, cstream, cstate>>
    PROVE  BookTypes'
  BY DEF TypeOK, BookTypes, cstate

\* Giving one name the fields of a new stream: Stream::new, or the entry of delete_stream.
LEMMA FreshStream ==
    ASSUME IInv, NEW n \in StreamNames, NEW cfg \in StreamConfigs \cup {Default},
           config' = [config EXCEPT ![n] = cfg], messages' = [messages EXCEPT ![n] = <<>>],
           count' = [count EXCEPT ![n] = 0], bytes' = [bytes EXCEPT ![n] = 0],
           first_seq' = [first_seq EXCEPT ![n] = 1], last_seq' = [last_seq EXCEPT ![n] = 0]
    PROVE  /\ StreamInv' /\ LimitInv'
           /\ config' \in [StreamNames -> StreamConfigs \cup {Default}]
           /\ messages' \in [StreamNames -> Seq(Message)]
           /\ count' \in [StreamNames -> Nat]
           /\ bytes' \in [StreamNames -> Nat]
           /\ first_seq' \in [StreamNames -> Nat]
           /\ last_seq' \in [StreamNames -> Nat]
  <1>1. /\ config \in [StreamNames -> StreamConfigs \cup {Default}]
        /\ messages \in [StreamNames -> Seq(Message)] /\ count \in [StreamNames -> Nat]
        /\ bytes \in [StreamNames -> Nat]
        /\ first_seq \in [StreamNames -> Nat] /\ last_seq \in [StreamNames -> Nat]
    BY DEF IInv, TypeOK
  <1>2. messages' \in [StreamNames -> Seq(Message)]
    <2>1. <<>> \in Seq(Message)
      BY SMT
    <2> QED  BY <1>1, <2>1
  <1>3. ASSUME NEW m \in StreamNames
        PROVE  /\ StreamOK(messages'[m], count'[m], first_seq'[m], last_seq'[m])
               /\ LimitsOK(config'[m], messages'[m], bytes'[m])
    <2>1. CASE m = n
      <3>1. messages'[m] = <<>> /\ count'[m] = 0 /\ first_seq'[m] = 1 /\ last_seq'[m] = 0
            /\ config'[m] = cfg /\ bytes'[m] = 0
        BY <1>1, <2>1
      <3>2. cfg.max_msgs \in Nat
        BY ConfigFacts
      <3> QED  BY <3>1, <3>2, EmptySize, SMT DEF StreamOK, LimitsOK
    <2>2. CASE m # n
      <3>1. /\ messages'[m] = messages[m] /\ count'[m] = count[m] /\ first_seq'[m] = first_seq[m]
            /\ last_seq'[m] = last_seq[m] /\ config'[m] = config[m] /\ bytes'[m] = bytes[m]
        BY <1>1, <2>2
      <3> QED  BY <3>1 DEF IInv, StreamInv, LimitInv
    <2> QED  BY <2>1, <2>2
  <1>4. StreamInv' /\ LimitInv'
    BY <1>3 DEF StreamInv, LimitInv
  <1> QED  BY <1>1, <1>2, <1>4

\* create_stream preserves the invariant.
LEMMA CreateStreamStep ==
    ASSUME IInv, NEW n \in StreamNames, NEW cfg \in StreamConfigs, CreateStream(n, cfg)
    PROVE  IInv'
  <1>1. ConsumerInv' /\ BooksBalance'
    BY ConsumersAlone DEF CreateStream
  <1>2. /\ StreamInv' /\ LimitInv'
        /\ config' \in [StreamNames -> StreamConfigs \cup {Default}]
        /\ messages' \in [StreamNames -> Seq(Message)]
        /\ count' \in [StreamNames -> Nat]
        /\ bytes' \in [StreamNames -> Nat]
        /\ first_seq' \in [StreamNames -> Nat]
        /\ last_seq' \in [StreamNames -> Nat]
    BY FreshStream DEF CreateStream, NewStream
  <1>3. TypeOK'
    BY <1>2 DEF IInv, TypeOK, CreateStream, NewStream, cstate
  <1> QED  BY <1>1, <1>2, <1>3 DEF IInv

\* delete_stream preserves the invariant.
LEMMA DeleteStreamStep ==
    ASSUME IInv, NEW n \in StreamNames, DeleteStream(n)
    PROVE  IInv'
  <1>1. ConsumerInv' /\ BooksBalance'
    BY ConsumersAlone DEF DeleteStream
  <1>2. /\ StreamInv' /\ LimitInv'
        /\ config' \in [StreamNames -> StreamConfigs \cup {Default}]
        /\ messages' \in [StreamNames -> Seq(Message)]
        /\ count' \in [StreamNames -> Nat]
        /\ bytes' \in [StreamNames -> Nat]
        /\ first_seq' \in [StreamNames -> Nat]
        /\ last_seq' \in [StreamNames -> Nat]
    BY FreshStream DEF DeleteStream
  <1>3. TypeOK'
    BY <1>2 DEF IInv, TypeOK, DeleteStream, cstate
  <1> QED  BY <1>1, <1>2, <1>3 DEF IInv

\* They are those of a contiguous queue.
LEMMA FieldsFacts ==
    ASSUME IInv, NEW n \in StreamNames
    PROVE  /\ Fields(n) \in StreamRecord
           /\ StreamOK(Fields(n).messages, Fields(n).count, Fields(n).first_seq, Fields(n).last_seq)
           /\ Fields(n).bytes = Size(Fields(n).messages)
  <1>1. CASE n \in streams
    <2>1. Fields(n) \in StreamRecord
      BY <1>1 DEF IInv, TypeOK, StreamRecord, Fields
    <2> QED  BY <1>1, <2>1 DEF IInv, StreamInv, LimitInv, LimitsOK, Fields
  <1>2. CASE n \notin streams
    <2>1. Fields(n) \in StreamRecord
      BY <1>2, SMT DEF StreamRecord, Fields
    <2> QED  BY <1>2, <2>1, EmptySize, SMTT(30) DEF StreamOK, Fields
  <1> QED  BY <1>1, <1>2

\* store_message preserves the invariant.
LEMMA StoreMessageStep ==
    ASSUME IInv, NEW n \in StreamNames, NEW subj \in Subjects, NEW size \in Sizes,
           StoreMessage(n, subj, size)
    PROVE  IInv'
  <1> DEFINE st == Fields(n)
             msg == [sequence |-> st.last_seq + 1, timestamp |-> now,
                     subject |-> subj, size |-> size]
  <1>1. /\ streams' = streams \cup {n} /\ Store(n, st, msg)
        /\ UNCHANGED <<now, consumers, cconfig, cstream, cstate, request>>
    BY DEF StoreMessage, Fields
  <1>2. /\ st \in StreamRecord /\ StreamOK(st.messages, st.count, st.first_seq, st.last_seq)
        /\ st.bytes = Size(st.messages)
    BY FieldsFacts
  <1> HIDE DEF st
  <1>3. st.last_seq \in Nat /\ st.config \in StreamConfigs \cup {Default}
    BY <1>2 DEF StreamRecord
  <1>4. msg \in Message /\ msg.sequence = st.last_seq + 1
    BY <1>3, StoreAssumption, SMTT(30) DEF Message, IInv, TypeOK
  <1> HIDE DEF msg
  <1>5. TypeOK
    BY DEF IInv
  <1>6. PICK total \in Nat : \E q \in Seq(Message), cnt \in Nat, fst \in Nat :
               /\ StreamOK(q, cnt, fst, st.last_seq + 1)
               /\ LimitsOK(st.config, q, total)
               /\ config' = [config EXCEPT ![n] = st.config]
               /\ messages' = [messages EXCEPT ![n] = q]
               /\ last_seq' = [last_seq EXCEPT ![n] = st.last_seq + 1]
               /\ count' = [count EXCEPT ![n] = cnt]
               /\ bytes' = [bytes EXCEPT ![n] = total]
               /\ first_seq' = [first_seq EXCEPT ![n] = fst]
    BY <1>1, <1>2, <1>4, <1>5, StoreFacts, SMT
  <1>7. PICK q \in Seq(Message), cnt \in Nat, fst \in Nat :
               /\ StreamOK(q, cnt, fst, st.last_seq + 1)
               /\ LimitsOK(st.config, q, total)
               /\ config' = [config EXCEPT ![n] = st.config]
               /\ messages' = [messages EXCEPT ![n] = q]
               /\ last_seq' = [last_seq EXCEPT ![n] = st.last_seq + 1]
               /\ count' = [count EXCEPT ![n] = cnt]
               /\ bytes' = [bytes EXCEPT ![n] = total]
               /\ first_seq' = [first_seq EXCEPT ![n] = fst]
    BY <1>6
  <1>8. /\ config' \in [StreamNames -> StreamConfigs \cup {Default}]
        /\ messages' \in [StreamNames -> Seq(Message)]
        /\ count' \in [StreamNames -> Nat]
        /\ bytes' \in [StreamNames -> Nat]
        /\ first_seq' \in [StreamNames -> Nat]
        /\ last_seq' \in [StreamNames -> Nat]
    BY <1>3, <1>5, <1>7, SMTT(30) DEF TypeOK
  <1>9. TypeOK'
    BY <1>1, <1>5, <1>8 DEF TypeOK, cstate
  <1>10. ASSUME NEW m \in StreamNames
         PROVE  /\ StreamOK(messages'[m], count'[m], first_seq'[m], last_seq'[m])
                /\ LimitsOK(config'[m], messages'[m], bytes'[m])
    <2>1. CASE m = n
      <3>1. /\ messages'[m] = q /\ count'[m] = cnt /\ first_seq'[m] = fst
            /\ last_seq'[m] = st.last_seq + 1 /\ config'[m] = st.config /\ bytes'[m] = total
        BY <1>5, <1>7, <2>1 DEF TypeOK
      <3> QED  BY <1>7, <3>1
    <2>2. CASE m # n
      <3>1. /\ messages'[m] = messages[m] /\ count'[m] = count[m] /\ first_seq'[m] = first_seq[m]
            /\ last_seq'[m] = last_seq[m] /\ config'[m] = config[m] /\ bytes'[m] = bytes[m]
        BY <1>5, <1>7, <2>2 DEF TypeOK
      <3> QED  BY <3>1 DEF IInv, StreamInv, LimitInv
    <2> QED  BY <2>1, <2>2
  <1>11. StreamInv' /\ LimitInv'
    BY <1>10 DEF StreamInv, LimitInv
  <1>12. ConsumerInv' /\ BooksBalance'
    BY <1>1, ConsumersAlone
  <1> QED  BY <1>9, <1>11, <1>12 DEF IInv

\* The clock preserves the invariant.
LEMMA TickStep == ASSUME IInv, Tick PROVE IInv'
  <1>1. StreamInv' /\ LimitInv'
    BY StreamsAlone DEF Tick
  <1>2. ConsumerInv' /\ BooksBalance'
    BY ConsumersAlone DEF Tick
  <1>3. TypeOK'
    <2>1. TypeOK /\ now' \in StartTime..MaxTime
      <3>1. TypeOK
        BY DEF IInv
      <3>2. now \in StartTime..MaxTime
        BY <3>1 DEF TypeOK
      <3>3. now < MaxTime /\ now' = now + 1
        BY DEF Tick
      <3> QED  BY <3>1, <3>2, <3>3, StoreAssumption, SMT
    <2>2. UNCHANGED <<streams, state>> /\ UNCHANGED <<consumers, cconfig, cstream, cstate>>
          /\ request' = request
      BY DEF Tick
    <2>3. StreamTypes'
      BY <2>1, <2>2 DEF TypeOK, StreamTypes, state
    <2>4. request' \in [Tasks -> Request \cup {NoRequest}]
      BY <2>1, <2>2 DEF TypeOK
    <2> QED  BY <2>1, <2>2, <2>3, <2>4, BookTypesStay, TypesJoin
  <1> QED  BY <1>1, <1>2, <1>3 DEF IInv

\* The first half of create_consumer preserves the invariant.
LEMMA LookUpStreamStep ==
    ASSUME IInv, NEW t \in Tasks, NEW n \in StreamNames, NEW d \in ConsumerNames,
           NEW cfg \in ConsumerConfigs, LookUpStream(t, n, d, cfg)
    PROVE  IInv'
  <1>1. StreamInv' /\ LimitInv'
    BY StreamsAlone DEF LookUpStream
  <1>2. ConsumerInv' /\ BooksBalance'
    BY ConsumersAlone DEF LookUpStream
  <1>3. request' \in [Tasks -> Request \cup {NoRequest}]
    <2>1. [key |-> consumer_key(n, d), stream |-> n, config |-> cfg, last_seq |-> last_seq[n]] \in Request
      <3>1. consumer_key(n, d) \in Keys /\ last_seq[n] \in Nat
        BY SMT DEF IInv, TypeOK, Keys
      <3> QED  BY <3>1 DEF Request
    <2>2. request \in [Tasks -> Request \cup {NoRequest}]
      BY DEF IInv, TypeOK
    <2>3. request' = [request EXCEPT ![t] = [key |-> consumer_key(n, d), stream |-> n,
                                             config |-> cfg, last_seq |-> last_seq[n]]]
      BY DEF LookUpStream
    <2> QED  BY <2>1, <2>2, <2>3
  <1>a. TypeOK /\ UNCHANGED <<now, streams, state>> /\ UNCHANGED <<consumers, cconfig, cstream, cstate>>
    BY DEF IInv, LookUpStream
  <1>4. TypeOK'
    BY <1>3, <1>a, StreamTypesStay, BookTypesStay, TypesJoin
  <1> QED  BY <1>1, <1>2, <1>4 DEF IInv

\* Where a consumer starts is a sequence number.
LEMMA StartFacts ==
    ASSUME NEW cfg \in ConsumerConfigs, NEW l \in Nat
    PROVE  StartSequence(cfg, l) \in Nat
  <1>1. cfg.policy \in Policies /\ cfg.sequence \in Nat
    BY StoreAssumption
  <1> QED  BY <1>1, SMT DEF StartSequence, Policies

\* The second half of create_consumer preserves the invariant: a new consumer's books are
\* empty, an existing one is left alone.
LEMMA InsertConsumerStep ==
    ASSUME IInv, NEW t \in Tasks, InsertConsumer(t)
    PROVE  IInv'
  <1> DEFINE req == request[t]
             k == req.key
  <1>1. StreamInv' /\ LimitInv'
    BY StreamsAlone DEF InsertConsumer
  <1>2. TypeOK /\ ConsumerInv /\ BooksBalance
    BY DEF IInv
  <1>3. /\ req \in Request
        /\ request' = [request EXCEPT ![t] = NoRequest]
        /\ UNCHANGED <<now, streams, state, epoch>>
    BY <1>2 DEF InsertConsumer, TypeOK
  <1>4. k \in Keys /\ req.config \in ConsumerConfigs /\ req.stream \in StreamNames /\ req.last_seq \in Nat
    BY <1>3 DEF Request
  <1>5. CASE k \in consumers
    <2>1. UNCHANGED <<consumers, cconfig, cstream, cstate>>
      BY <1>5 DEF InsertConsumer
    <2>2. ConsumerInv' /\ BooksBalance'
      BY <2>1, ConsumersAlone
    <2>3. TypeOK'
      <3>1. request' \in [Tasks -> Request \cup {NoRequest}]
        BY <1>2, <1>3 DEF TypeOK
      <3> QED  BY <1>2, <1>3, <2>1, <3>1, StreamTypesStay, BookTypesStay, TypesJoin
    <2> QED  BY <1>1, <2>2, <2>3 DEF IInv
  <1>6. CASE k \notin consumers
    <2>1. /\ consumers' = consumers \cup {k}
          /\ cconfig' = [cconfig EXCEPT ![k] = req.config]
          /\ cstream' = [cstream EXCEPT ![k] = req.stream]
          /\ next_sequence' = [next_sequence EXCEPT ![k] = StartSequence(req.config, req.last_seq)]
          /\ pending_ack_count' = [pending_ack_count EXCEPT ![k] = 0]
          /\ pending_acks' = [pending_acks EXCEPT ![k] = {}]
          /\ delivered_count' = [delivered_count EXCEPT ![k] = 0]
          /\ acked_count' = [acked_count EXCEPT ![k] = 0]
      BY <1>6 DEF InsertConsumer
    <2>2. StartSequence(req.config, req.last_seq) \in Nat
      BY <1>4, StartFacts
    <2> HIDE DEF k, req
    <2>3. TypeOK'
      <3>1. consumers' \subseteq Keys
        BY <1>2, <1>4, <2>1 DEF TypeOK
      <3>2. /\ cconfig' \in [Keys -> ConsumerConfigs \cup {NoRequest}]
            /\ cstream' \in [Keys -> StreamNames \cup {<<>>}]
        BY <1>2, <1>4, <2>1 DEF TypeOK
      <3>3. /\ next_sequence' \in [Keys -> Nat]
            /\ pending_ack_count' \in [Keys -> Nat]
            /\ pending_acks' \in [Keys -> SUBSET Nat]
            /\ delivered_count' \in [Keys -> Nat]
            /\ acked_count' \in [Keys -> Nat]
        BY <1>2, <1>4, <2>1, <2>2 DEF TypeOK
      <3>4. request' \in [Tasks -> Request \cup {NoRequest}]
        BY <1>2, <1>3 DEF TypeOK
      <3>5. StreamTypes'
        BY <1>2, <1>3, StreamTypesStay
      <3>6. BookTypes'
        BY <3>1, <3>2, <3>3 DEF BookTypes
      <3> QED  BY <3>4, <3>5, <3>6, TypesJoin
    <2>4. ASSUME NEW j \in consumers'
          PROVE  /\ cconfig'[j] \in ConsumerConfigs
                 /\ IsFiniteSet(pending_acks'[j])
                 /\ pending_ack_count'[j] = Cardinality(pending_acks'[j])
                 /\ delivered_count'[j] = acked_count'[j] + pending_ack_count'[j]
                 /\ \A seq \in pending_acks'[j] : seq < next_sequence'[j]
                 /\ cconfig'[j].max_ack_pending > 0 => pending_ack_count'[j] <= cconfig'[j].max_ack_pending
      <3>1. CASE j = k
        <4>1. /\ cconfig'[j] = req.config /\ pending_acks'[j] = {} /\ pending_ack_count'[j] = 0
              /\ delivered_count'[j] = 0 /\ acked_count'[j] = 0
          BY <1>2, <1>4, <2>1, <3>1 DEF TypeOK
        <4>2. req.config.max_ack_pending \in Nat
          BY <1>4, StoreAssumption
        <4>3. IsFiniteSet({}) /\ Cardinality({}) = 0
          BY FS_EmptySet
        <4> QED  BY <1>4, <4>1, <4>2, <4>3, SMT
      <3>2. CASE j # k
        <4>1. /\ j \in consumers /\ cconfig'[j] = cconfig[j] /\ pending_acks'[j] = pending_acks[j]
              /\ pending_ack_count'[j] = pending_ack_count[j] /\ delivered_count'[j] = delivered_count[j]
              /\ acked_count'[j] = acked_count[j] /\ next_sequence'[j] = next_sequence[j]
          BY <1>2, <2>1, <3>2 DEF TypeOK
        <4> QED  BY <1>2, <4>1 DEF ConsumerInv, BooksBalance
      <3> QED  BY <3>1, <3>2
    <2>5. ConsumerInv' /\ BooksBalance'
      BY <2>4 DEF ConsumerInv, BooksBalance
    <2> QED  BY <1>1, <2>3, <2>5 DEF IInv
  <1> QED  BY <1>5, <1>6

\* delete_consumer preserves the invariant.
LEMMA DeleteConsumerStep ==
    ASSUME IInv, NEW k \in Keys, DeleteConsumer(k)
    PROVE  IInv'
  <1>1. StreamInv' /\ LimitInv'
    BY StreamsAlone DEF DeleteConsumer
  <1>2. ConsumerInv' /\ BooksBalance'
    BY DEF IInv, ConsumerInv, BooksBalance, DeleteConsumer, cstate
  <1>a. /\ TypeOK /\ UNCHANGED <<now, streams, state>>
        /\ consumers' \subseteq consumers /\ UNCHANGED <<cconfig, cstream, cstate, request>>
    BY DEF IInv, DeleteConsumer
  <1>b. BookTypes' /\ request' \in [Tasks -> Request \cup {NoRequest}]
    BY <1>a DEF TypeOK, BookTypes, cstate
  <1>3. TypeOK'
    BY <1>a, <1>b, StreamTypesStay, TypesJoin
  <1> QED  BY <1>1, <1>2, <1>3 DEF IInv

-----------------------------------------------------------------------------
(* Delivering and acknowledging *)

\* next_for_consumer preserves the invariant: what is delivered was not pending, because
\* everything pending is below next_sequence, and the consumer was below its limit.
LEMMA NextForConsumerStep ==
    ASSUME IInv, NEW n \in StreamNames, NEW d \in ConsumerNames, NextForConsumer(n, d)
    PROVE  IInv'
  <1> DEFINE k == consumer_key(n, d)
             seq == next_sequence[k]
  <1>1. StreamInv' /\ LimitInv'
    BY StreamsAlone DEF NextForConsumer
  <1>2. TypeOK /\ ConsumerInv /\ BooksBalance
    BY DEF IInv
  <1>3. /\ k \in consumers /\ ~ IsBackpressured(k)
        /\ pending_acks' = [pending_acks EXCEPT ![k] = @ \cup {seq}]
        /\ pending_ack_count' = [pending_ack_count EXCEPT ![k] = @ + 1]
        /\ delivered_count' = [delivered_count EXCEPT ![k] = @ + 1]
        /\ next_sequence' = [next_sequence EXCEPT ![k] = seq + 1]
        /\ UNCHANGED <<now, streams, state, consumers, cconfig, cstream, acked_count, request>>
    BY DEF NextForConsumer
  <1>4. k \in Keys /\ seq \in Nat
    BY <1>2, <1>3 DEF TypeOK
  <1> HIDE DEF k
  <1> HIDE DEF seq
  <1>5. TypeOK'
    <2>1. pending_acks' \in [Keys -> SUBSET Nat]
      <3>1. pending_acks \in [Keys -> SUBSET Nat] /\ pending_acks[k] \cup {seq} \in SUBSET Nat
        BY <1>2, <1>4 DEF TypeOK
      <3> QED  BY <1>3, <1>4, <3>1
    <2>a. /\ pending_ack_count \in [Keys -> Nat] /\ delivered_count \in [Keys -> Nat]
          /\ next_sequence \in [Keys -> Nat] /\ pending_ack_count[k] + 1 \in Nat
          /\ delivered_count[k] + 1 \in Nat /\ seq + 1 \in Nat
      BY <1>2, <1>4, SMTT(30) DEF TypeOK
    <2>2. pending_ack_count' \in [Keys -> Nat] /\ delivered_count' \in [Keys -> Nat]
      BY <1>3, <1>4, <2>a
    <2>3. next_sequence' \in [Keys -> Nat]
      BY <1>3, <1>4, <2>a
    <2>4. StreamTypes' /\ request' \in [Tasks -> Request \cup {NoRequest}]
      BY <1>2, <1>3, StreamTypesStay DEF TypeOK
    <2>5. BookTypes'
      BY <1>2, <1>3, <2>1, <2>2, <2>3 DEF TypeOK, BookTypes
    <2> QED  BY <2>4, <2>5, TypesJoin
  <1>6. ASSUME NEW j \in consumers'
        PROVE  /\ cconfig'[j] \in ConsumerConfigs
               /\ IsFiniteSet(pending_acks'[j])
               /\ pending_ack_count'[j] = Cardinality(pending_acks'[j])
               /\ delivered_count'[j] = acked_count'[j] + pending_ack_count'[j]
               /\ \A s \in pending_acks'[j] : s < next_sequence'[j]
               /\ cconfig'[j].max_ack_pending > 0 => pending_ack_count'[j] <= cconfig'[j].max_ack_pending
    <2>1. CASE j = k
      <3>1. /\ cconfig'[j] = cconfig[k] /\ pending_acks'[j] = pending_acks[k] \cup {seq}
            /\ pending_ack_count'[j] = pending_ack_count[k] + 1
            /\ delivered_count'[j] = delivered_count[k] + 1 /\ acked_count'[j] = acked_count[k]
            /\ next_sequence'[j] = seq + 1
        BY <1>2, <1>3, <1>4, <2>1 DEF TypeOK
      <3>2. /\ pending_acks[k] \subseteq Nat /\ pending_ack_count[k] \in Nat
            /\ delivered_count[k] \in Nat /\ acked_count[k] \in Nat
        BY <1>2, <1>4 DEF TypeOK
      <3>3. /\ cconfig[k] \in ConsumerConfigs /\ IsFiniteSet(pending_acks[k])
            /\ pending_ack_count[k] = Cardinality(pending_acks[k])
            /\ delivered_count[k] = acked_count[k] + pending_ack_count[k]
            /\ \A s \in pending_acks[k] : s < seq
        BY <1>2, <1>3 DEF ConsumerInv, BooksBalance, seq
      <3>4. seq \notin pending_acks[k]
        BY <1>4, <3>3, SMT
      <3>5. /\ IsFiniteSet(pending_acks[k] \cup {seq})
            /\ Cardinality(pending_acks[k] \cup {seq}) = Cardinality(pending_acks[k]) + 1
        BY <3>3, <3>4, FS_AddElement
      <3>6. cconfig[k].max_ack_pending \in Nat
        BY <3>3, StoreAssumption
      <3>7. cconfig[k].max_ack_pending > 0 => pending_ack_count[k] + 1 <= cconfig[k].max_ack_pending
        BY <1>3, <3>2, <3>6, SMT DEF IsBackpressured
      <3>8. \A s \in pending_acks[k] \cup {seq} : s < seq + 1
        BY <1>4, <3>2, <3>3, SMT
      <3>9. delivered_count[k] + 1 = acked_count[k] + (pending_ack_count[k] + 1)
        BY <3>2, <3>3, SMT
      <3> QED  BY <3>1, <3>3, <3>5, <3>7, <3>8, <3>9
    <2>2. CASE j # k
      <3>1. /\ j \in consumers /\ cconfig'[j] = cconfig[j] /\ pending_acks'[j] = pending_acks[j]
            /\ pending_ack_count'[j] = pending_ack_count[j] /\ delivered_count'[j] = delivered_count[j]
            /\ acked_count'[j] = acked_count[j] /\ next_sequence'[j] = next_sequence[j]
        BY <1>2, <1>3, <2>2 DEF TypeOK
      <3> QED  BY <1>2, <3>1 DEF ConsumerInv, BooksBalance
    <2> QED  BY <2>1, <2>2
  <1>7. ConsumerInv' /\ BooksBalance'
    BY <1>6 DEF ConsumerInv, BooksBalance
  <1> QED  BY <1>1, <1>5, <1>7 DEF IInv

\* ack preserves the invariant: the recount agrees with one decrement.
LEMMA AckStep ==
    ASSUME IInv, NEW k \in Keys, NEW seq \in pending_acks[k], Ack(k, seq)
    PROVE  IInv'
  <1>1. StreamInv' /\ LimitInv'
    BY StreamsAlone DEF Ack
  <1>2. TypeOK /\ ConsumerInv /\ BooksBalance
    BY DEF IInv
  <1>3. /\ k \in consumers
        /\ pending_acks' = [pending_acks EXCEPT ![k] = @ \ {seq}]
        /\ pending_ack_count' = [pending_ack_count EXCEPT ![k] = Cardinality(pending_acks[k] \ {seq})]
        /\ acked_count' = [acked_count EXCEPT ![k] = @ + 1]
        /\ UNCHANGED <<now, streams, state, consumers, cconfig, cstream, next_sequence,
                       delivered_count, request>>
    BY DEF Ack
  <1>4. /\ pending_acks[k] \subseteq Nat /\ pending_ack_count[k] \in Nat
        /\ delivered_count[k] \in Nat /\ acked_count[k] \in Nat
    BY <1>2 DEF TypeOK
  <1>5. /\ cconfig[k] \in ConsumerConfigs /\ IsFiniteSet(pending_acks[k])
        /\ pending_ack_count[k] = Cardinality(pending_acks[k])
        /\ delivered_count[k] = acked_count[k] + pending_ack_count[k]
        /\ \A s \in pending_acks[k] : s < next_sequence[k]
        /\ cconfig[k].max_ack_pending > 0 => pending_ack_count[k] <= cconfig[k].max_ack_pending
    BY <1>2, <1>3 DEF ConsumerInv, BooksBalance
  <1>6. /\ IsFiniteSet(pending_acks[k] \ {seq})
        /\ Cardinality(pending_acks[k] \ {seq}) = Cardinality(pending_acks[k]) - 1
        /\ Cardinality(pending_acks[k] \ {seq}) \in Nat
    BY <1>5, FS_RemoveElement, FS_CardinalityType
  <1>7. TypeOK'
    <2>0. /\ pending_ack_count \in [Keys -> Nat]
          /\ pending_acks \in [Keys -> SUBSET Nat]
          /\ acked_count \in [Keys -> Nat]
      BY <1>2 DEF TypeOK
    <2>1. /\ pending_ack_count' \in [Keys -> Nat]
          /\ pending_acks' \in [Keys -> SUBSET Nat]
          /\ acked_count' \in [Keys -> Nat]
      BY <1>3, <1>4, <1>6, <2>0, SMT
    <2>4. StreamTypes' /\ request' \in [Tasks -> Request \cup {NoRequest}]
      BY <1>2, <1>3, StreamTypesStay DEF TypeOK
    <2>5. BookTypes'
      BY <1>2, <1>3, <2>1 DEF TypeOK, BookTypes
    <2> QED  BY <2>4, <2>5, TypesJoin
  <1>8. ASSUME NEW j \in consumers'
        PROVE  /\ cconfig'[j] \in ConsumerConfigs
               /\ IsFiniteSet(pending_acks'[j])
               /\ pending_ack_count'[j] = Cardinality(pending_acks'[j])
               /\ delivered_count'[j] = acked_count'[j] + pending_ack_count'[j]
               /\ \A s \in pending_acks'[j] : s < next_sequence'[j]
               /\ cconfig'[j].max_ack_pending > 0 => pending_ack_count'[j] <= cconfig'[j].max_ack_pending
    <2>1. CASE j = k
      <3>1. /\ cconfig'[j] = cconfig[k] /\ pending_acks'[j] = pending_acks[k] \ {seq}
            /\ pending_ack_count'[j] = Cardinality(pending_acks[k] \ {seq})
            /\ delivered_count'[j] = delivered_count[k] /\ acked_count'[j] = acked_count[k] + 1
            /\ next_sequence'[j] = next_sequence[k]
        BY <1>2, <1>3, <2>1 DEF TypeOK
      <3>2. cconfig[k].max_ack_pending \in Nat
        BY <1>5, StoreAssumption
      <3>3. pending_ack_count'[j] = pending_ack_count[k] - 1
        BY <1>5, <1>6, <3>1
      <3>4. delivered_count[k] = (acked_count[k] + 1) + (pending_ack_count[k] - 1)
        BY <1>4, <1>5, SMT
      <3>5. cconfig[k].max_ack_pending > 0 => pending_ack_count[k] - 1 <= cconfig[k].max_ack_pending
        BY <1>4, <1>5, <3>2, SMT
      <3>6. \A s \in pending_acks[k] \ {seq} : s < next_sequence[k]
        BY <1>5
      <3> QED  BY <1>5, <1>6, <3>1, <3>3, <3>4, <3>5, <3>6
    <2>2. CASE j # k
      <3>1. /\ j \in consumers /\ cconfig'[j] = cconfig[j] /\ pending_acks'[j] = pending_acks[j]
            /\ pending_ack_count'[j] = pending_ack_count[j] /\ delivered_count'[j] = delivered_count[j]
            /\ acked_count'[j] = acked_count[j] /\ next_sequence'[j] = next_sequence[j]
        BY <1>2, <1>3, <2>2 DEF TypeOK
      <3> QED  BY <1>2, <3>1 DEF ConsumerInv, BooksBalance
    <2> QED  BY <2>1, <2>2
  <1>9. ConsumerInv' /\ BooksBalance'
    BY <1>8 DEF ConsumerInv, BooksBalance
  <1> QED  BY <1>1, <1>7, <1>9 DEF IInv

-----------------------------------------------------------------------------
(* The theorems about the message store *)

\* Every step preserves the invariant.
LEMMA NextIInv == ASSUME IInv, [Next]_vars PROVE IInv'
  <1>1. CASE Tick
    BY <1>1, TickStep
  <1>2. ASSUME NEW n \in StreamNames, StreamSteps(n) PROVE IInv'
    BY <1>2, CreateStreamStep, DeleteStreamStep, StoreMessageStep DEF StreamSteps
  <1>3. ASSUME NEW n \in StreamNames, NEW d \in ConsumerNames, ConsumerSteps(n, d) PROVE IInv'
    <2>1. consumer_key(n, d) \in Keys
      BY SMT DEF Keys
    <2> QED  BY <1>3, <2>1, LookUpStreamStep, NextForConsumerStep, DeleteConsumerStep, AckStep DEF
                ConsumerSteps
  <1>4. ASSUME NEW t \in Tasks, InsertConsumer(t) PROVE IInv'
    BY <1>4, InsertConsumerStep
  <1>5. CASE UNCHANGED vars
    <2>1. StreamInv' /\ LimitInv' /\ ConsumerInv' /\ BooksBalance'
      BY <1>5, StreamsAlone, ConsumersAlone DEF vars
    <2>2. TypeOK'
      BY <1>5, StreamTypesStay, BookTypesStay, TypesJoin DEF IInv, TypeOK, vars
    <2> QED  BY <2>1, <2>2 DEF IInv
  <1> QED  BY <1>1, <1>2, <1>3, <1>4, <1>5 DEF Next

\* The invariant of the store holds in every reachable state, however many streams,
\* consumers and tasks there are.
THEOREM StoreInvariant == Spec => []IInv
  <1>1. Init => IInv
    BY InitIInv
  <1>2. IInv /\ [Next]_vars => IInv'
    BY NextIInv
  <1> QED  BY <1>1, <1>2, PTL DEF Spec

\* The store's state is well typed.
THEOREM StoreTypeCorrect == Spec => []TypeOK
  <1>1. IInv => TypeOK
    BY DEF IInv
  <1> QED  BY <1>1, StoreInvariant, PTL

\* The index arithmetic of Stream::read is sound: the deque is contiguous from first_seq to
\* last_seq under every mix of stores and retention.
THEOREM StreamContiguous == Spec => []Contiguous
  <1>1. ASSUME IInv PROVE Contiguous
    <2>1. ASSUME NEW n \in streams
          PROVE  /\ first_seq[n] + Len(messages[n]) = last_seq[n] + 1
                 /\ count[n] = Len(messages[n])
                 /\ \A i \in DOMAIN messages[n] : messages[n][i].sequence = first_seq[n] + i - 1
      <3>1. n \in StreamNames /\ messages[n] \in Seq(Message)
        BY <1>1, <2>1 DEF IInv, TypeOK
      <3>2. DOMAIN messages[n] = 1..Len(messages[n])
        BY <3>1, SMT
      <3>3. StreamOK(messages[n], count[n], first_seq[n], last_seq[n])
        BY <1>1, <3>1 DEF IInv, StreamInv
      <3> QED  BY <3>2, <3>3 DEF StreamOK
    <2> QED  BY <2>1 DEF Contiguous
  <1>2. IInv => Contiguous
    BY <1>1
  <1> QED  BY <1>2, StoreInvariant, PTL

\* apply_retention leaves every stream within its count and byte limits.
THEOREM LimitsHold == Spec => []WithinLimits
  <1>1. IInv => WithinLimits
    BY DEF IInv, TypeOK, LimitInv, LimitsOK, WithinLimits
  <1> QED  BY <1>1, StoreInvariant, PTL

\* StreamState.bytes, which store and remove_front only ever adjust, is the total payload length
\* of the messages in the queue.
THEOREM StoreBytesAgree == Spec => []BytesAgree
  <1>1. IInv => BytesAgree
    BY DEF IInv, TypeOK, LimitInv, LimitsOK, BytesAgree
  <1> QED  BY <1>1, StoreInvariant, PTL

\* A consumer's counters agree with its pending set, and it never exceeds max_ack_pending.
THEOREM ConsumerBooks == Spec => []BooksBalance
  <1>1. IInv => BooksBalance
    BY DEF IInv
  <1> QED  BY <1>1, StoreInvariant, PTL

\* No step takes a consumer that stays in the map back to an earlier sequence number.
THEOREM NoRedelivery == Spec => NeverRedelivers
  <1>1. ASSUME IInv, Next
        PROVE  \A k \in consumers \cap consumers' : next_sequence'[k] >= next_sequence[k]
    <2>0. SUFFICES ASSUME NEW k \in consumers, k \in consumers'
                   PROVE  next_sequence'[k] >= next_sequence[k]
      OBVIOUS
    <2>1. k \in Keys /\ next_sequence \in [Keys -> Nat] /\ next_sequence[k] \in Nat
      BY <1>1 DEF IInv, TypeOK
    <2>2. CASE next_sequence' = next_sequence
      BY <2>1, <2>2, SMT
    <2>3. CASE Tick
      BY <2>2, <2>3 DEF Tick, cstate
    <2>4. ASSUME NEW n \in StreamNames, StreamSteps(n) PROVE next_sequence' = next_sequence
      BY <2>4 DEF StreamSteps, CreateStream, DeleteStream, StoreMessage, cstate
    <2>5. ASSUME NEW n \in StreamNames, NEW d \in ConsumerNames, ConsumerSteps(n, d)
          PROVE  next_sequence'[k] >= next_sequence[k]
      <3>1. CASE NextForConsumer(n, d)
        <4>1. next_sequence' = [next_sequence EXCEPT ![consumer_key(n, d)] =
                                    next_sequence[consumer_key(n, d)] + 1]
          BY <3>1 DEF NextForConsumer
        <4> QED  BY <2>1, <4>1, SMT
      <3>2. CASE next_sequence' = next_sequence
        BY <2>1, <3>2, SMT
      <3> QED  BY <2>5, <3>1, <3>2 DEF ConsumerSteps, LookUpStream, DeleteConsumer, Ack, cstate
    <2>6. ASSUME NEW t \in Tasks, InsertConsumer(t) PROVE next_sequence'[k] >= next_sequence[k]
      <3>1. CASE request[t].key \in consumers
        BY <2>1, <2>6, <3>1, SMT DEF InsertConsumer, cstate
      <3>2. CASE request[t].key \notin consumers
        <4>1. request[t].key # k
          BY <2>0, <3>2
        <4>2. next_sequence' = [next_sequence EXCEPT ![request[t].key] =
                                    StartSequence(request[t].config, request[t].last_seq)]
          BY <2>6, <3>2 DEF InsertConsumer
        <4>3. next_sequence'[k] = next_sequence[k]
          BY <2>1, <4>1, <4>2
        <4> QED  BY <2>1, <4>3, SMT
      <3> QED  BY <3>1, <3>2
    <2> QED  BY <1>1, <2>2, <2>3, <2>4, <2>5, <2>6 DEF Next
  <1>2. IInv /\ [Next]_vars =>
            [\A k \in consumers \cap consumers' : next_sequence'[k] >= next_sequence[k]]_vars
    BY <1>1
  <1> QED  BY <1>2, StoreInvariant, PTL DEF Spec, NeverRedelivers

-----------------------------------------------------------------------------
(* The newest message *)

\* While no age reaches back before the clock's origin, none of the three loops of
\* apply_retention removes the message just pushed.
LEMMA StoreRetains ==
    ASSUME TypeOK, NEW n \in StreamNames, NEW st \in StreamRecord, st.config.max_age <= now,
           NEW msg \in Message, msg.timestamp = now, Store(n, st, msg)
    PROVE  messages'[n] # <<>>
  <1> DEFINE q0 == Append(st.messages, msg)
             b0 == st.bytes + msg.size
  <1>0. st.config \in StreamConfigs \cup {Default} /\ st.messages \in Seq(Message)
    BY DEF StreamRecord
  <1>1. q0 \in Seq(Message) /\ Len(q0) \in Nat /\ Len(q0) > 0 /\ q0[Len(q0)] = msg
    BY <1>0, SMT
  <1>2. st.config.max_age \in Nat /\ st.config.max_msgs \in Nat /\ st.config.max_bytes \in Nat
    BY <1>0, ConfigFacts
  <1> HIDE DEF q0, b0
  <1>3. PICK age \in 0..Len(q0) : AgeStops(st.config, q0, age) /\
           LET q1 == Rest(q0, age)
               b1 == b0 - Size(Gone(q0, age))
           IN  \E cnt \in 0..Len(q1) : CountStops(st.config, q1, cnt) /\
               LET q2 == Rest(q1, cnt)
                   b2 == b1 - Size(Gone(q1, cnt))
               IN  \E byt \in 0..Len(q2) :
                       /\ BytesStops(st.config, q2, b2, byt)
                       /\ Keep(n, st, msg, Rest(q2, byt), b2 - Size(Gone(q2, byt)), age + cnt + byt)
    BY DEF Store, q0, b0
  <1> DEFINE q1 == Rest(q0, age)
             b1 == b0 - Size(Gone(q0, age))
  <1>4. age < Len(q0)
    <2>1. CASE st.config.max_age = 0
      BY <1>1, <1>3, <2>1 DEF AgeStops
    <2>2. CASE st.config.max_age # 0
      <3>1. now \in Nat /\ now < Word
        BY StoreAssumption, SMT DEF TypeOK
      <3>2. now - st.config.max_age \in 0..(Word - 1) /\ Word \in Nat \ {0}
        <4>1. Word \in Nat \ {0}
          BY StoreAssumption
        <4> QED  BY <1>2, <3>1, <4>1, SMT
      <3>3. Cutoff(st.config) = now - st.config.max_age
        <4>1. \A w \in Nat \ {0} : \A x \in 0..(w - 1) : x % w = x
          BY SMT
        <4> QED  BY <3>2, <4>1 DEF Cutoff
      <3>4. Cutoff(st.config) <= now /\ Cutoff(st.config) \in Int
        BY <1>2, <3>1, <3>3, SMT
      <3>5. \A i \in 1..age : q0[i].timestamp < Cutoff(st.config)
        BY <1>3, <2>2 DEF AgeStops
      <3>6. age # Len(q0)
        <4>1. SUFFICES ASSUME age = Len(q0) PROVE FALSE
          OBVIOUS
        <4>2. Len(q0) \in 1..age
          BY <1>1, <4>1, SMT
        <4>3. now < Cutoff(st.config)
          BY <1>1, <3>5, <4>2
        <4> QED  BY <3>1, <3>4, <4>3, SMT
      <3> QED  BY <1>1, <3>6, SMT
    <2> QED  BY <2>1, <2>2
  <1>5. q1 \in Seq(Message) /\ Len(q1) \in Nat /\ Len(q1) > 0
    <2>1. q1 \in Seq(Message) /\ Len(q1) = Len(q0) - age
      BY <1>1, RestFacts
    <2> HIDE DEF q1
    <2> QED  BY <1>1, <1>4, <2>1, SMT
  <1>6. PICK c \in 0..Len(q1) : CountStops(st.config, q1, c) /\
           LET q2 == Rest(q1, c)
               b2 == b1 - Size(Gone(q1, c))
           IN  \E byt \in 0..Len(q2) :
                   /\ BytesStops(st.config, q2, b2, byt)
                   /\ Keep(n, st, msg, Rest(q2, byt), b2 - Size(Gone(q2, byt)), age + c + byt)
    BY <1>3
  <1> HIDE DEF q1, b1
  <1> DEFINE q2 == Rest(q1, c)
             b2 == b1 - Size(Gone(q1, c))
  <1>7. q2 \in Seq(Message) /\ Len(q2) \in Nat /\ Len(q2) > 0
    <2>1. q2 \in Seq(Message) /\ Len(q2) = Len(q1) - c
      BY <1>5, RestFacts
    <2>2. Len(q1) - c > 0
      BY <1>2, <1>5, <1>6, SMT DEF CountStops
    <2> HIDE DEF q2
    <2> QED  BY <1>5, <2>1, <2>2, SMT
  <1>8. PICK byt \in 0..Len(q2) :
                   /\ BytesStops(st.config, q2, b2, byt)
                   /\ Keep(n, st, msg, Rest(q2, byt), b2 - Size(Gone(q2, byt)), age + c + byt)
    BY <1>6
  <1>9. byt \in 0..Len(q2) /\ BytesStops(st.config, q2, b2, byt)
    BY <1>8
  <1> HIDE DEF q2, b2
  <1>10. byt < Len(q2)
    <2>1. CASE byt = 0
      BY <1>7, <2>1
    <2>2. CASE byt # 0
      <3>1. Len(q2) - (byt - 1) > 1
        <4>1. byt - 1 \in 0..(byt - 1)
          BY <1>7, <1>9, <2>2, SMT
        <4> QED  BY <1>9, <2>2, <4>1 DEF BytesStops
      <3> QED  BY <1>7, <1>9, <3>1, SMT
    <2> QED  BY <2>1, <2>2
  <1>11. Len(Rest(q2, byt)) = Len(q2) - byt
    BY <1>7, <1>9, RestFacts
  <1>12. messages'[n] = Rest(q2, byt)
    BY <1>8 DEF Keep, TypeOK, q2, b2
  <1> DEFINE left == Rest(q2, byt)
  <1>13. Len(left) # 0
    <2>1. Len(q2) \in Nat /\ byt \in Nat
      BY <1>7, <1>9, SMT
    <2> HIDE DEF q2
    <2> QED  BY <1>10, <1>11, <2>1, SMT
  <1>14. messages'[n] = left
    BY <1>12
  <1> HIDE DEF left
  <1> QED  BY <1>13, <1>14

\* A stream that was ever stored to holds a message: no retention limit costs the newest
\* one, provided no max_age reaches back before the origin of the clock.  (Without the
\* proviso the unsigned subtraction wraps and the property fails.)
THEOREM NewestRetained ==
    ASSUME \A cfg \in StreamConfigs : cfg.max_age <= StartTime
    PROVE  Spec => []FreshIsRetained
  <1> DEFINE Kept == \A n \in StreamNames : last_seq[n] > 0 => messages[n] # <<>>
  <1>1. Init => Kept
    BY SMT DEF Init
  <1>2. ASSUME IInv, Kept, [Next]_vars PROVE Kept'
    <2>0. TypeOK
      BY <1>2 DEF IInv
    <2>1. CASE UNCHANGED state
      BY <1>2, <2>1 DEF state
    <2>2. ASSUME NEW n \in StreamNames, NEW cfg \in StreamConfigs, CreateStream(n, cfg) PROVE Kept'
      BY <1>2, <2>0, <2>2, SMT DEF CreateStream, NewStream, TypeOK
    <2>3. ASSUME NEW n \in StreamNames, DeleteStream(n) PROVE Kept'
      BY <1>2, <2>0, <2>3, SMT DEF DeleteStream, TypeOK
    <2>4. ASSUME NEW n \in StreamNames, NEW subj \in Subjects, NEW size \in Sizes,
                 StoreMessage(n, subj, size)
          PROVE  Kept'
      <3> DEFINE st == Fields(n)
                 msg == [sequence |-> st.last_seq + 1, timestamp |-> now,
                         subject |-> subj, size |-> size]
      <3>1. Store(n, st, msg)
        BY <2>4 DEF StoreMessage, Fields
      <3>2. /\ st \in StreamRecord /\ StreamOK(st.messages, st.count, st.first_seq, st.last_seq)
            /\ st.bytes = Size(st.messages)
        BY <1>2, FieldsFacts
      <3> HIDE DEF st
      <3>3. st.last_seq \in Nat /\ st.config \in StreamConfigs \cup {Default}
        BY <3>2 DEF StreamRecord
      <3>a. now \in Nat /\ StartTime \in Nat /\ StartTime <= now
        BY <2>0, StoreAssumption, SMT DEF TypeOK
      <3>b. size \in Nat
        BY StoreAssumption
      <3>4. msg \in Message /\ msg.timestamp = now /\ msg.sequence = st.last_seq + 1
        BY <3>3, <3>a, <3>b, SMT DEF Message
      <3>c. st.config.max_age \in Nat
        BY <3>3, ConfigFacts
      <3>5. st.config.max_age <= now
        <4>1. CASE st.config \in StreamConfigs
          BY <3>a, <3>c, <4>1, SMT
        <4>2. CASE st.config = Default
          BY <3>a, <4>2, SMT DEF Default
        <4> QED  BY <3>3, <4>1, <4>2
      <3> HIDE DEF msg
      <3>6. messages'[n] # <<>>
        BY <2>0, <3>1, <3>2, <3>4, <3>5, StoreRetains
      <3>7. PICK total \in Nat : \E q \in Seq(Message), cnt \in Nat, fst \in Nat :
               /\ messages' = [messages EXCEPT ![n] = q]
               /\ last_seq' = [last_seq EXCEPT ![n] = st.last_seq + 1]
        BY <2>0, <3>1, <3>2, <3>4, StoreFacts, ZenonT(40)
      <3>8. ASSUME NEW m \in StreamNames, m # n
            PROVE  messages'[m] = messages[m] /\ last_seq'[m] = last_seq[m]
        BY <2>0, <3>7, <3>8 DEF TypeOK
      <3> QED  BY <1>2, <3>6, <3>8
    <2>5. CASE Tick
      BY <2>1, <2>5 DEF Tick
    <2>6. ASSUME NEW n \in StreamNames, NEW d \in ConsumerNames, ConsumerSteps(n, d)
          PROVE  UNCHANGED state
      BY <2>6 DEF ConsumerSteps, LookUpStream, NextForConsumer, DeleteConsumer, Ack
    <2>7. ASSUME NEW u \in Tasks, InsertConsumer(u) PROVE UNCHANGED state
      BY <2>7 DEF InsertConsumer
    <2>8. CASE UNCHANGED vars
      BY <2>1, <2>8 DEF vars
    <2>9. ASSUME NEW n \in StreamNames, StreamSteps(n) PROVE Kept'
      BY <2>2, <2>3, <2>4, <2>9 DEF StreamSteps
    <2> HIDE DEF Kept
    <2> QED  BY <1>2, <2>1, <2>5, <2>6, <2>7, <2>8, <2>9 DEF Next
  <1>3. IInv /\ Kept => FreshIsRetained
    BY DEF IInv, TypeOK, FreshIsRetained
  <1>4. IInv /\ Kept /\ [Next]_vars => Kept'
    BY <1>2
  <1> HIDE DEF Kept
  <1> QED  BY <1>1, <1>3, <1>4, StoreInvariant, PTL DEF Spec

-----------------------------------------------------------------------------
(* The message store implements StreamLog.

   The proof needs the inductive invariant: that the deque is contiguous is what
   makes a message keep its number when first_seq moves, and that the message
   found at an index carries the number asked for. *)

\* The numbers and messages StreamLog sees, in terms of the fields Stream::store works on.
LEMMA RetainedFields ==
    ASSUME NEW n \in StreamNames
    PROVE  /\ DOMAIN Retained(n) = Fields(n).first_seq..Fields(n).last_seq
           /\ \A s \in Fields(n).first_seq..Fields(n).last_seq :
                 Retained(n)[s] = Fields(n).messages[s - Fields(n).first_seq + 1]
           /\ (IF n \in streams THEN last_seq[n] ELSE 0) = Fields(n).last_seq
  <1>1. CASE n \in streams
    BY <1>1 DEF Retained, Fields
  <1>2. CASE n \notin streams
    BY <1>2, SMT DEF Retained, Fields
  <1> QED  BY <1>1, <1>2

\* Calls of remove_front one after the other are calls of remove_front.
LEMMA RestOfRest ==
    ASSUME NEW S, NEW q \in Seq(S), NEW j \in 0..Len(q), NEW k \in 0..Len(Rest(q, j))
    PROVE  /\ j + k \in 0..Len(q)
           /\ Rest(Rest(q, j), k) \in Seq(S)
           /\ Len(Rest(Rest(q, j), k)) = Len(q) - (j + k)
           /\ \A i \in 1..(Len(q) - (j + k)) : Rest(Rest(q, j), k)[i] = q[(j + k) + i]
  <1> DEFINE r == Rest(q, j)
  <1>1. r \in Seq(S) /\ Len(r) = Len(q) - j /\ \A i \in 1..(Len(q) - j) : r[i] = q[j + i]
    BY RestFacts
  <1>2. Len(q) \in Nat /\ j \in Nat /\ k \in 0..Len(r)
    BY <1>1, SMT
  <1> HIDE DEF r
  <1>3. /\ Rest(r, k) \in Seq(S) /\ Len(Rest(r, k)) = Len(r) - k
        /\ \A i \in 1..(Len(r) - k) : Rest(r, k)[i] = r[k + i]
    <2>1. r \in Seq(S)
      BY <1>1
    <2>2. k \in 0..Len(r)
      BY <1>2
    <2> QED  BY <2>1, <2>2, RestFacts
  <1>4. ASSUME NEW i \in 1..(Len(q) - (j + k))
        PROVE  Rest(r, k)[i] = q[(j + k) + i]
    <2>1. i \in 1..(Len(r) - k) /\ k + i \in 1..(Len(q) - j) /\ j + (k + i) = (j + k) + i
      BY <1>1, <1>2, SMT
    <2> QED  BY <1>1, <1>3, <2>1
  <1> QED  BY <1>1, <1>2, <1>3, <1>4, SMT DEF r

\* What Stream::store leaves of the queue with the message pushed: all but its first k messages,
\* with first_seq advanced by k.
LEMMA StoreIsSuffix ==
    ASSUME TypeOK, NEW n \in StreamNames, NEW st \in StreamRecord, NEW msg \in Message,
           Store(n, st, msg)
    PROVE  LET q == Append(st.messages, msg)
           IN  \E k \in 0..Len(q) :
                  /\ messages'[n] \in Seq(Message)
                  /\ Len(messages'[n]) = Len(q) - k
                  /\ \A i \in 1..(Len(q) - k) : messages'[n][i] = q[k + i]
                  /\ first_seq'[n] = st.first_seq + k
                  /\ last_seq'[n] = msg.sequence
                  /\ \A m \in StreamNames \ {n} :
                        /\ messages'[m] = messages[m]
                        /\ first_seq'[m] = first_seq[m] /\ last_seq'[m] = last_seq[m]
  <1> DEFINE q == Append(st.messages, msg)
             b0 == st.bytes + msg.size
  <1>1. st.messages \in Seq(Message) /\ q \in Seq(Message) /\ st.first_seq \in Nat
    BY SMT DEF StreamRecord
  <1>2. PICK age \in 0..Len(q) :
           LET q1 == Rest(q, age)
               b1 == b0 - Size(Gone(q, age))
           IN  \E cnt \in 0..Len(q1) : CountStops(st.config, q1, cnt) /\
               LET q2 == Rest(q1, cnt)
                   b2 == b1 - Size(Gone(q1, cnt))
               IN  \E byt \in 0..Len(q2) :
                      /\ BytesStops(st.config, q2, b2, byt)
                      /\ Keep(n, st, msg, Rest(q2, byt), b2 - Size(Gone(q2, byt)), age + cnt + byt)
    BY DEF Store
  <1> DEFINE q1 == Rest(q, age)
             b1 == b0 - Size(Gone(q, age))
  <1>3. PICK cnt \in 0..Len(q1) :
               LET q2 == Rest(q1, cnt)
                   b2 == b1 - Size(Gone(q1, cnt))
               IN  \E byt \in 0..Len(q2) :
                      Keep(n, st, msg, Rest(q2, byt), b2 - Size(Gone(q2, byt)), age + cnt + byt)
    BY <1>2
  <1> DEFINE q2 == Rest(q1, cnt)
             b2 == b1 - Size(Gone(q1, cnt))
  <1>4. PICK byt \in 0..Len(q2) :
               Keep(n, st, msg, Rest(q2, byt), b2 - Size(Gone(q2, byt)), age + cnt + byt)
    BY <1>3
  <1> HIDE DEF q
  <1>5. /\ age + cnt \in 0..Len(q) /\ q2 \in Seq(Message)
        /\ Len(q2) = Len(q) - (age + cnt)
        /\ \A i \in 1..(Len(q) - (age + cnt)) : q2[i] = q[(age + cnt) + i]
    BY <1>1, RestOfRest, SMT
  <1>6. /\ messages' = [messages EXCEPT ![n] = Rest(q2, byt)]
        /\ first_seq' = [first_seq EXCEPT ![n] = st.first_seq + (age + cnt + byt)]
        /\ last_seq' = [last_seq EXCEPT ![n] = msg.sequence]
    BY <1>4 DEF Keep
  <1>a. age \in Nat /\ cnt \in Nat /\ byt \in 0..Len(q2) /\ Len(q) \in Nat /\ Len(q2) \in Nat
    BY <1>1, <1>5, SMT
  <1> HIDE DEF q1, q2, b1, b2, b0
  <1>7. /\ Rest(q2, byt) \in Seq(Message)
        /\ Len(Rest(q2, byt)) = Len(q2) - byt
        /\ \A i \in 1..(Len(q2) - byt) : Rest(q2, byt)[i] = q2[byt + i]
    <2>1. q2 \in Seq(Message)
      BY <1>5
    <2>2. byt \in 0..Len(q2)
      BY <1>a
    <2> QED  BY <2>1, <2>2, RestFacts
  <1> DEFINE k == age + cnt + byt
  <1>8. /\ k \in 0..Len(q) /\ Len(q) \in Nat /\ age + cnt \in Nat /\ byt \in Nat
        /\ k = (age + cnt) + byt
        /\ Len(q2) - byt = Len(q) - k
    BY <1>5, <1>a, SMT
  <1>9. ASSUME NEW i \in 1..(Len(q) - k) PROVE Rest(q2, byt)[i] = q[k + i]
    <2>1. /\ i \in 1..(Len(q2) - byt) /\ byt + i \in 1..(Len(q) - (age + cnt))
          /\ (age + cnt) + (byt + i) = k + i
      BY <1>5, <1>8, SMT
    <2> QED  BY <1>5, <1>7, <2>1
  <1>10. /\ messages'[n] = Rest(q2, byt) /\ first_seq'[n] = st.first_seq + k
         /\ last_seq'[n] = msg.sequence
    BY <1>6 DEF TypeOK
  <1>11. ASSUME NEW m \in StreamNames \ {n}
         PROVE  /\ messages'[m] = messages[m]
                /\ first_seq'[m] = first_seq[m] /\ last_seq'[m] = last_seq[m]
    BY <1>6 DEF TypeOK
  <1> HIDE DEF k
  <1>12. Len(Rest(q2, byt)) = Len(q) - k
    BY <1>7, <1>8
  <1> QED  BY <1>7, <1>8, <1>9, <1>10, <1>11, <1>12 DEF q

-----------------------------------------------------------------------------
\* The store starts as an empty StreamLog.
LEMMA InitRefines == Init => Log!Init
  <1> SUFFICES ASSUME Init PROVE Log!Init
    OBVIOUS
  <1>1. ASSUME NEW n \in StreamNames PROVE n \notin streams /\ Retained(n) = [s \in {} |-> s]
    BY DEF Init, Retained
  <1>2. [n \in StreamNames |-> Retained(n)] = [n \in StreamNames |-> Log!Nothing]
    BY <1>1 DEF Log!Nothing
  <1>3. [n \in StreamNames |-> IF n \in streams THEN last_seq[n] ELSE 0] = [n \in StreamNames |-> 0]
    BY <1>1
  <1> QED  BY <1>2, <1>3 DEF Init, Log!Init

\* An operation that leaves the streams alone leaves their logs alone.
LEMMA LogsStay ==
    ASSUME UNCHANGED <<streams, epoch, state>>
    PROVE  UNCHANGED Log!streamVars
  <1>1. ASSUME NEW n \in StreamNames
        PROVE  Retained(n)' = Retained(n)
    BY DEF Retained, state
  <1>2. [n \in StreamNames |-> Retained(n)]' = [n \in StreamNames |-> Retained(n)]
    BY <1>1
  <1>3. [n \in StreamNames |-> IF n \in streams THEN last_seq[n] ELSE 0]'
        = [n \in StreamNames |-> IF n \in streams THEN last_seq[n] ELSE 0]
    BY DEF state
  <1> QED  BY <1>2, <1>3 DEF Log!streamVars

\* Delivering the next message is taking the entry the cursor has come to.
LEMMA NextForConsumerRefines ==
    ASSUME IInv, NEW n \in StreamNames, NEW d \in ConsumerNames, NextForConsumer(n, d)
    PROVE  Log!Take(n, consumer_key(n, d))
  <1> DEFINE k == consumer_key(n, d)
             c == next_sequence[k]
  <1>1. k \in Keys /\ c \in Nat
    BY SMT DEF IInv, TypeOK, Keys
  <1>2. /\ n \in streams /\ first_seq[n] \in Nat /\ last_seq[n] \in Nat
        /\ c \in first_seq[n]..last_seq[n] /\ c - first_seq[n] + 1 \in DOMAIN messages[n]
    <2>1. Readable(n, c)
      BY DEF NextForConsumer
    <2>2. /\ n \in streams /\ first_seq[n] <= c /\ c <= last_seq[n]
          /\ c - first_seq[n] + 1 \in DOMAIN messages[n]
      BY <2>1 DEF Readable
    <2>3. first_seq[n] \in Nat /\ last_seq[n] \in Nat
      <3>1. first_seq \in [StreamNames -> Nat] /\ last_seq \in [StreamNames -> Nat]
        BY DEF IInv, TypeOK
      <3> QED  BY <3>1
    <2> HIDE DEF c
    <2> QED  BY <1>1, <2>2, <2>3, SMT
  <1>3. /\ DOMAIN Retained(n) = first_seq[n]..last_seq[n]
        /\ Retained(n)[c] = Read(n, c)
    BY <1>2 DEF Retained, Read
  <1>4. Read(n, c).sequence = c
    <2>1. c - first_seq[n] + 1 \in 1..Len(messages[n])
      BY <1>2, SMT DEF IInv, TypeOK
    <2>2. messages[n][c - first_seq[n] + 1].sequence = first_seq[n] + (c - first_seq[n] + 1) - 1
      BY <2>1 DEF IInv, StreamInv, StreamOK
    <2> QED  BY <1>1, <1>2, <2>2, SMT DEF Read
  <1>5. UNCHANGED Log!streamVars
    BY LogsStay DEF NextForConsumer
  <1>6. /\ k \in consumers /\ consumers' = consumers
        /\ next_sequence' = [next_sequence EXCEPT ![k] = c + 1]
        /\ seen' = [seen EXCEPT ![k] = @ \cup {[stream |-> n, epoch |-> epoch[n],
                                                sequence |-> Read(n, c).sequence,
                                                subject |-> Read(n, c).subject]}]
    BY DEF NextForConsumer
  <1>7. c \in DOMAIN [m \in StreamNames |-> Retained(m)][n]
    BY <1>2, <1>3
  <1>8. [m \in StreamNames |-> Retained(m)][n][c].subject = Read(n, c).subject
    BY <1>3
  <1>9. seen' = [seen EXCEPT ![k] = @ \cup {[stream |-> n, epoch |-> epoch[n],
                       sequence |-> c, subject |-> [m \in StreamNames |-> Retained(m)][n][c].subject]}]
    BY <1>4, <1>6, <1>8
  <1> QED  BY <1>5, <1>6, <1>7, <1>9 DEF Log!Take

\* A stream that is made has an empty log, as a name without a stream has.
LEMMA CreateStreamRefines ==
    ASSUME IInv, NEW n \in StreamNames, NEW cfg \in StreamConfigs, CreateStream(n, cfg)
    PROVE  Log!Open(n)
  <1>1. /\ n \notin streams /\ streams' = streams \cup {n}
        /\ epoch' = [epoch EXCEPT ![n] = @ + 1]
        /\ first_seq'[n] = 1 /\ last_seq'[n] = 0
        /\ UNCHANGED <<consumers, next_sequence, seen>>
    BY DEF CreateStream, NewStream, IInv, TypeOK, cstate
  <1>2. ASSUME NEW m \in StreamNames, m # n
        PROVE  messages'[m] = messages[m] /\ first_seq'[m] = first_seq[m] /\ last_seq'[m] = last_seq[m]
    BY <1>2 DEF CreateStream, NewStream, IInv, TypeOK
  <1>3. ASSUME NEW m \in StreamNames PROVE Retained(m)' = Retained(m)
    <2>1. CASE m = n
      BY <1>1, <2>1, SMT DEF Retained
    <2>2. CASE m # n
      BY <1>1, <1>2, <2>2 DEF Retained
    <2> QED  BY <2>1, <2>2, ZenonT(40)
  <1>4. [m \in StreamNames |-> Retained(m)]' = [m \in StreamNames |-> Retained(m)]
    BY <1>3
  <1>5. [m \in StreamNames |-> IF m \in streams THEN last_seq[m] ELSE 0]'
        = [m \in StreamNames |-> IF m \in streams THEN last_seq[m] ELSE 0]
    BY <1>1, <1>2
  <1> QED  BY <1>1, <1>4, <1>5 DEF Log!Open, Log!Opened, Log!readerVars

\* Deleting a stream drops its log and its numbers; its consumers stay.
LEMMA DeleteStreamRefines ==
    ASSUME IInv, NEW n \in StreamNames, DeleteStream(n)
    PROVE  Log!Drop(n)
  <1>1. /\ n \in streams /\ streams' = streams \ {n}
        /\ UNCHANGED <<epoch, consumers, next_sequence, seen>>
    BY DEF DeleteStream, cstate
  <1>2. ASSUME NEW m \in StreamNames, m # n
        PROVE  messages'[m] = messages[m] /\ first_seq'[m] = first_seq[m] /\ last_seq'[m] = last_seq[m]
    BY <1>2 DEF DeleteStream, IInv, TypeOK
  <1>3. ASSUME NEW m \in StreamNames
        PROVE  Retained(m)' = IF m = n THEN [s \in {} |-> s] ELSE Retained(m)
    <2>1. CASE m = n
      BY <1>1, <2>1 DEF Retained
    <2>2. CASE m # n
      BY <1>1, <1>2, <2>2 DEF Retained
    <2> QED  BY <2>1, <2>2
  <1>4. [m \in StreamNames |-> Retained(m)]'
        = [[m \in StreamNames |-> Retained(m)] EXCEPT ![n] = Log!Nothing]
    BY <1>3 DEF Log!Nothing
  <1>5. [m \in StreamNames |-> IF m \in streams THEN last_seq[m] ELSE 0]'
        = [[m \in StreamNames |-> IF m \in streams THEN last_seq[m] ELSE 0] EXCEPT ![n] = 0]
    BY <1>1, <1>2
  <1> QED  BY <1>1, <1>4, <1>5 DEF Log!Drop, Log!readerVars

\* Storing a message, with the retention that follows, adds it under the next number and gives
\* up the k oldest: number s is found k places nearer to the front, first_seq being k larger.
LEMMA StoreMessageRefines ==
    ASSUME IInv, NEW n \in StreamNames, NEW subj \in Subjects, NEW size \in Sizes,
           StoreMessage(n, subj, size)
    PROVE  Log!Add(n)
  <1> DEFINE st == Fields(n)
             msg == [sequence |-> st.last_seq + 1, timestamp |-> now,
                     subject |-> subj, size |-> size]
             number == st.last_seq + 1
             q == Append(st.messages, msg)
  <1>0. TypeOK
    BY DEF IInv
  <1>1. /\ Store(n, st, msg) /\ streams' = streams \cup {n}
        /\ epoch' = [epoch EXCEPT ![n] = IF n \in streams THEN @ ELSE @ + 1]
        /\ UNCHANGED <<consumers, next_sequence, seen>>
    BY DEF StoreMessage, Fields, cstate
  <1>2. st \in StreamRecord /\ StreamOK(st.messages, st.count, st.first_seq, st.last_seq)
    BY FieldsFacts
  <1>3. /\ DOMAIN Retained(n) = st.first_seq..st.last_seq
        /\ \A s \in st.first_seq..st.last_seq : Retained(n)[s] = st.messages[s - st.first_seq + 1]
        /\ (IF n \in streams THEN last_seq[n] ELSE 0) = st.last_seq
    BY RetainedFields
  <1> HIDE DEF st
  <1>4. /\ st.last_seq \in Nat /\ st.first_seq \in Nat /\ st.messages \in Seq(Message)
        /\ Len(st.messages) \in Nat /\ st.first_seq + Len(st.messages) = number
    BY <1>2 DEF StreamRecord, StreamOK
  <1>5. msg \in Message /\ msg.sequence = number
    <2>1. now \in Nat /\ size \in Nat
      BY <1>0, StoreAssumption, SMT DEF TypeOK
    <2> QED  BY <1>4, <2>1, SMT DEF Message
  <1> HIDE DEF msg
  <1>6. /\ q \in Seq(Message) /\ Len(q) = Len(st.messages) + 1
        /\ \A i \in 1..Len(st.messages) : q[i] = st.messages[i]
        /\ q[Len(st.messages) + 1] = msg
    BY <1>4, <1>5, SMT
  <1>7. PICK k \in 0..Len(q) :
           /\ Len(messages'[n]) = Len(q) - k
           /\ \A i \in 1..(Len(q) - k) : messages'[n][i] = q[k + i]
           /\ first_seq'[n] = st.first_seq + k
           /\ last_seq'[n] = number
           /\ \A m \in StreamNames \ {n} :
                 /\ messages'[m] = messages[m]
                 /\ first_seq'[m] = first_seq[m] /\ last_seq'[m] = last_seq[m]
    BY <1>0, <1>1, <1>2, <1>5, StoreIsSuffix
  <1> HIDE DEF q
  <1> DEFINE cut == st.first_seq + k
  <1>8. k \in Nat /\ cut \in 0..(number + 1) /\ number \in Nat
    <2>1. \A f, l, x \in Nat : f + l = x => \A j \in 0..(l + 1) : f + j \in 0..(x + 1)
      BY SMT
    <2>2. number \in Nat /\ k \in 0..(Len(st.messages) + 1)
      BY <1>4, <1>6, SMT
    <2> HIDE DEF number
    <2>3. st.first_seq + k \in 0..(number + 1)
      BY <1>4, <2>1, <2>2
    <2> QED  BY <1>4, <2>2, <2>3, SMT
  <1>9. DOMAIN Retained(n)' = cut..number
    BY <1>1, <1>7 DEF Retained
  <1>10. ASSUME NEW s \in cut..number
         PROVE  Retained(n)'[s] = IF s = number THEN msg ELSE Retained(n)[s]
    <2>1. Retained(n)'[s] = messages'[n][s - cut + 1]
      BY <1>1, <1>7 DEF Retained
    <2>2. s - cut + 1 \in 1..(Len(q) - k) /\ k + (s - cut + 1) = s - st.first_seq + 1
      <3> DEFINE f == st.first_seq
                 l == Len(st.messages)
      <3>1. f \in Int /\ l \in Int /\ f + l = number
        BY <1>4, SMT
      <3>2. s \in Int /\ f + k <= s /\ s <= number /\ number \in Int /\ k \in Int
        BY <1>8, SMT
      <3> HIDE DEF number, f, l
      <3>3. /\ 1 <= s - (f + k) + 1 /\ s - (f + k) + 1 <= (l + 1) - k
            /\ k + (s - (f + k) + 1) = s - f + 1
        BY <3>1, <3>2, SMT
      <3>4. /\ Len(q) - k = (l + 1) - k /\ (l + 1) - k \in Int
            /\ s - (f + k) + 1 \in Int /\ cut = f + k
        BY <1>6, <3>1, <3>2, SMT DEF f, l
      <3> HIDE DEF cut
      <3> QED  BY <3>3, <3>4, SMT DEF f
    <2>3. Retained(n)'[s] = q[s - st.first_seq + 1]
      BY <1>7, <2>1, <2>2
    <2>4. CASE s = number
      <3>1. s - st.first_seq + 1 = Len(st.messages) + 1
        <4>1. \A f, l, x \in Nat : f + l = x => x - f + 1 = l + 1
          BY SMT
        <4>2. number \in Nat
          BY <1>8
        <4> HIDE DEF number
        <4> QED  BY <1>4, <2>4, <4>1, <4>2
      <3> QED  BY <1>6, <2>3, <2>4, <3>1
    <2>5. CASE s # number
      <3>1. s \in st.first_seq..st.last_seq /\ s - st.first_seq + 1 \in 1..Len(st.messages)
        <4>1. \A f, l, x, i \in Int : f + l = x /\ f <= i /\ i < x =>
                 /\ f <= i /\ i <= x - 1 /\ 1 <= i - f + 1 /\ i - f + 1 <= l
          BY SMT
        <4>2. s \in Int /\ st.first_seq <= s /\ s < number /\ number \in Int
          <5>1. s \in Int /\ st.first_seq + k <= s /\ s <= number /\ number \in Int /\ k \in Nat
            BY <1>8, SMT
          <5>2. st.first_seq \in Int
            BY <1>4, SMT
          <5> HIDE DEF number
          <5> QED  BY <2>5, <5>1, <5>2, SMT
        <4>3. number - 1 = st.last_seq
          BY <1>4, SMT
        <4> HIDE DEF number
        <4>4. /\ st.first_seq <= s /\ s <= st.last_seq
              /\ 1 <= s - st.first_seq + 1 /\ s - st.first_seq + 1 <= Len(st.messages)
          <5> DEFINE f == st.first_seq
                     l == Len(st.messages)
          <5>1. f \in Int /\ l \in Int /\ f + l = number
            BY <1>4, SMT
          <5>2. s \in Int /\ f <= s /\ s < number /\ number \in Int
            BY <4>2
          <5> HIDE DEF f, l
          <5>3. f <= s /\ s <= number - 1 /\ 1 <= s - f + 1 /\ s - f + 1 <= l
            BY <4>1, <5>1, <5>2
          <5> QED  BY <4>3, <5>3 DEF f, l
        <4> QED  BY <1>4, <4>2, <4>4, SMT
      <3> QED  BY <1>3, <1>6, <2>3, <2>5, <3>1
    <2> QED  BY <2>4, <2>5
  <1>11. cut..number = {s \in (st.first_seq..st.last_seq) \cup {number} : s >= cut}
    <2> DEFINE f == st.first_seq
               x == st.last_seq
    <2>1. f \in Int /\ x \in Int /\ f <= x + 1
      BY <1>4, SMT
    <2>2. cut \in Int /\ f <= cut
      BY <1>4, <1>8, SMT
    <2>3. cut <= (x + 1) + 1
      BY <1>8, SMT
    <2>4. number = x + 1
      OBVIOUS
    <2> HIDE DEF cut, f, x, number
    <2>5. ASSUME NEW s
          PROVE  s \in cut..(x + 1) <=> s \in {r \in (f..x) \cup {x + 1} : r >= cut}
      BY <2>1, <2>2, <2>3, SMT
    <2>6. cut..(x + 1) = {s \in (f..x) \cup {x + 1} : s >= cut}
      BY <2>5
    <2> QED  BY <2>4, <2>6 DEF f, x
  <1> DEFINE L == [m \in StreamNames |-> Retained(m)]
             last == [m \in StreamNames |-> IF m \in streams THEN last_seq[m] ELSE 0]
  <1>12. ASSUME NEW m \in StreamNames \ {n}
         PROVE  Retained(m)' = Retained(m) /\ (m \in streams' <=> m \in streams)
    BY <1>1, <1>7 DEF Retained
  <1>13. L' = [L EXCEPT ![n] = L'[n]]
    BY <1>12
  <1>14. last[n] + 1 = number /\ last' = [last EXCEPT ![n] = number]
    <2>1. last[n] + 1 = number
      BY <1>3
    <2>2. last'[n] = number
      BY <1>1, <1>7
    <2>3. \A m \in StreamNames \ {n} : last'[m] = last[m]
      BY <1>7, <1>12
    <2> QED  BY <2>1, <2>2, <2>3
  <1>15. DOMAIN L'[n] = {s \in DOMAIN L[n] \cup {number} : s >= cut}
    BY <1>3, <1>9, <1>11
  <1>16. \A s \in DOMAIN L'[n] : IF s = number THEN L'[n][s] \in Message ELSE L'[n][s] = L[n][s]
    BY <1>5, <1>9, <1>10
  <1>17. Log!Opened(n) /\ UNCHANGED Log!readerVars
    BY <1>1 DEF Log!Opened, Log!readerVars
  <1> HIDE DEF cut, number
  <1> QED  BY <1>8, <1>13, <1>14, <1>15, <1>16, <1>17 DEF Log!Add

\* A consumer that is made starts at a natural number; one that exists is left as it is.
LEMMA InsertConsumerRefines ==
    ASSUME IInv, NEW t \in Tasks, InsertConsumer(t)
    PROVE  (\E k \in Keys : Log!Attach(k)) \/ UNCHANGED Log!vars
  <1> DEFINE r == request[t]
             k == r.key
  <1>1. UNCHANGED Log!streamVars
    BY LogsStay DEF InsertConsumer
  <1>2. CASE k \in consumers
    BY <1>1, <1>2 DEF InsertConsumer, cstate, Log!vars, Log!readerVars
  <1>3. CASE k \notin consumers
    <2>1. r \in Request
      BY DEF InsertConsumer, IInv, TypeOK
    <2>2. StartSequence(r.config, r.last_seq) \in Nat
      BY <2>1, StartFacts DEF Request
    <2>3. k \in Keys
      BY <2>1 DEF Request
    <2>4. /\ consumers' = consumers \cup {k}
          /\ next_sequence' = [next_sequence EXCEPT ![k] = StartSequence(r.config, r.last_seq)]
          /\ seen' = [seen EXCEPT ![k] = {}]
      BY <1>3 DEF InsertConsumer
    <2>5. next_sequence'[k] = StartSequence(r.config, r.last_seq)
      BY <2>3, <2>4 DEF IInv, TypeOK
    <2> HIDE DEF k, r
    <2>6. Log!Attach(k)
      BY <1>1, <1>3, <2>2, <2>4, <2>5 DEF Log!Attach, k
    <2> QED  BY <2>3, <2>6
  <1> QED  BY <1>2, <1>3

-----------------------------------------------------------------------------
\* Every step of the store is a step of StreamLog, or changes nothing it sees.
LEMMA NextRefines == ASSUME IInv, [Next]_vars PROVE [Log!Next]_(Log!vars)
  <1>1. ASSUME UNCHANGED <<streams, epoch, state, consumers, next_sequence, seen>>
        PROVE  UNCHANGED Log!vars
    BY <1>1, LogsStay DEF Log!vars, Log!readerVars
  <1>2. CASE Tick \/ UNCHANGED vars
    BY <1>1, <1>2 DEF Tick, vars, cstate
  <1>3. ASSUME NEW n \in StreamNames, StreamSteps(n) PROVE Log!Next
    <2>1. Log!Open(n) \/ Log!Drop(n) \/ Log!Add(n)
      BY <1>3, CreateStreamRefines, DeleteStreamRefines, StoreMessageRefines DEF StreamSteps
    <2> QED  BY <2>1 DEF Log!Next
  <1>4. ASSUME NEW n \in StreamNames, NEW d \in ConsumerNames, ConsumerSteps(n, d)
        PROVE  Log!Next \/ UNCHANGED Log!vars
    <2> DEFINE k == consumer_key(n, d)
    <2>0. k \in Keys
      BY SMT DEF Keys
    <2>1. ASSUME NEW t \in Tasks, NEW cfg \in ConsumerConfigs, LookUpStream(t, n, d, cfg)
          PROVE  UNCHANGED Log!vars
      BY <1>1, <2>1 DEF LookUpStream, cstate
    <2>2. CASE NextForConsumer(n, d)
      <3>1. Log!Take(n, k)
        BY <2>2, NextForConsumerRefines
      <3> QED  BY <2>0, <3>1 DEF Log!Next
    <2>3. CASE DeleteConsumer(k)
      <3>1. UNCHANGED Log!streamVars
        BY <2>3, LogsStay DEF DeleteConsumer
      <3>2. Log!Detach(k)
        BY <2>3, <3>1 DEF DeleteConsumer, cstate, Log!Detach
      <3> QED  BY <2>0, <3>2 DEF Log!Next
    <2>4. ASSUME NEW seq, Ack(k, seq) PROVE UNCHANGED Log!vars
      BY <1>1, <2>4 DEF Ack
    <2> HIDE DEF k
    <2> QED  BY <1>4, <2>1, <2>2, <2>3, <2>4 DEF ConsumerSteps, k
  <1>5. ASSUME NEW t \in Tasks, InsertConsumer(t) PROVE Log!Next \/ UNCHANGED Log!vars
    BY <1>5, InsertConsumerRefines DEF Log!Next
  <1> QED  BY <1>2, <1>3, <1>4, <1>5 DEF Next

\* The message store implements the numbered log: for any names, configurations, policies and
\* limits, store_message, delete_stream, create_consumer, next_for_consumer and ack
\* (memory.rs, consumer.rs) behave as StreamLog allows.
THEOREM StoreImplementsLog == Spec => ImplementsLog
  <1>1. Init => Log!Init
    BY InitRefines
  <1>2. IInv /\ [Next]_vars => [Log!Next]_(Log!vars)
    BY NextRefines
  <1> QED  BY <1>1, <1>2, StoreInvariant, PTL DEF Spec, ImplementsLog, Log!Spec

-----------------------------------------------------------------------------
(* What is written to a segment *)

LOCAL INSTANCE SequenceTheorems

\* A record is three cells, each of its kind.
LEMMA EncodeCells ==
    ASSUME NEW s \in Nat, NEW p \in Payloads
    PROVE  /\ Encode(s, p) \in Seq(Cell) /\ Len(Encode(s, p)) = 3
           /\ \A j \in 1..3 : Encode(s, p)[j] \in Cell /\ Encode(s, p)[j].kind = Kinds[j]
<1>1. \A j \in 1..3 : Kinds[j] \in {"head", "meta", "payload"}
  BY SMT DEF Kinds
<1>2. \A j \in 1..3 : Encode(s, p)[j] \in Cell /\ Encode(s, p)[j].kind = Kinds[j]
  BY <1>1, SMT DEF Encode, Width, Cell
<1>3. Encode(s, p) \in [1..3 -> Cell]
  BY <1>2, SMT DEF Encode, Width
<1>4. \A n \in Nat : \A f \in [1..n -> Cell] : f \in Seq(Cell) /\ Len(f) = n
  BY SMT
<1>5. 3 \in Nat
  OBVIOUS
<1> QED
  BY <1>2, <1>3, <1>4, <1>5

\* What a write that is cut off leaves of it.
LEMMA CutCells ==
    ASSUME NEW s \in Nat, NEW p \in Payloads, NEW k \in 0..3
    PROVE  /\ SubSeq(Encode(s, p), 1, k) \in Seq(Cell) /\ Len(SubSeq(Encode(s, p), 1, k)) = k
           /\ \A j \in 1..k : SubSeq(Encode(s, p), 1, k)[j] = Encode(s, p)[j]
<1>1. Encode(s, p) \in Seq(Cell) /\ k \in 0..Len(Encode(s, p))
  BY EncodeCells, SMT
<1>2. \A e \in Seq(Cell) : \A i \in 0..Len(e) :
        /\ SubSeq(e, 1, i) \in Seq(Cell) /\ Len(SubSeq(e, 1, i)) = i
        /\ \A j \in 1..i : SubSeq(e, 1, i)[j] = e[j]
  BY SMT
<1> QED
  BY <1>1, <1>2

\* A write is a write to the end of the file when the cursor is there; one of no cells is none.
LEMMA OverwriteCells ==
    ASSUME NEW f \in Seq(Cell), NEW at \in Nat, NEW cells \in Seq(Cell)
    PROVE  /\ Overwrite(f, at, cells) \in Seq(Cell)
           /\ Len(cells) = 0 => Overwrite(f, at, cells) = f
           /\ Len(cells) > 0 /\ at >= Len(f) =>
                 /\ Len(Overwrite(f, at, cells)) = at + Len(cells)
                 /\ \A j \in 1..Len(f) : Overwrite(f, at, cells)[j] = f[j]
                 /\ \A j \in 1..Len(cells) : Overwrite(f, at, cells)[at + j] = cells[j]
<1> DEFINE end == IF Len(cells) = 0 THEN 0 ELSE at + Len(cells)
           n == IF end > Len(f) THEN end ELSE Len(f)
           O == Overwrite(f, at, cells)
<1>1. Len(f) \in Nat /\ Len(cells) \in Nat /\ end \in Nat /\ n \in Nat
  BY SMT
<1>2. O = [j \in 1..n |-> CASE j > at /\ j <= end -> cells[j - at]
                            [] j <= Len(f) /\ ~ (j > at /\ j <= end) -> f[j]
                            [] OTHER -> Hole]
  BY SMT DEF Overwrite
<1>3. \A j \in 1..n : /\ j > at /\ j <= end => O[j] = cells[j - at]
                      /\ j <= Len(f) /\ ~ (j > at /\ j <= end) => O[j] = f[j]
                      /\ ~ (j > at /\ j <= end) /\ ~ (j <= Len(f)) => O[j] = Hole
  BY <1>2, SMT
<1>4. \A j \in 1..n : O[j] \in Cell
  <2> SUFFICES ASSUME NEW j \in 1..n PROVE O[j] \in Cell
    OBVIOUS
  <2>1. CASE j > at /\ j <= end
    BY <1>1, <1>3, <2>1, SMTT(30)
  <2>2. CASE j <= Len(f) /\ ~ (j > at /\ j <= end)
    BY <1>1, <1>3, <2>2, SMT
  <2>3. CASE ~ (j > at /\ j <= end) /\ ~ (j <= Len(f))
    BY <1>3, <2>3, SMT DEF Cell
  <2> QED
    BY <2>1, <2>2, <2>3, SMT
<1>5. O \in [1..n -> Cell]
  BY <1>2, <1>4
<1>6. O \in Seq(Cell) /\ Len(O) = n
  BY <1>1, <1>5, SMT
<1>7. ASSUME Len(cells) = 0 PROVE O = f
  <2>1. n = Len(f) /\ \A j \in 1..n : O[j] = f[j]
    BY <1>1, <1>3, <1>7, SMTT(30)
  <2> QED
    BY <1>6, <2>1, SeqEqual, SMT
<1>8. ASSUME Len(cells) > 0, at >= Len(f)
      PROVE  /\ Len(O) = at + Len(cells)
             /\ \A j \in 1..Len(f) : O[j] = f[j]
             /\ \A j \in 1..Len(cells) : O[at + j] = cells[j]
  <2>1. end = at + Len(cells) /\ n = end
    BY <1>1, <1>8, SMT
  <2>2. \A j \in 1..Len(f) : j \in 1..n /\ j <= Len(f) /\ ~ (j > at)
    BY <1>1, <1>8, <2>1, SMT
  <2>3. \A j \in 1..Len(cells) : at + j \in 1..n /\ at + j > at /\ at + j <= end /\ (at + j) - at = j
    BY <1>1, <2>1, SMT
  <2>4. \A j \in 1..Len(cells) : O[at + j] = cells[(at + j) - at]
    BY <1>3, <2>3
  <2> QED
    BY <1>3, <1>6, <2>1, <2>2, <2>3, <2>4, SMT
<1> QED
  BY <1>6, <1>7, <1>8, SMT

\* A record that is in a file is what is found at its offset.
LEMMA KeptIsFound ==
    ASSUME file \in Seq(Cell), NEW w \in Record, WrittenAt(file, w)
    PROVE  CellsAt(w.at) = Encode(w.seq, w.payload)
<1> DEFINE at == w.at
<1>1. at \in Nat /\ at + 3 <= Len(file) /\ w.seq \in Nat /\ w.payload \in Payloads /\ Len(file) \in Nat
  BY SMT DEF Record, WrittenAt, Width
<1>2. CellsAt(at) = SubSeq(file, at + 1, at + 3)
  BY <1>1 DEF CellsAt, Width
<1>3. \A e \in Seq(Cell) : \A i \in 0..Len(e) : i + 3 <= Len(e) =>
        /\ SubSeq(e, i + 1, i + 3) \in Seq(Cell) /\ Len(SubSeq(e, i + 1, i + 3)) = 3
        /\ \A j \in 1..3 : SubSeq(e, i + 1, i + 3)[j] = e[i + j]
  BY SMT
<1>4. at \in 0..Len(file)
  BY <1>1, SMT
<1>5. /\ CellsAt(at) \in Seq(Cell) /\ Len(CellsAt(at)) = 3
      /\ \A i \in 1..3 : CellsAt(at)[i] = file[at + i]
  BY <1>1, <1>2, <1>3, <1>4, ZenonT(40)
<1>6. \A i \in 1..3 : CellsAt(at)[i] = Encode(w.seq, w.payload)[i]
  BY <1>5, SMT DEF WrittenAt, Width
<1>7. Encode(w.seq, w.payload) \in Seq(Cell) /\ Len(Encode(w.seq, w.payload)) = 3
  BY <1>1, EncodeCells
<1> QED
  BY <1>5, <1>6, <1>7, SeqEqual, ZenonT(40)

\* A record that is in a file stays in it when the file grows.
LEMMA KeptStays ==
    ASSUME NEW f \in Seq(Cell), NEW g \in Seq(Cell), NEW w \in Record, WrittenAt(f, w),
           Len(f) <= Len(g), \A j \in 1..Len(f) : g[j] = f[j]
    PROVE  WrittenAt(g, w)
<1>1. w.at \in Nat /\ w.at + 3 <= Len(f) /\ Len(f) \in Nat /\ Len(g) \in Nat
  BY SMT DEF Record, WrittenAt, Width
<1>2. w.at + 3 <= Len(g) /\ \A j \in 1..3 : w.at + j \in 1..Len(f)
  BY <1>1, SMT
<1> QED
  BY <1>2 DEF WrittenAt, Width

\* Where the cells of a whole record are in a file of whole records.
LEMMA ModThree == \A m \in Nat : \A i \in 1..3 : ((3 * m + i - 1) % 3) + 1 = i
  BY SMT

\* A record that is in a file of whole records has a place in the index.
LEMMA RecordInRange ==
    \A at, seq, n, len \in Nat : at = 3 * seq /\ len = 3 * n /\ at + 3 <= len =>
        seq + 1 \in 1..n /\ 3 * ((seq + 1) - 1) = at
  BY SMT

\* A file of whole records that gets another one is one still.
LEMMA AlignedGrows ==
    ASSUME NEW n \in Nat, file \in Seq(Cell), Len(file) = 3 * n, Aligned,
           file' \in Seq(Cell), Len(file') = 3 * n + 3, \A j \in 1..Len(file) : file'[j] = file[j],
           \A j \in 1..3 : file'[3 * n + j].kind = Kinds[j]
    PROVE  Aligned'
<1>1. DOMAIN file = 1..(3 * n) /\ DOMAIN file' = 1..(3 * n + 3)
  BY SMT
<1> SUFFICES ASSUME NEW j \in 1..(3 * n + 3)
             PROVE  file'[j].kind \in {Kinds[((j - 1) % 3) + 1], "hole"}
  BY <1>1, SMT DEF Aligned, Width
<1>2. CASE j \in 1..(3 * n)
  BY <1>1, <1>2 DEF Aligned, Width
<1>3. CASE j \notin 1..(3 * n)
  <2>1. PICK r \in 1..3 : j = 3 * n + r
    <3>1. j - 3 * n \in 1..3 /\ j = 3 * n + (j - 3 * n)
      BY <1>3, SMT
    <3> QED
      BY <3>1, SMT
  <2>2. ((3 * n + r - 1) % 3) + 1 = r
    BY ModThree
  <2>3. file'[3 * n + r].kind = Kinds[((3 * n + r - 1) % 3) + 1]
    BY <2>2
  <2> QED
    BY <2>1, <2>3, SMT
<1> QED
  BY <1>2, <1>3, SMT

-----------------------------------------------------------------------------
(* The steps of a segment *)

\* Up to three cells of a record are written where the cursor is; it is at the end of the file,
\* or nothing is written.
Writes(p, k) ==
    /\ \/ k = 3 /\ file' = Overwrite(file, cursor, Encode(Len(index), p))
       \/ file' = Overwrite(file, cursor, SubSeq(Encode(Len(index), p), 1, k))

\* What such a write does to the file.
LEMMA WriteStep ==
    ASSUME Types, NEW p \in Payloads, NEW k \in 0..3, Writes(p, k)
    PROVE  /\ file' \in Seq(Cell)
           /\ k = 0 => file' = file
           /\ k > 0 /\ cursor >= Len(file) =>
                /\ Len(file') = cursor + k
                /\ \A j \in 1..Len(file) : file'[j] = file[j]
                /\ \A j \in 1..k : file'[cursor + j] = Encode(Len(index), p)[j]
<1>1. file \in Seq(Cell) /\ cursor \in Nat /\ Len(index) \in Nat
  BY SMT DEF Types
<1>2. PICK cells \in Seq(Cell) :
        /\ Len(cells) = k /\ file' = Overwrite(file, cursor, cells)
        /\ \A j \in 1..k : cells[j] = Encode(Len(index), p)[j]
  <2>1. /\ Encode(Len(index), p) \in Seq(Cell) /\ Len(Encode(Len(index), p)) = 3
        /\ SubSeq(Encode(Len(index), p), 1, k) \in Seq(Cell)
        /\ Len(SubSeq(Encode(Len(index), p), 1, k)) = k
        /\ \A j \in 1..k : SubSeq(Encode(Len(index), p), 1, k)[j] = Encode(Len(index), p)[j]
    BY <1>1, EncodeCells, CutCells
  <2> QED
    BY <2>1 DEF Writes
<1>3. /\ Overwrite(file, cursor, cells) \in Seq(Cell)
      /\ Len(cells) = 0 => Overwrite(file, cursor, cells) = file
      /\ Len(cells) > 0 /\ cursor >= Len(file) =>
            /\ Len(Overwrite(file, cursor, cells)) = cursor + Len(cells)
            /\ \A j \in 1..Len(file) : Overwrite(file, cursor, cells)[j] = file[j]
            /\ \A j \in 1..Len(cells) : Overwrite(file, cursor, cells)[cursor + j] = cells[j]
  BY <1>1, OverwriteCells
<1> QED
  BY <1>2, <1>3

\* Records append returned Ok for are kept by a write to the end of the file.
LEMMA WriteKeeps ==
    ASSUME Types, NEW p \in Payloads, NEW k \in 0..3, Writes(p, k), k > 0 => cursor >= Len(file),
           NEW w \in Record, WrittenAt(file, w)
    PROVE  WrittenAt(file', w)
<1>1. CASE k = 0
  BY <1>1, WriteStep, SMT
<1>2. CASE k > 0
  <2>1. /\ file' \in Seq(Cell) /\ file \in Seq(Cell) /\ Len(file') = cursor + k /\ cursor \in Nat
        /\ cursor >= Len(file) /\ \A j \in 1..Len(file) : file'[j] = file[j]
    BY <1>2, WriteStep DEF Types
  <2>2. Len(file) <= Len(file')
    BY <2>1, SMT
  <2> QED
    BY <2>1, <2>2, KeptStays, SMT
<1> QED
  BY <1>1, <1>2, SMT

\* A file of n whole records becomes one of n + 1 by the write of another one.
LEMMA WriteAligned ==
    ASSUME Types, NEW p \in Payloads, Writes(p, 3), NEW n \in Nat,
           cursor = 3 * n, Len(file) = 3 * n, Aligned
    PROVE  Len(file') = 3 * (n + 1) /\ Aligned'
<1>1. file \in Seq(Cell) /\ cursor >= Len(file) /\ 3 \in 0..3 /\ 3 > 0 /\ Len(index) \in Nat
  BY SMT DEF Types
<1>2. /\ file' \in Seq(Cell) /\ Len(file') = cursor + 3
      /\ \A j \in 1..Len(file) : file'[j] = file[j]
      /\ \A j \in 1..3 : file'[cursor + j] = Encode(Len(index), p)[j]
  BY <1>1, WriteStep
<1>3. \A j \in 1..3 : file'[3 * n + j].kind = Kinds[j]
  <2>1. \A j \in 1..3 : Encode(Len(index), p)[j].kind = Kinds[j]
    BY <1>1, EncodeCells
  <2> QED
    BY <1>2, <2>1
<1>4. Len(file') = 3 * n + 3
  BY <1>2, SMT
<1>5. Aligned'
  BY <1>1, <1>2, <1>3, <1>4, AlignedGrows, SMT
<1> QED
  BY <1>4, <1>5, SMT

\* append: the record is kept, and the file is one whole record longer.
LEMMA AppendStep ==
    ASSUME SegmentInv, NEW p \in Payloads, AppendRecord(p)
    PROVE  SegmentInv'
<1> DEFINE w == [at |-> cursor, seq |-> Len(index), payload |-> p]
<1>1. Types /\ Writes(p, 3) /\ 3 \in 0..3 /\ 3 > 0
  BY SMT DEF SegmentInv, AppendRecord, Writes
<1>2. /\ index \in Seq(Nat) /\ bytes_written \in Nat /\ cursor \in Nat /\ written \in Seq(Record)
      /\ w \in Record /\ Len(index) \in Nat
  BY <1>1, SMT DEF Types, Record
<1>3. /\ open /\ UNCHANGED <<open, has_read, torn>> /\ moved' = (moved \/ has_read)
      /\ cursor' = cursor + 3 /\ index' = Append(index, bytes_written)
      /\ bytes_written' = bytes_written + 3 /\ written' = Append(written, w)
  BY SMT DEF AppendRecord, MayAppend, Width
<1>4. Types'
  <2>1. file' \in Seq(Cell)
    BY <1>1, WriteStep
  <2>2. cursor' \in Nat /\ index' \in Seq(Nat) /\ bytes_written' \in Nat /\ written' \in Seq(Record)
    BY <1>2, <1>3, SMT
  <2>3. open' \in BOOLEAN /\ has_read' \in BOOLEAN /\ torn' \in BOOLEAN /\ moved' \in BOOLEAN
    BY <1>1, <1>3, SMT DEF Types
  <2> QED
    BY <2>1, <2>2, <2>3, SMT DEF Types
<1>5. /\ DOMAIN written = 1..Len(written) /\ DOMAIN written' = 1..(Len(written) + 1)
      /\ \A i \in 1..Len(written) : written'[i] = written[i]
      /\ written'[Len(written) + 1] = w /\ Len(written) \in Nat
  BY <1>2, <1>3, SMTT(30)
<1>6. \A i \in DOMAIN written' : (i \in DOMAIN written /\ written'[i] = written[i]) \/ written'[i] = w
  BY <1>5, SMTT(30)
<1>7. ASSUME ~ moved'
      PROVE  /\ \A i \in DOMAIN written' : WrittenAt(file', written'[i])
             /\ cursor' >= Len(file')
  <2>1. ~ moved /\ ~ has_read
    BY <1>1, <1>3, <1>7, SMT DEF Types
  <2>2. cursor >= Len(file) /\ \A i \in DOMAIN written : WrittenAt(file, written[i])
    BY <1>3, <2>1 DEF SegmentInv
  <2>3. /\ Len(file') = cursor + 3
        /\ \A j \in 1..3 : file'[cursor + j] = Encode(Len(index), p)[j]
    BY <1>1, <2>2, WriteStep, ZenonT(40)
  <2>4. WrittenAt(file', w)
    <3>1. w.at + 3 <= Len(file')
      BY <1>2, <2>3, SMTT(30)
    <3> QED
      BY <2>3, <3>1, SMT DEF WrittenAt, Width
  <2>5. \A i \in DOMAIN written : written[i] \in Record
    BY <1>2, SMT
  <2>6. \A i \in DOMAIN written : WrittenAt(file', written[i])
    BY <1>1, <2>2, <2>5, WriteKeeps
  <2>7. ASSUME NEW i \in DOMAIN written'
        PROVE  WrittenAt(file', written'[i])
    <3>1. CASE i \in DOMAIN written /\ written'[i] = written[i]
      BY <2>6, <3>1
    <3>2. CASE written'[i] = w
      BY <2>4, <3>2
    <3> QED
      BY <1>6, <3>1, <3>2
  <2>8. cursor' >= Len(file')
    BY <1>2, <1>3, <2>3, SMT
  <2> QED
    BY <2>7, <2>8
<1>8. ASSUME ~ moved', ~ torn'
      PROVE  /\ \A i \in DOMAIN written' : written'[i].at = Width * written'[i].seq
             /\ \E n \in Nat : Whole(n)'
  <2>1. ~ moved /\ ~ has_read /\ ~ torn
    BY <1>1, <1>3, <1>8, SMT DEF Types
  <2>2. PICK n \in Nat : Whole(n)
    BY <2>1 DEF SegmentInv
  <2>3. /\ Len(file) = 3 * n /\ Aligned /\ Len(index) = n /\ bytes_written = 3 * n /\ cursor = 3 * n
        /\ \A i \in 1..n : index[i] = 3 * (i - 1)
    BY <1>3, <2>1, <2>2 DEF Whole, Width
  <2>4. Len(file') = 3 * (n + 1) /\ Aligned'
    BY <1>1, <2>3, WriteAligned
  <2>5. /\ Len(index') = n + 1 /\ bytes_written' = 3 * (n + 1) /\ cursor' = 3 * (n + 1)
        /\ \A i \in 1..(n + 1) : index'[i] = 3 * (i - 1)
    <3>1. /\ Len(index') = Len(index) + 1 /\ index'[Len(index) + 1] = bytes_written
          /\ \A i \in 1..Len(index) : index'[i] = index[i]
      BY <1>2, <1>3, SMT
    <3>2. Len(index') = n + 1 /\ index'[n + 1] = 3 * n /\ \A i \in 1..n : index'[i] = 3 * (i - 1)
      BY <2>3, <3>1, SMT
    <3>3. bytes_written' = 3 * (n + 1) /\ cursor' = 3 * (n + 1)
      BY <1>3, <2>3, SMT
    <3>4. \A i \in 1..(n + 1) : i \in 1..n \/ (i = n + 1 /\ 3 * (i - 1) = 3 * n)
      BY SMT
    <3> QED
      BY <3>2, <3>3, <3>4
  <2>6. Whole(n + 1)' /\ n + 1 \in Nat
    BY <2>4, <2>5, SMT DEF Whole, Width
  <2>7. \A i \in DOMAIN written : written[i].at = 3 * written[i].seq
    BY <2>1 DEF SegmentInv, Width
  <2>8. w.at = 3 * w.seq
    BY <2>3, SMT
  <2> QED
    BY <1>6, <2>6, <2>7, <2>8 DEF Width
<1> QED
  BY <1>4, <1>7, <1>8, ZenonT(40) DEF SegmentInv

\* A write that fails or is cut off by a kill keeps the records before it; one of nothing, or of
\* a whole record that a kill followed, leaves whole records.
LEMMA CutOffStep ==
    ASSUME SegmentInv, NEW p \in Payloads, NEW k \in 0..3, AppendFails(p, k) \/ Crash(p, k)
    PROVE  SegmentInv'
<1>1. Types /\ Writes(p, k) /\ open
  BY DEF SegmentInv, AppendFails, Crash, Writes, MayAppend
<1>2. /\ index \in Seq(Nat) /\ bytes_written \in Nat /\ cursor \in Nat /\ written \in Seq(Record)
      /\ open \in BOOLEAN /\ has_read \in BOOLEAN /\ moved \in BOOLEAN /\ torn \in BOOLEAN
  BY <1>1 DEF Types
<1>3. /\ UNCHANGED written
      /\ moved' = (moved \/ has_read) \/ moved' = (moved \/ (k > 0 /\ has_read))
      /\ torn' = (torn \/ k > 0) \/ torn' = (torn \/ k \in 1..2)
  BY SMT DEF AppendFails, Crash, Width
<1>4. \/ UNCHANGED <<index, bytes_written, open, has_read>> /\ cursor' = cursor + k /\ torn' = (torn \/ k > 0)
      \/ index' = <<>> /\ bytes_written' = 0 /\ open' = FALSE /\ has_read' = FALSE /\ cursor' = 0
  BY DEF AppendFails, Crash, segment
<1>5. Types'
  <2>1. file' \in Seq(Cell)
    BY <1>1, WriteStep
  <2>2. cursor' \in Nat /\ index' \in Seq(Nat) /\ bytes_written' \in Nat
    <3>1. cursor + k \in Nat /\ <<>> \in Seq(Nat) /\ 0 \in Nat
      BY <1>2, SMT
    <3> QED
      BY <1>2, <1>4, <3>1
  <2>3. open' \in BOOLEAN /\ has_read' \in BOOLEAN
    BY <1>2, <1>4
  <2>4. torn' \in BOOLEAN /\ moved' \in BOOLEAN
    BY <1>2, <1>3
  <2> QED
    BY <1>2, <1>3, <2>1, <2>2, <2>3, <2>4 DEF Types
<1>6. ASSUME ~ moved'
      PROVE  /\ \A i \in DOMAIN written' : WrittenAt(file', written'[i])
             /\ open' /\ ~ has_read' => cursor' >= Len(file')
  <2>1. ~ moved /\ (k > 0 => ~ has_read)
    BY <1>2, <1>3, <1>6, SMT
  <2>2. k > 0 => cursor >= Len(file)
    BY <1>1, <2>1 DEF SegmentInv
  <2>3. \A i \in DOMAIN written : WrittenAt(file, written[i])
    BY <2>1 DEF SegmentInv
  <2>4. \A i \in DOMAIN written : written[i] \in Record
    BY <1>2, SMT
  <2>5. \A i \in DOMAIN written : WrittenAt(file', written[i])
    BY <1>1, <2>2, <2>3, <2>4, WriteKeeps
  <2>6. ASSUME open', ~ has_read' PROVE cursor' >= Len(file')
    <3>1. cursor' = cursor + k /\ ~ has_read
      BY <1>4, <2>6, SMT
    <3>2. cursor >= Len(file)
      BY <1>1, <2>1, <3>1, ZenonT(40) DEF SegmentInv
    <3>3. Len(file') = cursor + k \/ (k = 0 /\ file' = file)
      BY <1>1, <3>2, WriteStep, SMT
    <3> QED
      BY <1>2, <3>1, <3>2, <3>3, SMTT(30)
  <2> QED
    BY <1>3, <2>5, <2>6
<1>7. ASSUME ~ moved', ~ torn'
      PROVE  /\ \A i \in DOMAIN written' : written'[i].at = Width * written'[i].seq
             /\ \E n \in Nat : Whole(n)'
  <2>1. ~ moved /\ ~ torn /\ (k > 0 => ~ has_read) /\ (~ (k > 0) \/ k \notin 1..2)
    BY <1>3, <1>7
  <2>2. PICK n \in Nat : Whole(n)
    BY <2>1 DEF SegmentInv
  <2>3. \A i \in DOMAIN written : written[i].at = 3 * written[i].seq
    BY <2>1 DEF SegmentInv, Width
  <2>4. ASSUME k = 0 PROVE \E m \in Nat : Whole(m)'
    <3>1. file' = file /\ Aligned'
      BY <1>1, <2>2, <2>4, WriteStep DEF Whole, Aligned
    <3>2. CASE open' = FALSE
      BY <2>2, <3>1, <3>2 DEF Whole
    <3>3. CASE UNCHANGED <<index, bytes_written, open, has_read>> /\ cursor' = cursor + k
      <4>1. cursor' = cursor
        BY <1>2, <2>4, <3>3, SMT
      <4> QED
        BY <2>2, <3>1, <3>3, <4>1 DEF Whole
    <3> QED
      BY <1>4, <3>2, <3>3
  <2>5. ASSUME k = 3 PROVE \E m \in Nat : Whole(m)'
    <3>1. k > 0
      BY <2>5, SMT
    <3>2. Len(file) = 3 * n /\ Aligned /\ cursor = 3 * n
      BY <1>1, <2>1, <2>2, <3>1 DEF Whole, Width
    <3>3. Len(file') = 3 * (n + 1) /\ Aligned'
      BY <1>1, <2>5, <3>2, WriteAligned
    <3>4. open' = FALSE
      BY <1>4, <1>7, <3>1
    <3>5. n + 1 \in Nat
      BY SMT
    <3>6. Whole(n + 1)'
      BY <3>3, <3>4 DEF Whole, Width
    <3> QED
      BY <3>5, <3>6
  <2>6. k = 0 \/ k = 3
    BY <2>1, SMT
  <2> QED
    BY <1>3, <2>3, <2>4, <2>5, <2>6 DEF Width
<1> QED
  BY <1>5, <1>6, <1>7 DEF SegmentInv

\* A read moves the cursor, and an append after it is an append after a read.
LEMMA ReadStep ==
    ASSUME SegmentInv, NEW i, ReadRecord(i)
    PROVE  SegmentInv'
<1>1. /\ open /\ i \in DOMAIN index /\ has_read' = TRUE
      /\ UNCHANGED <<file, index, bytes_written, open, written, moved, torn>>
      /\ cursor' \in {index[i] + 3, Len(file), index[i]}
  BY SMT DEF ReadRecord, segment, Width
<1>2. Types
  BY SMT DEF SegmentInv
<1>3. cursor' \in Nat
  <2>1. index[i] \in Nat /\ Len(file) \in Nat
    BY <1>1, <1>2, SMT DEF Types
  <2> QED
    BY <1>1, <2>1, SMT
<1>4. Types'
  BY <1>1, <1>2, <1>3 DEF Types
<1>5. ASSUME NEW n \in Nat, Whole(n) PROVE Whole(n)'
  BY <1>1, <1>5 DEF Whole, Aligned
<1> QED
  BY <1>1, <1>4, <1>5 DEF SegmentInv

\* rebuild_index: the cursor ends behind the file, or where the records end.
LEMMA ReopenStep ==
    ASSUME SegmentInv, Reopen
    PROVE  SegmentInv'
<1>1. /\ UNCHANGED <<file, written, has_read, moved, torn>> /\ open' = TRUE
      /\ index' = [i \in 1..Scanned |-> 3 * (i - 1)] /\ bytes_written' = 3 * Scanned
      /\ cursor' = ScanEnds
  BY SMT DEF Reopen, Width
<1>2. Types
  BY SMT DEF SegmentInv
<1>3. Len(file) \in Nat
  BY <1>2, SMT DEF Types
<1>4. Scanned \in Nat
  <2>1. \A m \in Nat : (m + 1) \div 3 \in Nat
    BY SMT
  <2> QED
    BY <1>3, <2>1 DEF Scanned, Width
<1>5. ScanEnds \in Nat /\ ScanEnds >= Len(file) /\ 3 * Scanned \in Nat
  BY <1>3, <1>4, SMT DEF ScanEnds, Width
<1>6. Types'
  <2>1. \A i \in 1..Scanned : 3 * (i - 1) \in Nat
    BY <1>4, SMT
  <2>2. \A m \in Nat : \A f \in [1..m -> Nat] : f \in Seq(Nat) /\ Len(f) = m
    BY SMT
  <2>3. index' \in [1..Scanned -> Nat]
    BY <1>1, <2>1
  <2>4. index' \in Seq(Nat)
    BY <1>4, <2>2, <2>3
  <2> QED
    BY <1>1, <1>2, <1>5, <2>4 DEF Types
<1>7. ASSUME NEW n \in Nat, Whole(n) PROVE Whole(n)'
  <2>1. Len(file) = 3 * n /\ Aligned
    BY <1>7, SMT DEF Whole, Width
  <2>2. \A m \in Nat : (3 * m + 1) \div 3 = m
    BY SMT
  <2>3. Scanned = n
    BY <2>1, <2>2 DEF Scanned, Width
  <2>4. ScanEnds = 3 * n
    BY <2>1, <2>3, SMT DEF ScanEnds, Width
  <2>5. \A f : f = [i \in 1..n |-> 3 * (i - 1)] => Len(f) = n /\ \A i \in 1..n : f[i] = 3 * (i - 1)
    BY SMT
  <2>6. Len(index') = n /\ \A i \in 1..n : index'[i] = 3 * (i - 1)
    BY <1>1, <2>3, <2>5
  <2> QED
    BY <1>1, <2>1, <2>3, <2>4, <2>6 DEF Whole, Aligned, Width
<1> QED
  BY <1>1, <1>5, <1>6, <1>7 DEF SegmentInv

\* A file that rebuild_index misreads has had a write cut off, or an append after a read.
LEMMA MisreadStep ==
    ASSUME SegmentInv, NEW i \in 0..Len(file), NEW beyond \in 0..3,
           ReopenMisread(<<>>, beyond) \/ ReopenMisread(<<i>>, beyond)
    PROVE  SegmentInv'
<1>1. /\ ~ Aligned /\ UNCHANGED <<file, written, has_read, moved, torn>> /\ open' = TRUE
      /\ index' = <<>> \/ index' = <<i>>
      /\ cursor' = Len(file) + beyond /\ bytes_written' \in {0, cursor'}
  BY DEF ReopenMisread
<1>2. Types
  BY SMT DEF SegmentInv
<1>3. Len(file) \in Nat
  BY <1>2, SMT DEF Types
<1>4. cursor' \in Nat /\ cursor' >= Len(file) /\ bytes_written' \in Nat
  BY <1>1, <1>3, SMT
<1>5. index' \in Seq(Nat)
  <2>1. i \in Nat /\ <<>> \in Seq(Nat)
    BY <1>3, SMT
  <2>2. \A j \in Nat : <<j>> \in Seq(Nat)
    BY SMT
  <2> QED
    BY <1>1, <2>1, <2>2
<1>6. Types'
  BY <1>1, <1>2, <1>4, <1>5 DEF Types
<1>7. moved \/ torn
  BY <1>1 DEF SegmentInv, Whole
<1> QED
  BY <1>1, <1>4, <1>6, <1>7 DEF SegmentInv

-----------------------------------------------------------------------------
\* The invariant holds in every state the segment reaches.
LEMMA SegmentInvariant == SegmentSpec => []SegmentInv
<1>1. SegmentInit => SegmentInv
  <2> SUFFICES ASSUME SegmentInit PROVE SegmentInv
    OBVIOUS
  <2>1. /\ file = <<>> /\ cursor = 0 /\ index = <<>> /\ bytes_written = 0 /\ open = TRUE /\ written = <<>>
        /\ has_read = FALSE /\ moved = FALSE /\ torn = FALSE
    BY SMT DEF SegmentInit
  <2>2. /\ <<>> \in Seq(Cell) /\ <<>> \in Seq(Nat) /\ <<>> \in Seq(Record)
        /\ Len(<<>>) = 0 /\ DOMAIN <<>> = {} /\ 1..0 = {} /\ 0 \in Nat
    BY SMT
  <2>3. Types
    BY <2>1, <2>2 DEF Types
  <2>4. 3 * 0 = 0 /\ 0 >= 0
    BY SMT
  <2>5. Whole(0)
    BY <2>1, <2>2, <2>4 DEF Whole, Aligned, Width
  <2> QED
    BY <2>1, <2>2, <2>3, <2>4, <2>5 DEF SegmentInv
<1>2. SegmentInv /\ [SegmentNext]_segmentVars => SegmentInv'
  <2> SUFFICES ASSUME SegmentInv, [SegmentNext]_segmentVars PROVE SegmentInv'
    OBVIOUS
  <2>1. ASSUME NEW p \in Payloads, AppendRecord(p) PROVE SegmentInv'
    BY <2>1, AppendStep, SMT
  <2>2. ASSUME NEW p \in Payloads, NEW k \in 0..3, AppendFails(p, k) \/ Crash(p, k) PROVE SegmentInv'
    BY <2>2, CutOffStep
  <2>3. ASSUME NEW i \in 1..MaxRecords, ReadRecord(i) PROVE SegmentInv'
    BY <2>3, ReadStep, SMT
  <2>4. CASE Reopen
    BY <2>4, ReopenStep, SMT
  <2>5. ASSUME NEW i \in 0..Len(file), NEW beyond \in 0..3,
               ReopenMisread(<<>>, beyond) \/ ReopenMisread(<<i>>, beyond)
        PROVE  SegmentInv'
    BY <2>5, MisreadStep
  <2>6. CASE UNCHANGED segmentVars
    BY <2>6 DEF segmentVars, disk, segment, SegmentInv, Types, Whole, Aligned
  <2> QED
    BY <2>1, <2>2, <2>3, <2>4, <2>5, <2>6 DEF SegmentNext, Width
<1> QED
  BY <1>1, <1>2, PTL DEF SegmentSpec

\* What append wrote and returned Ok for stays in the file where it was put, for any number of
\* records, failed writes and kills, until an append is made after a read (segment.rs).
THEOREM SegmentIsAppendOnly == SegmentSpec => []AppendOnly
<1>1. SegmentInv => AppendOnly
  <2> SUFFICES ASSUME SegmentInv, ~ moved, NEW i \in DOMAIN written
               PROVE  CellsAt(written[i].at) = Encode(written[i].seq, written[i].payload)
    BY DEF AppendOnly
  <2>1. file \in Seq(Cell) /\ written[i] \in Record
    BY SMT DEF SegmentInv, Types
  <2>2. WrittenAt(file, written[i])
    BY DEF SegmentInv
  <2> QED
    BY <2>1, <2>2, KeptIsFound
<1> QED
  BY <1>1, SegmentInvariant, PTL

\* Every record append returned Ok for is read back under its sequence number, before and after
\* restarts, until a write is cut off or an append is made after a read (segment.rs).
THEOREM SegmentReadsBack == SegmentSpec => []ReadsBack
<1>1. SegmentInv => ReadsBack
  <2> SUFFICES ASSUME SegmentInv, open, ~ moved, ~ torn, NEW i \in DOMAIN written
               PROVE  /\ written[i].seq + 1 \in DOMAIN index
                      /\ CellsAt(index[written[i].seq + 1]) = Encode(written[i].seq, written[i].payload)
    BY DEF ReadsBack
  <2> DEFINE w == written[i]
  <2>1. file \in Seq(Cell) /\ index \in Seq(Nat) /\ w \in Record /\ w.seq \in Nat
    <3>1. file \in Seq(Cell) /\ index \in Seq(Nat) /\ written \in Seq(Record)
      BY DEF SegmentInv, Types
    <3>2. w \in Record
      BY <3>1, SMT
    <3> QED
      BY <3>1, <3>2 DEF Record
  <2>2. WrittenAt(file, w) /\ w.at = 3 * w.seq
    BY DEF SegmentInv, Width
  <2>3. PICK n \in Nat : Whole(n)
    BY DEF SegmentInv
  <2>4. Len(file) = 3 * n /\ Len(index) = n /\ \A j \in 1..n : index[j] = 3 * (j - 1)
    BY <2>3, SMT DEF Whole, Width
  <2>5. w.at + 3 <= Len(file)
    BY <2>2, SMT DEF WrittenAt, Width
  <2>6. w.at \in Nat
    BY <2>1 DEF Record
  <2>7. Len(file) \in Nat /\ DOMAIN index = 1..n
    BY <2>1, <2>4, SMT
  <2>8. w.seq + 1 \in 1..n /\ 3 * ((w.seq + 1) - 1) = w.at
    BY <2>1, <2>2, <2>4, <2>5, <2>6, <2>7, RecordInRange
  <2>9. CellsAt(w.at) = Encode(w.seq, w.payload)
    BY <2>1, <2>2, KeptIsFound
  <2> QED
    BY <2>4, <2>7, <2>8, <2>9
<1> QED
  BY <1>1, SegmentInvariant, PTL

===============================================================================

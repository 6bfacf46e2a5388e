-------------------------- MODULE BrokerCore_publish --------------------------
(***************************************************************************)
(* What a publisher relies on is small: ids are drawn once, a pattern      *)
(* never changes, and an acknowledged subscription that has left the       *)
(* registry never comes back (Relies).  Every step of a session, and every *)
(* step of another publisher, keeps what a publisher knows for that reason *)
(* alone; only the publisher's own steps are looked at one by one.         *)
(***************************************************************************)
EXTENDS BrokerCore_inv, TLAPS

USE Zenon

-----------------------------------------------------------------------------
(* What a publisher relies on *)

\* The kind of a subscription, its key and the subjects it matches are fixed when its id is drawn.
LEMMA FixedByRelies ==
    ASSUME Relies, NEW s \in Ids
    PROVE  /\ IsWild(s)' <=> IsWild(s)
           /\ Grouped(s)' <=> Grouped(s)
           /\ KeyOf(s)' = KeyOf(s)
           /\ \A subj : Matches(s, subj)' <=> Matches(s, subj)
BY DEF Relies, IsWild, Grouped, KeyOf, Matches

\* What was acknowledged or registered was drawn.
LEMMA KnownIds == IInv => acked \subseteq Ids /\ subscriptions \subseteq Ids /\ exact \subseteq Ids
                           /\ wildcard_trie \subseteq Ids
BY DEF IInv, TypeOK, Drawn, Ids

\* A wildcard subscription once removed stays removed.
LEMMA WildsStayed ==
    ASSUME IInv, Relies, WildsStay'
    PROVE  WildsStay
BY KnownIds, FixedByRelies DEF WildsStay, Relies

\* A publisher writes no table but the index of the round robin.
LEMMA PublisherFrame ==
    ASSUME NEW p \in Publishers, PublishSteps(p)
    PROVE  /\ UNCHANGED <<drawn, registry, routes, queue_group_keys, queue_groups, members, joined,
                          active_subscriptions, acked, locals>>
           /\ \/ UNCHANGED current_index
              \/ /\ ppc[p] = "pick"
                 /\ \E i : /\ i = current_index[KeyOf(chosen[p])] + 1
                           /\ current_index' = [current_index EXCEPT ![KeyOf(chosen[p])] = i]
BY DEF PublishSteps, tableVars, groups, Publish, ReadFlag, FastFlag, ExactSingleSubscriber,
   FastRef, NextItem, MatchExact, MatchFlag, MatchTrie, Route, RouteDone, Regroup, Pick, Member,
   Offer, Flush, Send, FlushDone, PublishReturn

\* So another publisher can rely on the tables.
LEMMA PublisherRelies ==
    ASSUME NEW p \in Publishers, PublishSteps(p)
    PROVE  Relies
BY PublisherFrame DEF Relies, Ids, drawn, registry

-----------------------------------------------------------------------------
(* What a publisher knows survives the steps of everyone else *)

\* A step of another publisher or of a session does not touch a publisher's variables.
Spared(p) ==
    UNCHANGED <<ppc[p], items[p], item[p], last_sub_ids[p], visit[p], sub_cache[p], pending[p],
                chosen[p], expected[p], gone[p]>>

\* Messages are only added, and an offer once made is not taken back.
Grows ==
    /\ Len(subject) <= Len(subject')
    /\ \A m \in 1..Len(subject) : subject'[m] = subject[m]
    /\ \A s \in SubIds : \A m : Settled(s, m) => Settled(s, m)'

\* A function is written at one place at most.
WritesAt(p, f, g) == g = f \/ \E v : g = [f EXCEPT ![p] = v]

\* A publisher writes its own variables only.
LEMMA WritesOwn ==
    ASSUME NEW p \in Publishers, PublishSteps(p)
    PROVE  /\ WritesAt(p, ppc, ppc') /\ WritesAt(p, items, items') /\ WritesAt(p, item, item')
           /\ WritesAt(p, last_sub_ids, last_sub_ids') /\ WritesAt(p, visit, visit')
           /\ WritesAt(p, sub_cache, sub_cache') /\ WritesAt(p, pending, pending')
           /\ WritesAt(p, chosen, chosen') /\ WritesAt(p, expected, expected')
           /\ WritesAt(p, gone, gone')
<1> USE DEF WritesAt, PublishSteps, PGoto, batchVars, outcome, history, Publish, ReadFlag,
    FastFlag, ExactSingleSubscriber, FastRef, NextItem, MatchExact, MatchFlag, MatchTrie, Route,
    RouteDone, Regroup, Pick, Member, Offer, Flush, Send, FlushDone, PublishReturn
<1>1. WritesAt(p, ppc, ppc')
  OBVIOUS
<1>2. WritesAt(p, items, items')
  OBVIOUS
<1>3. WritesAt(p, item, item')
  OBVIOUS
<1>4. WritesAt(p, last_sub_ids, last_sub_ids')
  OBVIOUS
<1>5. WritesAt(p, visit, visit')
  OBVIOUS
<1>6. WritesAt(p, sub_cache, sub_cache')
  OBVIOUS
<1>7. WritesAt(p, pending, pending')
  OBVIOUS
<1>8. WritesAt(p, chosen, chosen')
  OBVIOUS
<1>9. WritesAt(p, expected, expected')
  OBVIOUS
<1>10. WritesAt(p, gone, gone')
  OBVIOUS
<1> QED
  BY <1>1, <1>2, <1>3, <1>4, <1>5, <1>6, <1>7, <1>8, <1>9, <1>10

\* So what the others know of themselves is spared.
LEMMA OthersSpared ==
    ASSUME PubTypeOK, NEW p \in Publishers, PublishSteps(p), NEW q \in Publishers \ {p}
    PROVE  Spared(q)
<1>1. ASSUME NEW f, DOMAIN f = Publishers, NEW g, WritesAt(p, f, g)
      PROVE  g[q] = f[q]
  BY <1>1 DEF WritesAt
<1>2. /\ DOMAIN ppc = Publishers /\ DOMAIN items = Publishers /\ DOMAIN item = Publishers
      /\ DOMAIN last_sub_ids = Publishers /\ DOMAIN visit = Publishers
      /\ DOMAIN sub_cache = Publishers /\ DOMAIN pending = Publishers
      /\ DOMAIN chosen = Publishers /\ DOMAIN expected = Publishers /\ DOMAIN gone = Publishers
  BY DEF PubTypeOK
<1> QED
  BY <1>1, <1>2, WritesOwn DEF Spared

\* The messages of a batch keep their subjects.
LEMMA SubjectsStay ==
    ASSUME PubTypeOK, Published, Grows, NEW p \in Publishers, items'[p] = items[p]
    PROVE  /\ \A i \in 1..Len(items[p]) : SubjectAt(p, i)' = SubjectAt(p, i)
           /\ \A m \in Batch(p) : subject'[m] = subject[m]
           /\ DOMAIN items[p] = 1..Len(items[p])
           /\ Batch(p)' = Batch(p)
<1>1. items[p] \in Seq(Msgs)
  BY DEF PubTypeOK
<1>2. DOMAIN items[p] = 1..Len(items[p])
  BY <1>1, SMT
<1>3. \A m \in Batch(p) : subject'[m] = subject[m]
  BY DEF Published, Grows
<1>4. \A i \in 1..Len(items[p]) : items[p][i] \in Batch(p)
  BY <1>2 DEF Batch, Elems
<1> QED
  BY <1>2, <1>3, <1>4 DEF SubjectAt, Batch

\* What is still owed was owed before.
LEMMA OwedShrinks ==
    ASSUME IInv, Relies, NEW p \in Publishers, expected'[p] = expected[p], expected[p] \subseteq acked
    PROVE  Owed(p)' \subseteq Owed(p)
<1> SUFFICES ASSUME NEW s \in Owed(p)' PROVE s \in Owed(p)
  OBVIOUS
<1>1. s \in expected[p] /\ s \in subscriptions' /\ Grouped(s)' = FALSE /\ (IsWild(s)' => WildsStay')
  BY DEF Owed, Grouped
<1>2. s \in acked /\ s \in Ids /\ s \in subscriptions
  BY <1>1, KnownIds DEF Relies
<1>3. ~ Grouped(s) /\ (IsWild(s) => WildsStay)
  BY <1>1, <1>2, FixedByRelies, WildsStayed
<1> QED
  BY <1>1, <1>2, <1>3 DEF Owed

\* So what a publisher has found out stays true while others run.
LEMMA SparedKeeps ==
    ASSUME IInv, PubTypeOK, Published, Relies, Grows,
           NEW p \in Publishers, Spared(p), Publisher(p)
    PROVE  Publisher(p)'
<1>1. /\ ppc'[p] = ppc[p] /\ items'[p] = items[p] /\ item'[p] = item[p]
      /\ last_sub_ids'[p] = last_sub_ids[p] /\ visit'[p] = visit[p]
      /\ sub_cache'[p] = sub_cache[p] /\ pending'[p] = pending[p] /\ chosen'[p] = chosen[p]
      /\ expected'[p] = expected[p] /\ gone'[p] = gone[p]
  BY DEF Spared
<1>2. /\ \A i \in 1..Len(items[p]) : SubjectAt(p, i)' = SubjectAt(p, i)
      /\ \A m \in Batch(p) : subject'[m] = subject[m]
      /\ Batch(p)' = Batch(p)
  BY <1>1, SubjectsStay
<1>3. \A s : Collected(p, s)' = Collected(p, s)
  BY <1>1 DEF Collected
<1>4. Ids \subseteq Ids'
  BY DEF Relies
<1>5. Stage(p)'
  BY <1>1 DEF Stage, Publisher, NoPending
<1>6. ppc[p] \in AtItem => item[p] \in 1..Len(items[p])
  BY DEF Publisher, Stage
<1>7. Holding(p)'
  <2>1. ppc[p] = "single_ref" => 1 \in 1..Len(items[p])
    <3>1. items[p] \in Seq(Msgs)
      BY DEF PubTypeOK
    <3>2. ppc[p] = "single_ref" => items[p] # <<>>
      BY DEF Publisher, Stage
    <3> QED
      BY <3>1, <3>2, SMT
  <2>2. ppc[p] = "single_ref" => chosen[p] \in Ids /\ sub'[chosen[p]].pattern = SubjectAt(p, 1)'
    BY <1>2, <2>1 DEF Publisher, Holding, Relies
  <2>3. ppc[p] \in Grouping => /\ chosen[p] \in Ids /\ Grouped(chosen[p])'
                               /\ Matches(chosen[p], SubjectAt(p, item[p]))'
    <3> SUFFICES ASSUME ppc[p] \in Grouping
                 PROVE  /\ chosen[p] \in Ids /\ Grouped(chosen[p])'
                        /\ Matches(chosen[p], SubjectAt(p, item[p]))'
      OBVIOUS
    <3>1. chosen[p] \in Ids /\ Grouped(chosen[p]) /\ Matches(chosen[p], SubjectAt(p, item[p]))
      BY DEF Publisher, Holding
    <3>2. SubjectAt(p, item[p])' = SubjectAt(p, item[p])
      BY <1>1, <1>2, <1>6 DEF AtItem, Routing, SubjectAt
    <3> QED
      BY <1>1, <3>1, <3>2, FixedByRelies DEF Grouped, Matches
  <2> QED
    BY <1>1, <1>4, <2>2, <2>3 DEF Holding, Publisher, Grouped, Matches, SubjectAt
<1>8. Sound(p)'
  <2>1. ASSUME NEW s \in SubIds, NEW m \in Collected(p, s)
        PROVE  s \in Ids' /\ ~ Grouped(s)' /\ m \in Batch(p)' /\ Matches(s, subject[m])'
    <3>1. s \in Ids /\ ~ Grouped(s) /\ m \in Batch(p) /\ Matches(s, subject[m])
      BY <2>1 DEF Publisher, Sound
    <3> QED
      BY <1>2, <1>4, <3>1, FixedByRelies DEF Matches
  <2>2. \A s \in last_sub_ids[p] : s \in Ids
    BY DEF Publisher, Sound
  <2>3. ASSUME ppc[p] \in Matching \cup Routing, NEW s \in last_sub_ids[p]
        PROVE  Matches(s, SubjectAt(p, item[p]))'
    <3>1. Matches(s, SubjectAt(p, item[p])) /\ SubjectAt(p, item[p])' = SubjectAt(p, item[p])
      BY <1>1, <1>2, <1>6, <2>3 DEF Publisher, Sound, AtItem, SubjectAt
    <3> QED
      BY <2>2, <2>3, <3>1, FixedByRelies DEF Matches
  <2>4. ASSUME ppc[p] = "next", item[p] > 1, NEW s \in last_sub_ids[p]
        PROVE  Matches(s, SubjectAt(p, item[p] - 1))'
    <3>1. item[p] - 1 \in 1..Len(items[p])
      <4>1. item[p] \in 1..(Len(items[p]) + 1) /\ items[p] \in Seq(Msgs)
        BY <2>4 DEF Publisher, Stage, PubTypeOK
      <4> QED
        BY <2>4, <4>1, SMT
    <3>2. Matches(s, SubjectAt(p, item[p] - 1)) /\ SubjectAt(p, item[p] - 1)' = SubjectAt(p, item[p] - 1)
      BY <1>1, <1>2, <2>4, <3>1 DEF Publisher, Sound, SubjectAt
    <3> QED
      BY <2>2, <2>4, <3>2, FixedByRelies DEF Matches
  <2> QED
    BY <1>1, <1>3, <1>4, <2>1, <2>2, <2>3, <2>4 DEF Sound
<1>9. Silent(p)'
  <2>1. gone[p] \subseteq acked' \ subscriptions'
    BY DEF Publisher, Silent, Relies
  <2> QED
    BY <1>1, <2>1 DEF Publisher, Silent
<1>10. Served(p)'
  <2>1. expected[p] \subseteq acked /\ (ppc[p] = "no_subs" => expected[p] = {})
    BY DEF Publisher, Served
  <2>2. Owed(p)' \subseteq Owed(p)
    BY <1>1, <2>1, OwedShrinks
  <2>3. \A s \in Owed(p) : s \in Ids /\ s \in SubIds
    BY <2>1, KnownIds DEF Owed, Ids
  <2>4. \A i \in 1..Len(items[p]) : \A s \in Owed(p) : Matches(s, SubjectAt(p, i))' <=> Matches(s, SubjectAt(p, i))
    BY <1>2, <2>3, FixedByRelies DEF Matches
  <2>5. ASSUME NEW s \in Owed(p)
        PROVE  /\ IsWild(s)' <=> IsWild(s)
               /\ sub'[s].pattern = sub[s].pattern
               /\ Due(p, s)' = Due(p, s)
    <3>1. \A m \in Batch(p) : Matches(s, subject[m])' <=> Matches(s, subject[m])
      BY <1>2, <2>3, FixedByRelies DEF Matches
    <3>2. Due(p, s)' = Due(p, s)
      BY <1>1, <3>1 DEF Due, Batch, Elems
    <3> QED
      BY <2>3, <3>2, FixedByRelies DEF Relies
  <2>6. item[p] - 1 \in Int /\ \A j \in 1..(item[p] - 1) : ppc[p] \in Looping => j \in 1..Len(items[p])
    <3>1. items[p] \in Seq(Msgs) /\ item[p] \in Nat
      BY DEF PubTypeOK
    <3>2. ppc[p] \in Looping => item[p] <= Len(items[p]) + 1
      BY <3>1, SMT DEF Publisher, Stage, Looping
    <3> QED
      BY <3>1, <3>2, SMT
  <2>7. ppc[p] = "next" /\ item[p] > 1 => item[p] - 1 \in 1..Len(items[p])
    <3>1. items[p] \in Seq(Msgs) /\ item[p] \in Nat
      BY DEF PubTypeOK
    <3>2. ppc[p] = "next" => item[p] <= Len(items[p]) + 1
      BY <3>1, SMT DEF Publisher, Stage
    <3> QED
      BY <3>1, <3>2, SMT
  <2>8. ppc[p] = "single_ref" => 1 \in 1..Len(items[p])
    <3>1. items[p] \in Seq(Msgs)
      BY DEF PubTypeOK
    <3>2. ppc[p] = "single_ref" => items[p] # <<>>
      BY DEF Publisher, Stage
    <3> QED
      BY <3>1, <3>2, SMT
  <2>9. ASSUME NEW s \in Owed(p)
        PROVE  /\ ppc[p] \in {"single", "single_ref"} => ~ IsWild(s)'
               /\ ppc[p] = "single_ref" /\ sub'[s].pattern = SubjectAt(p, 1)' => chosen[p] = s
    BY <1>2, <2>5, <2>8 DEF Publisher, Served
  <2>10. ASSUME NEW s \in Owed(p), ppc[p] \in Looping, NEW j \in 1..(item[p] - 1),
                Matches(s, SubjectAt(p, j))'
         PROVE  items[p][j] \in Collected(p, s)
    BY <2>4, <2>6, <2>10 DEF Publisher, Served
  <2>11. ASSUME NEW s \in Owed(p), ppc[p] \in Matching \cup Routing, Matches(s, SubjectAt(p, item[p]))'
         PROVE  Matches(s, SubjectAt(p, item[p]))
    BY <1>1, <1>6, <2>4, <2>11 DEF AtItem, Matches, SubjectAt
  <2>12. ASSUME NEW s \in Owed(p), ppc[p] = "next", item[p] > 1, Matches(s, SubjectAt(p, item[p] - 1))'
         PROVE  s \in last_sub_ids[p]
    <3>1. Matches(s, SubjectAt(p, item[p] - 1))
      BY <1>1, <2>4, <2>7, <2>12 DEF Matches, SubjectAt
    <3> QED
      BY <2>12, <3>1 DEF Publisher, Served
  <2>13. ASSUME NEW s \in Owed(p), ppc[p] \in {"flush", "send", "done"}, NEW m \in Due(p, s)'
         PROVE  m \in Collected(p, s) \/ Settled(s, m)'
    BY <2>3, <2>5, <2>13 DEF Publisher, Served, Grows
  <2>14. ASSUME NEW s \in Owed(p)
         PROVE  /\ ppc[p] \in Matching /\ ~ IsWild(s)' /\ Matches(s, SubjectAt(p, item[p]))' => s \in visit[p]
                /\ ppc[p] \in Routing /\ Matches(s, SubjectAt(p, item[p]))' =>
                      /\ s \in last_sub_ids[p]
                      /\ s \in visit[p] \/ items[p][item[p]] \in Collected(p, s)
    BY <2>5, <2>11 DEF Publisher, Served
  <2> QED
    BY <1>1, <1>3, <2>1, <2>2, <2>9, <2>10, <2>12, <2>13, <2>14 DEF Served, Relies
<1> QED
  BY <1>5, <1>7, <1>8, <1>9, <1>10 DEF Publisher

-----------------------------------------------------------------------------
(* What a publisher hands over *)

\* The elements of a sequence after a push.
LEMMA ElemsAppend ==
    ASSUME NEW S, NEW q \in Seq(S), NEW m \in S
    PROVE  Elems(Append(q, m)) = Elems(q) \cup {m}
<1>1. Append(q, m) \in Seq(S) /\ Len(Append(q, m)) = Len(q) + 1
  BY SMT
<1>2. \A i \in 1..Len(q) : Append(q, m)[i] = q[i]
  BY SMT
<1>3. Append(q, m)[Len(q) + 1] = m
  BY SMT
<1>4. DOMAIN Append(q, m) = 1..(Len(q) + 1) /\ DOMAIN q = 1..Len(q) /\ Len(q) \in Nat
  BY <1>1, SMT
<1>5. \A i \in 1..(Len(q) + 1) : i \in 1..Len(q) \/ i = Len(q) + 1
  BY <1>4, SMT
<1>6. 1..Len(q) \subseteq 1..(Len(q) + 1) /\ Len(q) + 1 \in 1..(Len(q) + 1)
  BY <1>4, SMT
<1> QED
  BY <1>2, <1>3, <1>4, <1>5, <1>6 DEF Elems

\* The elements of a sequence and of its tail.
LEMMA ElemsPop ==
    ASSUME NEW S, NEW q \in Seq(S), q # <<>>
    PROVE  /\ Elems(q) = {Head(q)} \cup Elems(Tail(q))
           /\ Head(q) \in S /\ Tail(q) \in Seq(S)
<1>1. Len(q) \in Nat /\ Len(q) >= 1 /\ DOMAIN q = 1..Len(q)
  BY SMT
<1>2. Head(q) = q[1] /\ Head(q) \in S
  BY <1>1, SMT
<1>3. Tail(q) \in Seq(S) /\ DOMAIN Tail(q) = 1..(Len(q) - 1)
  BY <1>1, SMT
<1>4. \A i \in 1..(Len(q) - 1) : Tail(q)[i] = q[i + 1]
  BY <1>1, SMT
<1>5. \A i \in 1..Len(q) : i = 1 \/ \E j \in 1..(Len(q) - 1) : i = j + 1
  <2>1. \A i \in 1..Len(q) : i = 1 \/ (i - 1 \in 1..(Len(q) - 1) /\ i = (i - 1) + 1)
    BY <1>1, SMT
  <2> QED
    BY <2>1
<1>6. (\A j \in 1..(Len(q) - 1) : j + 1 \in 1..Len(q)) /\ 1 \in 1..Len(q)
  BY <1>1, SMT
<1>7. Elems(q) = {Head(q)} \cup Elems(Tail(q))
  <2>1. ASSUME NEW x \in Elems(q), x # Head(q) PROVE x \in Elems(Tail(q))
    <3>1. PICK i \in 1..Len(q) : x = q[i]
      BY <1>1 DEF Elems
    <3>2. PICK j \in 1..(Len(q) - 1) : i = j + 1
      BY <1>2, <1>5, <2>1, <3>1
    <3>3. x = Tail(q)[j]
      BY <1>4, <3>1, <3>2
    <3> QED
      BY <1>3, <3>3 DEF Elems
  <2>2. \A x \in Elems(Tail(q)) : x \in Elems(q)
    BY <1>1, <1>3, <1>4, <1>6 DEF Elems
  <2>3. Head(q) \in Elems(q)
    BY <1>1, <1>2, <1>6 DEF Elems
  <2> QED
    BY <2>1, <2>2, <2>3
<1> QED
  BY <1>2, <1>3, <1>7

\* An empty sequence has none.
LEMMA ElemsNone == \A q : q = <<>> => Elems(q) = {}
BY SMT DEF Elems

\* The delivery a publisher makes in its next step, if it makes one
Handing(p, s, m) ==
    /\ s = chosen[p]
    /\ \/ ppc[p] = "offer" /\ m = items[p][item[p]]
       \/ ppc[p] = "send" /\ m \in Collected(p, s)

\* It is of a message of the batch that matches, to a subscription that was not gone.
LEMMA HandsOverRight ==
    ASSUME PubTypeOK, NEW p \in Publishers, Publisher(p), NEW s, NEW m, Handing(p, s, m)
    PROVE  s \in Ids /\ s \in SubIds /\ m \in Batch(p) /\ Matches(s, subject[m]) /\ s \notin gone[p]
<1>1. items[p] \in Seq(Msgs)
  BY DEF PubTypeOK
<1>2. CASE ppc[p] = "offer" /\ m = items[p][item[p]]
  <2>1. item[p] \in 1..Len(items[p])
    BY <1>2 DEF Publisher, Stage, AtItem, Routing, Grouping
  <2>2. m \in Batch(p)
    BY <1>1, <1>2, <2>1, SMT DEF Batch, Elems
  <2>3. chosen[p] \in Ids /\ Matches(chosen[p], SubjectAt(p, item[p])) /\ chosen[p] \notin gone[p]
    BY <1>2 DEF Publisher, Holding, Grouping, Silent
  <2> QED
    BY <1>2, <2>2, <2>3 DEF Handing, SubjectAt, Ids
<1>3. CASE ppc[p] = "send" /\ m \in Collected(p, s)
  <2>1. s \in SubIds
    BY <1>3 DEF Handing, Publisher, Holding
  <2>2. s \in Ids /\ m \in Batch(p) /\ Matches(s, subject[m])
    BY <1>3, <2>1 DEF Publisher, Sound
  <2>3. s \notin gone[p]
    BY <1>3, ElemsNone DEF Publisher, Silent, Collected
  <2> QED
    BY <2>1, <2>2, <2>3
<1> QED
  BY <1>2, <1>3 DEF Handing

\* What a step of a publisher adds to the channels and to the drop counter is the delivery at
\* hand, and nothing leaves them.
LEMMA HandsOver ==
    ASSUME PubTypeOK, NEW p \in Publishers, PublishSteps(p), Publisher(p)
    PROVE  /\ log' \in [SubIds -> Seq(Msgs)] /\ dropped' \subseteq SubIds \X Msgs
           /\ \A s \in SubIds : Elems(log[s]) \subseteq Elems(log'[s])
           /\ \A s \in SubIds : \A m \in Elems(log'[s]) : m \in Elems(log[s]) \/ Handing(p, s, m)
           /\ dropped \subseteq dropped'
           /\ \A s, m : <<s, m>> \in dropped' => <<s, m>> \in dropped \/ Handing(p, s, m)
<1>1. log \in [SubIds -> Seq(Msgs)] /\ dropped \subseteq SubIds \X Msgs
  BY DEF PubTypeOK
<1>2. UNCHANGED outcome \/ Offer(p) \/ Send(p)
  BY DEF PublishSteps, Publish, ReadFlag, FastFlag, ExactSingleSubscriber, FastRef, NextItem,
     MatchExact, MatchFlag, MatchTrie, Route, RouteDone, Regroup, Pick, Member, Offer, Flush,
     Send, FlushDone, PublishReturn
<1>3. CASE UNCHANGED outcome
  BY <1>1, <1>3 DEF outcome
<1>4. CASE Offer(p)
  <2> DEFINE t == chosen[p]
             n == items[p][item[p]]
  <2>1. ppc[p] = "offer"
    BY <1>4 DEF Offer
  <2>2. Handing(p, t, n)
    BY <2>1 DEF Handing
  <2>3. t \in SubIds /\ n \in Msgs
    <3>1. items[p] \in Seq(Msgs) /\ item[p] \in 1..Len(items[p])
      BY <2>1 DEF PubTypeOK, Publisher, Stage, AtItem, Routing, Grouping
    <3> QED
      BY <2>2, <3>1, HandsOverRight, SMT
  <2> HIDE DEF t, n
  <2>4. \/ log' = [log EXCEPT ![t] = Append(@, n)] /\ UNCHANGED dropped
        \/ dropped' = dropped \cup {<<t, n>>} /\ UNCHANGED log
    BY <1>4 DEF Offer, t, n
  <2>5. CASE log' = [log EXCEPT ![t] = Append(@, n)] /\ UNCHANGED dropped
    <3>1. log'[t] = Append(log[t], n) /\ \A s \in SubIds \ {t} : log'[s] = log[s]
      BY <1>1, <2>3, <2>5
    <3>2. log' \in [SubIds -> Seq(Msgs)]
      BY <1>1, <2>3, <2>5, SMT
    <3>3. Elems(log'[t]) = Elems(log[t]) \cup {n}
      BY <1>1, <2>3, <3>1, ElemsAppend, SMT
    <3> QED
      BY <1>1, <2>2, <2>5, <3>1, <3>2, <3>3
  <2>6. CASE dropped' = dropped \cup {<<t, n>>} /\ UNCHANGED log
    BY <1>1, <2>2, <2>3, <2>6, SMT
  <2> QED
    BY <2>4, <2>5, <2>6
<1>5. CASE Send(p)
  <2> DEFINE t == chosen[p]
             msgs == pending[p][t]
  <2>1. ppc[p] = "send"
    BY <1>5 DEF Send
  <2>2. t \in SubIds /\ msgs # <<>>
    BY <2>1 DEF Publisher, Holding
  <2>3. msgs \in Seq(Msgs)
    BY <2>2, SMT DEF PubTypeOK
  <2>4. \A m \in Elems(msgs) : Handing(p, t, m)
    BY <2>1 DEF Handing, Collected
  <2>5. \/ log' = [log EXCEPT ![t] = Append(@, Head(msgs))] /\ UNCHANGED dropped
        \/ dropped' = dropped \cup {<<t, msgs[i]>> : i \in DOMAIN msgs} /\ UNCHANGED log
    BY <1>5 DEF Send
  <2> HIDE DEF t, msgs
  <2>6. Head(msgs) \in Msgs /\ Head(msgs) \in Elems(msgs)
    BY <2>2, <2>3, ElemsPop
  <2>7. CASE log' = [log EXCEPT ![t] = Append(@, Head(msgs))] /\ UNCHANGED dropped
    <3>1. log'[t] = Append(log[t], Head(msgs)) /\ \A s \in SubIds \ {t} : log'[s] = log[s]
      BY <1>1, <2>2, <2>7
    <3>2. Append(log[t], Head(msgs)) \in Seq(Msgs)
      BY <1>1, <2>2, <2>6, SMT
    <3>3. log' \in [SubIds -> Seq(Msgs)]
      BY <1>1, <2>7, <3>2
    <3>4. Elems(log'[t]) = Elems(log[t]) \cup {Head(msgs)}
      BY <1>1, <2>2, <2>6, <3>1, ElemsAppend, SMT
    <3> QED
      BY <1>1, <2>4, <2>6, <2>7, <3>1, <3>3, <3>4
  <2>8. CASE dropped' = dropped \cup {<<t, msgs[i]>> : i \in DOMAIN msgs} /\ UNCHANGED log
    <3>1. \A i \in DOMAIN msgs : msgs[i] \in Msgs /\ msgs[i] \in Elems(msgs)
      BY <2>3, SMT DEF Elems
    <3>2. \A s, m : <<s, m>> \in dropped' => <<s, m>> \in dropped \/ (s = t /\ m \in Elems(msgs))
      BY <2>8, <3>1
    <3>3. dropped' \subseteq SubIds \X Msgs
      BY <1>1, <2>2, <2>8, <3>1, SMT
    <3> QED
      BY <1>1, <2>4, <2>8, <3>2, <3>3
  <2> QED
    BY <2>5, <2>7, <2>8
<1> QED
  BY <1>2, <1>3, <1>4, <1>5

\* What a batch adds to the messages: it is numbered after all of them.
LEMMA PublishEffect ==
    ASSUME PubTypeOK, NEW p \in Publishers, NEW n \in BatchSizes, NEW subjects \in [1..n -> Subjects],
           Publish(p, subjects)
    PROVE  /\ subject' \in Seq(Subjects) /\ Len(subject') <= MaxMsgs
           /\ Len(subject') = Len(subject) + n
           /\ \A m \in 1..Len(subject) : subject'[m] = subject[m]
           /\ items'[p] \in Seq(Msgs) /\ Len(items'[p]) = n /\ n >= 1 /\ n \in Nat
           /\ \A i \in 1..n : items'[p][i] = Len(subject) + i
           /\ items' = [items EXCEPT ![p] = items'[p]]
<1>1. subject \in Seq(Subjects) /\ items \in [Publishers -> Seq(Msgs)] /\ MaxMsgs \in Nat
  BY CoreAssumption DEF PubTypeOK
<1>2. n \in Nat /\ n >= 1
  BY CoreAssumption, SMT
<1>3. subjects \in Seq(Subjects) /\ Len(subjects) = n /\ DOMAIN subjects = 1..n
  BY <1>2, SMT
<1>4. /\ subject' = subject \o subjects
      /\ Len(subject) + Len(subjects) <= MaxMsgs
      /\ items' = [items EXCEPT ![p] = [i \in 1..n |-> Len(subject) + i]]
  BY <1>3 DEF Publish
<1>5. subject' \in Seq(Subjects) /\ Len(subject') = Len(subject) + n
  BY <1>1, <1>3, <1>4, SMT
<1>6. \A m \in 1..Len(subject) : subject'[m] = subject[m]
  BY <1>1, <1>3, <1>4, SMT
<1>7. items'[p] = [i \in 1..n |-> Len(subject) + i]
  BY <1>1, <1>4
<1>8. \A i \in 1..n : Len(subject) + i \in Msgs
  BY <1>1, <1>2, <1>3, <1>4, SMT DEF Msgs
<1>9. items'[p] \in Seq(Msgs) /\ Len(items'[p]) = n
  BY <1>2, <1>7, <1>8, SMT
<1>10. \A i \in 1..n : items'[p][i] = Len(subject) + i
  BY <1>7
<1>11. items' = [items EXCEPT ![p] = items'[p]]
  BY <1>4, <1>7
<1> QED
  BY <1>1, <1>2, <1>3, <1>4, <1>5, <1>6, <1>9, <1>10, <1>11

\* The messages and the offers made so far only grow.
LEMMA PublishGrows ==
    ASSUME PubTypeOK, NEW p \in Publishers, PublishSteps(p), Publisher(p)
    PROVE  Grows /\ \A s \in SubIds : \A m : Settled(s, m)' => Settled(s, m) \/ Handing(p, s, m)
<1>1. \A s \in SubIds : \A m : Settled(s, m) <=> <<s, m>> \in dropped \/ m \in Elems(log[s])
  BY DEF Settled, Elems
<1>2. \A s \in SubIds : \A m : Settled(s, m)' <=> <<s, m>> \in dropped' \/ m \in Elems(log'[s])
  BY DEF Settled, Elems
<1>3. UNCHANGED subject \/ \E n \in BatchSizes : \E subjects \in [1..n -> Subjects] : Publish(p, subjects)
  BY DEF PublishSteps, history, Publish, ReadFlag, FastFlag, ExactSingleSubscriber, FastRef,
     NextItem, MatchExact, MatchFlag, MatchTrie, Route, RouteDone, Regroup, Pick, Member, Offer,
     Flush, Send, FlushDone, PublishReturn
<1>4. Len(subject) <= Len(subject') /\ \A m \in 1..Len(subject) : subject'[m] = subject[m]
  <2>1. CASE UNCHANGED subject
    <3>1. subject \in Seq(Subjects)
      BY DEF PubTypeOK
    <3> QED
      BY <2>1, <3>1, SMT
  <2>2. CASE \E n \in BatchSizes : \E subjects \in [1..n -> Subjects] : Publish(p, subjects)
    <3>1. Len(subject) \in Nat
      BY SMT DEF PubTypeOK
    <3>2. PICK n \in Nat : Len(subject') = Len(subject) + n
      BY <2>2, PublishEffect
    <3> QED
      BY <2>2, <3>1, <3>2, PublishEffect, SMT
  <2> QED
    BY <1>3, <2>1, <2>2
<1> QED
  BY <1>1, <1>2, <1>4, HandsOver DEF Grows

\* A step of a publisher keeps the messages numbered apart, and hands a message to
\* matching subscriptions only, none of which was gone when its batch was read.
LEMMA SharedStep ==
    ASSUME CoreInv, NEW p \in Publishers, PublishSteps(p)
    PROVE  Published' /\ OnlyMatching' /\ NoDeliveryAfterRemoval'
<1>1. /\ IInv /\ TableInv /\ PubTypeOK /\ Published /\ OnlyMatching /\ NoDeliveryAfterRemoval
      /\ Publisher(p) /\ \A q \in Publishers : Publisher(q)
  BY DEF CoreInv, PubInv, TableInv
<1>2. Relies
  BY PublisherRelies
<1>3. Grows /\ \A s \in SubIds : \A m : Settled(s, m)' => Settled(s, m) \/ Handing(p, s, m)
  BY <1>1, PublishGrows
<1>4. Len(subject) \in Nat /\ Len(subject') \in Nat /\ 1..Len(subject) \subseteq 1..Len(subject')
  <2>1. UNCHANGED subject \/ \E n \in BatchSizes : \E subjects \in [1..n -> Subjects] : Publish(p, subjects)
    BY DEF PublishSteps, history, Publish, ReadFlag, FastFlag, ExactSingleSubscriber, FastRef,
       NextItem, MatchExact, MatchFlag, MatchTrie, Route, RouteDone, Regroup, Pick, Member, Offer,
       Flush, Send, FlushDone, PublishReturn
  <2>2. subject \in Seq(Subjects) /\ subject' \in Seq(Subjects)
    BY <1>1, <2>1, PublishEffect DEF PubTypeOK
  <2> QED
    BY <1>3, <2>2, SMT DEF Grows
<1>5. \A s, m : Handing(p, s, m) =>
          s \in Ids /\ m \in Batch(p) /\ m \in 1..Len(subject) /\ Matches(s, subject[m]) /\ s \notin gone[p]
  BY <1>1, HandsOverRight DEF Published
<1>6. ASSUME NEW s \in SubIds, NEW m \in Elems(log'[s])
      PROVE  s \in Ids /\ m \in 1..Len(subject) /\ Matches(s, subject[m])
  <2>1. CASE m \in Elems(log[s])
    BY <1>1, <2>1 DEF Published, OnlyMatching, Elems
  <2>2. CASE Handing(p, s, m)
    BY <1>5, <2>2
  <2> QED
    BY <1>1, <1>6, <2>1, <2>2, HandsOver
<1>7. OnlyMatching'
  <2>1. ASSUME NEW s \in SubIds, NEW m \in Elems(log'[s]) PROVE Matches(s, subject[m])'
    BY <1>2, <1>3, <1>6, <2>1, FixedByRelies DEF Grows, Matches
  <2> QED
    BY <2>1 DEF OnlyMatching, Elems
<1>8. \A s \in SubIds : \A m \in Elems(log'[s]) : s \in Ids' /\ m \in 1..Len(subject')
  BY <1>2, <1>4, <1>6 DEF Relies
<1>9. \A d \in dropped' : d[2] \in 1..Len(subject')
  <2>1. dropped' \subseteq SubIds \X Msgs
    BY <1>1, HandsOver
  <2>2. ASSUME NEW s, NEW m, <<s, m>> \in dropped' PROVE m \in 1..Len(subject')
    <3>1. CASE <<s, m>> \in dropped
      BY <1>1, <1>4, <3>1 DEF Published
    <3>2. CASE Handing(p, s, m)
      BY <1>4, <1>5, <3>2
    <3> QED
      BY <1>1, <2>2, <3>1, <3>2, HandsOver
  <2> QED
    BY <2>1, <2>2, SMT
<1>10. ASSUME NEW q \in Publishers, q # p PROVE items'[q] = items[q] /\ gone'[q] = gone[q] /\ Batch(q)' = Batch(q)
  BY <1>1, <1>10, OthersSpared DEF Spared, Batch
<1>11. ASSUME NEW q \in Publishers, q # p, NEW s \in gone[q], NEW m \in Batch(q) PROVE ~ Settled(s, m)'
  <2>1. s \in SubIds /\ ~ Settled(s, m)
    BY <1>1, <1>11 DEF NoDeliveryAfterRemoval, Batch, Elems, PubTypeOK
  <2>2. m \notin Batch(p)
    BY <1>1, <1>11 DEF Published
  <2> QED
    BY <1>3, <1>5, <2>1, <2>2
<1>12. CASE \E n \in BatchSizes : \E subjects \in [1..n -> Subjects] : Publish(p, subjects)
  <2>0. PICK n \in BatchSizes : \E subjects \in [1..n -> Subjects] : Publish(p, subjects)
    BY <1>12
  <2>1. PICK subjects \in [1..n -> Subjects] : Publish(p, subjects)
    BY <2>0
  <2>2. Batch(p)' \subseteq 1..Len(subject') /\ Batch(p)' \cap 1..Len(subject) = {}
    <3>1. /\ items'[p] \in Seq(Msgs) /\ Len(items'[p]) = n /\ n \in Nat
          /\ \A i \in 1..n : items'[p][i] = Len(subject) + i
          /\ Len(subject') = Len(subject) + n
      BY <1>1, <2>1, PublishEffect
    <3>2. DOMAIN items'[p] = 1..n
      BY <3>1, SMT
    <3>3. \A m \in Batch(p)' : \E i \in 1..n : m = Len(subject) + i
      BY <3>1, <3>2 DEF Batch, Elems
    <3> QED
      BY <1>4, <3>1, <3>3, SMT
  <2>3. Published'
    <3>1. \A q \in Publishers : Batch(q)' \subseteq 1..Len(subject')
      BY <1>1, <1>4, <1>10, <2>2, ZenonT(40) DEF Published
    <3>2. ASSUME NEW q \in Publishers, q # p PROVE Batch(q)' \cap Batch(p)' = {}
      <4>1. Batch(q)' \subseteq 1..Len(subject)
        BY <1>1, <1>10, <3>2 DEF Published
      <4> QED
        BY <2>2, <4>1
    <3>3. \A q, r \in Publishers : q # r => Batch(q)' \cap Batch(r)' = {}
      BY <1>1, <1>10, <3>2 DEF Published
    <3> QED
      BY <1>8, <1>9, <3>1, <3>3 DEF Published
  <2>4. ASSUME NEW s \in gone'[p], NEW m \in Batch(p)' PROVE ~ Settled(s, m)'
    <3>1. s \in SubIds
      BY <1>1, <2>1 DEF Publish, PubTypeOK, IInv, TypeOK
    <3>2. m \notin 1..Len(subject)
      BY <2>2
    <3>3. ~ Settled(s, m)
      BY <1>1, <3>1, <3>2 DEF Settled, Published, Elems
    <3>4. ~ Handing(p, s, m)
      BY <1>5, <3>2
    <3> QED
      BY <1>3, <3>1, <3>3, <3>4
  <2> QED
    BY <1>7, <1>10, <1>11, <2>3, <2>4 DEF NoDeliveryAfterRemoval, Batch, Elems
<1>13. CASE ~ \E n \in BatchSizes : \E subjects \in [1..n -> Subjects] : Publish(p, subjects)
  <2>1. UNCHANGED <<items, gone>> \/ (items' = [items EXCEPT ![p] = <<>>] /\ gone' = [gone EXCEPT ![p] = {}])
    BY <1>13 DEF PublishSteps, history, batchVars, Publish, ReadFlag, FastFlag,
       ExactSingleSubscriber, FastRef, NextItem, MatchExact, MatchFlag, MatchTrie, Route,
       RouteDone, Regroup, Pick, Member, Offer, Flush, Send, FlushDone, PublishReturn
  <2>2. Batch(p)' \subseteq Batch(p) /\ gone'[p] \subseteq gone[p]
    <3>1. items \in [Publishers -> Seq(Msgs)] /\ gone \in [Publishers -> SUBSET SubIds]
      BY <1>1 DEF PubTypeOK
    <3>2. CASE UNCHANGED <<items, gone>>
      BY <3>2 DEF Batch
    <3>3. CASE items' = [items EXCEPT ![p] = <<>>] /\ gone' = [gone EXCEPT ![p] = {}]
      BY <3>1, <3>3, ElemsNone DEF Batch
    <3> QED
      BY <2>1, <3>2, <3>3
  <2>3. Published'
    <3>1. \A q \in Publishers : Batch(q)' \subseteq Batch(q)
      BY <1>10, <2>2
    <3>2. \A q \in Publishers : Batch(q)' \subseteq 1..Len(subject')
      BY <1>1, <1>4, <3>1 DEF Published
    <3>3. \A q, r \in Publishers : q # r => Batch(q)' \cap Batch(r)' = {}
      BY <1>1, <3>1 DEF Published
    <3> QED
      BY <1>8, <1>9, <3>2, <3>3 DEF Published
  <2>4. ASSUME NEW s \in gone'[p], NEW m \in Batch(p)' PROVE ~ Settled(s, m)'
    <3>1. s \in gone[p] /\ m \in Batch(p)
      BY <2>2
    <3>2. s \in SubIds /\ ~ Settled(s, m)
      BY <1>1, <3>1 DEF NoDeliveryAfterRemoval, Batch, Elems, PubTypeOK
    <3> QED
      BY <1>3, <1>5, <3>1, <3>2
  <2> QED
    BY <1>7, <1>10, <1>11, <2>3, <2>4 DEF NoDeliveryAfterRemoval, Batch, Elems
<1> QED
  BY <1>12, <1>13

-----------------------------------------------------------------------------
(* The steps of a publisher, one by one *)

\* The variables of one publisher are typed.
Typed(p) ==
    /\ ppc[p] \in PPC
    /\ items[p] \in Seq(Msgs)
    /\ item[p] \in Nat
    /\ last_sub_ids[p] \subseteq SubIds
    /\ visit[p] \subseteq SubIds
    /\ sub_cache[p] \subseteq SubIds
    /\ pending[p] \in [SubIds -> Seq(Msgs)]
    /\ chosen[p] \in 0..MaxSubs
    /\ expected[p] \subseteq SubIds
    /\ gone[p] \subseteq SubIds

Own(p) == Typed(p) /\ Publisher(p)

\* What a publisher keeps about itself is part of the invariant.
LEMMA OwnFacts ==
    ASSUME CoreInv, NEW p \in Publishers
    PROVE  Own(p) /\ PubTypeOK /\ Published /\ TableInv /\ IInv
BY DEF CoreInv, PubInv, PubTypeOK, Typed, Own, TableInv

\* What a step of a publisher leaves as it is: the tables, and in publish_batch the batch.
Steady(p) ==
    /\ Ids' = Ids /\ acked' = acked /\ subscriptions' = subscriptions /\ sub' = sub
    /\ items'[p] = items[p] /\ expected'[p] = expected[p] /\ gone'[p] = gone[p]
    /\ \A i : SubjectAt(p, i)' = SubjectAt(p, i)
    /\ \A s : (IsWild(s)' <=> IsWild(s)) /\ (Grouped(s)' <=> Grouped(s))
    /\ \A s, subj : Matches(s, subj)' <=> Matches(s, subj)
    /\ \A m : subject'[m] = subject[m]
    /\ Batch(p)' = Batch(p)
    /\ Owed(p)' = Owed(p)
    /\ \A s : Due(p, s)' = Due(p, s)

\* Every step of publish_batch but the first and the last does.
LEMMA StaysSteady ==
    ASSUME NEW p \in Publishers, PublishSteps(p), UNCHANGED <<subject, items, expected, gone>>
    PROVE  Steady(p)
<1>1. UNCHANGED <<sub, sub_id_gen, acked, subscriptions>>
  BY PublisherFrame DEF drawn, registry
<1>2. /\ Ids' = Ids
      /\ \A s : (IsWild(s)' <=> IsWild(s)) /\ (Grouped(s)' <=> Grouped(s))
      /\ \A s, subj : Matches(s, subj)' <=> Matches(s, subj)
      /\ \A i : SubjectAt(p, i)' = SubjectAt(p, i)
      /\ Batch(p)' = Batch(p)
  BY <1>1 DEF Ids, IsWild, Grouped, Matches, SubjectAt, Batch
<1>3. WildsStay' <=> WildsStay
  BY <1>1 DEF WildsStay, IsWild
<1>4. Owed(p)' = Owed(p)
  BY <1>1, <1>2, <1>3 DEF Owed
<1>5. \A s : Due(p, s)' = Due(p, s)
  BY <1>1 DEF Due, Matches
<1> QED
  BY <1>1, <1>2, <1>4, <1>5 DEF Steady

\* An offer made is not taken back, whoever makes the step.
LEMMA StaysSettled ==
    ASSUME CoreInv, NEW p \in Publishers, PublishSteps(p)
    PROVE  \A s \in SubIds : \A m : Settled(s, m) => Settled(s, m)'
BY OwnFacts, PublishGrows DEF Grows, Own

\* has_active_subscriptions is false only when nobody was acknowledged and registered, so the
\* drain of ReadFlag owes nothing to anyone.
LEMMA ReadFlagStep ==
    ASSUME CoreInv, NEW p \in Publishers, PublishSteps(p), ReadFlag(p)
    PROVE  Own(p)'
<1>1. Own(p) /\ PubTypeOK /\ ppc \in [Publishers -> PPC]
  BY OwnFacts DEF PubTypeOK
<1>2. UNCHANGED <<batchVars, outcome, history>>
  BY DEF ReadFlag
<1>3. Steady(p)
  BY <1>2, StaysSteady DEF batchVars, history
<1>4. /\ ppc[p] = "no_subs" /\ ppc'[p] \in {"batch", "done"}
      /\ item'[p] = item[p] /\ last_sub_ids'[p] = last_sub_ids[p] /\ visit'[p] = visit[p]
      /\ sub_cache'[p] = sub_cache[p] /\ pending'[p] = pending[p] /\ chosen'[p] = chosen[p]
  BY <1>1, <1>2 DEF ReadFlag, PGoto, batchVars
<1>5. expected[p] = {}
  BY <1>1, <1>4 DEF Own, Publisher, Served
<1>6. Typed(p)'
  BY <1>1, <1>3, <1>4 DEF Own, Typed, Steady, PPC
<1>7. Stage(p)'
  BY <1>1, <1>3, <1>4 DEF Own, Publisher, Stage, Steady, Before, Grouping, Routing, Matching,
     AtItem, Looping, NoPending
<1>8. Holding(p)' /\ Sound(p)' /\ Silent(p)'
  BY <1>1, <1>3, <1>4 DEF Own, Publisher, Holding, Sound, Silent, Steady, Collected, Before,
     Grouping, Routing, Matching
<1>9. Served(p)'
  BY <1>1, <1>3, <1>4, <1>5 DEF Own, Publisher, Served, Steady, Owed
<1> QED
  BY <1>6, <1>7, <1>8, <1>9 DEF Own, Publisher

\* Before the routing loop nothing has been collected, looked up or matched: a step there that
\* touches none of it keeps what the publisher knows.
LEMMA BeforeTheLoop ==
    ASSUME NEW p \in Publishers, Own(p), Steady(p),
           ppc[p] \in {"batch", "single", "single_ref"}, ppc'[p] \in {"single", "single_ref", "next"},
           item'[p] = 1, last_sub_ids'[p] = last_sub_ids[p], visit'[p] = visit[p],
           sub_cache'[p] = sub_cache[p], pending'[p] = pending[p]
    PROVE  /\ Stage(p)' /\ Sound(p)' /\ Silent(p)'
           /\ (\A s \in Owed(p) :
                 /\ ppc'[p] \in {"single", "single_ref"} => ~ IsWild(s)
                 /\ ppc'[p] = "single_ref" /\ sub[s].pattern = SubjectAt(p, 1) => chosen'[p] = s)
              => Served(p)'
<1>1. /\ pending[p] = NoPending /\ last_sub_ids[p] = {} /\ sub_cache[p] = {} /\ visit[p] = {}
      /\ items[p] # <<>> /\ items[p] \in Seq(Msgs)
  BY DEF Own, Typed, Publisher, Stage, Before, Grouping, Routing, Matching, AtItem, Looping
<1>2. \A q \in Seq(Msgs) : 1 \in 1..(Len(q) + 1)
  BY SMT
<1>3. 1..(1 - 1) = {} /\ ~ (1 > 1)
  BY SMT
<1>4. 1 \in 1..(Len(items'[p]) + 1) /\ items'[p] # <<>>
  BY <1>1, <1>2 DEF Steady
<1>5. Stage(p)'
  BY <1>1, <1>4 DEF Stage, NoPending, Before, Grouping, Routing, Matching, AtItem, Looping
<1>6. \A s \in SubIds : pending'[p][s] = <<>>
  BY <1>1 DEF NoPending
<1>7. \A s \in SubIds : Collected(p, s)' = {}
  BY <1>6, ElemsNone DEF Collected
<1>8. Sound(p)'
  BY <1>1, <1>3, <1>7 DEF Sound, Grouping, Routing, Matching
<1>9. Silent(p)'
  <2>1. Silent(p)
    BY DEF Own, Publisher
  <2> QED
    BY <2>1 DEF Silent, Steady
<1>10. ASSUME \A s \in Owed(p) :
                 /\ ppc'[p] \in {"single", "single_ref"} => ~ IsWild(s)
                 /\ ppc'[p] = "single_ref" /\ sub[s].pattern = SubjectAt(p, 1) => chosen'[p] = s
       PROVE  Served(p)'
  <2>1. expected[p] \subseteq acked
    BY DEF Own, Publisher, Served
  <2>2. ASSUME NEW s \in Owed(p)'
        PROVE  /\ ppc'[p] \in {"single", "single_ref"} => ~ IsWild(s)'
               /\ ppc'[p] = "single_ref" /\ sub'[s].pattern = SubjectAt(p, 1)' => chosen'[p] = s
    BY <1>10, <2>2 DEF Steady
  <2>3. 1..(item'[p] - 1) = {} /\ ~ (item'[p] > 1)
    BY <1>3
  <2>4. expected'[p] \subseteq acked'
    BY <2>1 DEF Steady
  <2> QED
    BY <2>2, <2>3, <2>4 DEF Served, Grouping, Routing, Matching, AtItem, Looping
<1> QED
  BY <1>5, <1>8, <1>9, <1>10

\* router_has_wildcards lets a publisher try the fast path: no wildcard subscription is owed then.
LEMMA FastFlagStep ==
    ASSUME CoreInv, NEW p \in Publishers, PublishSteps(p), FastFlag(p)
    PROVE  Own(p)'
<1>1. Own(p) /\ TableInv /\ ppc \in [Publishers -> PPC] /\ item \in [Publishers -> Nat]
  BY OwnFacts DEF PubTypeOK
<1>2. Steady(p)
  BY StaysSteady DEF FastFlag, history
<1>3. /\ ppc[p] = "batch" /\ ppc'[p] = (IF has_wildcards THEN "next" ELSE "single") /\ item'[p] = 1
      /\ last_sub_ids'[p] = last_sub_ids[p] /\ visit'[p] = visit[p]
      /\ sub_cache'[p] = sub_cache[p] /\ pending'[p] = pending[p] /\ chosen'[p] = chosen[p]
  BY <1>1 DEF FastFlag, PGoto
<1>4. Typed(p)'
  <2>1. item'[p] \in Nat
    BY <1>3, SMT
  <2> QED
    BY <1>1, <1>2, <1>3, <2>1 DEF Own, Typed, Steady, PPC
<1>5. Holding(p)'
  BY <1>3 DEF Holding, Grouping
<1>6. ASSUME NEW s \in Owed(p), ~ has_wildcards PROVE ~ IsWild(s)
  BY <1>1, <1>6 DEF Owed, TableInv, FlagHolds
<1>7. Stage(p)' /\ Sound(p)' /\ Silent(p)' /\ Served(p)'
  BY <1>1, <1>2, <1>3, <1>6, BeforeTheLoop
<1> QED
  BY <1>4, <1>5, <1>7 DEF Own, Publisher

\* A literal subscription that is owed and matches the first subject is in the list of that
\* subject: when the list has one entry, it is the one.
LEMMA ExactSingleStep ==
    ASSUME CoreInv, NEW p \in Publishers, PublishSteps(p), ExactSingleSubscriber(p)
    PROVE  Own(p)'
<1>1. /\ Own(p) /\ IInv /\ TableInv /\ ppc \in [Publishers -> PPC]
      /\ chosen \in [Publishers -> 0..MaxSubs]
  BY OwnFacts DEF PubTypeOK
<1>2. Steady(p)
  BY StaysSteady DEF ExactSingleSubscriber, history
<1>3. /\ ppc[p] = "single" /\ item'[p] = item[p]
      /\ last_sub_ids'[p] = last_sub_ids[p] /\ visit'[p] = visit[p]
      /\ sub_cache'[p] = sub_cache[p] /\ pending'[p] = pending[p]
  BY <1>1 DEF ExactSingleSubscriber
<1>4. \/ /\ ppc'[p] = "single_ref" /\ chosen'[p] \in ExactIds(SubjectAt(p, 1))
         /\ ExactIds(SubjectAt(p, 1)) = {chosen'[p]}
      \/ ppc'[p] = "next" /\ chosen'[p] = chosen[p]
  BY <1>1 DEF ExactSingleSubscriber, PGoto
<1>5. items[p] \in Seq(Msgs) /\ item[p] = 1
  BY <1>1, <1>3 DEF Own, Typed, Publisher, Stage
<1>6. ppc'[p] = "single_ref" => chosen'[p] \in Ids /\ sub[chosen'[p]].pattern = SubjectAt(p, 1)
  BY <1>1, <1>4, KnownIds DEF ExactIds
<1>7. Typed(p)'
  <2>1. SubIds \subseteq 0..MaxSubs
    BY SMT DEF SubIds
  <2>2. chosen'[p] \in 0..MaxSubs
    BY <1>1, <1>4, <1>6, <2>1 DEF Ids
  <2> QED
    BY <1>1, <1>2, <1>3, <1>4, <2>2 DEF Own, Typed, Steady, PPC
<1>8. Holding(p)'
  BY <1>2, <1>4, <1>6 DEF Holding, Steady, Grouping
<1>9. ASSUME NEW s \in Owed(p) PROVE ~ IsWild(s)
  BY <1>1, <1>3, <1>9 DEF Own, Publisher, Served
<1>10. ASSUME NEW s \in Owed(p), sub[s].pattern = SubjectAt(p, 1) PROVE s \in ExactIds(SubjectAt(p, 1))
  BY <1>1, <1>9, <1>10 DEF Owed, IInv, RegisteredIsReachable, Routed, ExactIds
<1>11. Stage(p)' /\ Sound(p)' /\ Silent(p)' /\ Served(p)'
  BY <1>1, <1>2, <1>3, <1>4, <1>5, <1>9, <1>10, BeforeTheLoop
<1> QED
  BY <1>7, <1>8, <1>11 DEF Own, Publisher

\* The fast path hands the whole batch to the one subscriber of its one subject: nobody else
\* that is owed matches it.
LEMMA FastRefStep ==
    ASSUME CoreInv, NEW p \in Publishers, PublishSteps(p), FastRef(p)
    PROVE  Own(p)'
<1>1. /\ Own(p) /\ IInv /\ ppc \in [Publishers -> PPC]
      /\ pending \in [Publishers -> [SubIds -> Seq(Msgs)]]
  BY OwnFacts DEF PubTypeOK
<1>2. Steady(p)
  BY StaysSteady DEF FastRef, history
<1>0. PICK t : t = chosen[p]
  OBVIOUS
<1> DEFINE applies == /\ t \in subscriptions
                      /\ ~ Grouped(t)
                      /\ \A i \in DOMAIN items[p] : SubjectAt(p, i) = SubjectAt(p, 1)
<1>3. /\ ppc[p] = "single_ref" /\ item'[p] = item[p]
      /\ last_sub_ids'[p] = last_sub_ids[p] /\ visit'[p] = visit[p]
      /\ sub_cache'[p] = sub_cache[p] /\ chosen'[p] = t
      /\ ppc'[p] = (IF applies THEN "send" ELSE "next")
      /\ pending'[p] = (IF applies THEN [pending[p] EXCEPT ![t] = items[p]] ELSE pending[p])
  BY <1>0, <1>1 DEF FastRef, PGoto
<1>4. items[p] # <<>> /\ items[p] \in Seq(Msgs) /\ item[p] = 1 /\ pending[p] = NoPending
  BY <1>1, <1>3 DEF Own, Typed, Publisher, Stage, Before
<1>5. t \in Ids /\ t \in SubIds /\ sub[t].pattern = SubjectAt(p, 1)
  BY <1>0, <1>1, <1>3 DEF Own, Publisher, Holding, Ids
<1>6. pending'[p] \in [SubIds -> Seq(Msgs)]
  BY <1>1, <1>3, <1>4
<1> HIDE DEF applies
<1>7. Typed(p)'
  BY <1>0, <1>1, <1>2, <1>3, <1>6 DEF Own, Typed, Steady, PPC
<1>8. CASE ~ applies
  <2>1. pending'[p] = pending[p] /\ ppc'[p] = "next"
    BY <1>3, <1>8
  <2>2. Holding(p)'
    BY <2>1 DEF Holding, Grouping
  <2>3. Stage(p)' /\ Sound(p)' /\ Silent(p)' /\ Served(p)'
    BY <1>1, <1>2, <1>3, <1>4, <2>1, BeforeTheLoop
  <2> QED
    BY <1>7, <2>2, <2>3 DEF Own, Publisher
<1>9. CASE applies
  <2>1. /\ ppc'[p] = "send" /\ pending'[p][t] = items[p]
        /\ \A s \in SubIds \ {t} : pending'[p][s] = <<>>
    BY <1>3, <1>4, <1>5, <1>9 DEF NoPending
  <2>2. /\ \A s \in SubIds \ {t} : Collected(p, s)' = {}
        /\ Collected(p, t)' = Batch(p)
    BY <2>1, ElemsNone DEF Collected, Batch
  <2>3. \A m \in Batch(p) : subject[m] = SubjectAt(p, 1)
    BY <1>9 DEF applies, Batch, Elems, SubjectAt
  <2>4. Stage(p)'
    BY <1>1, <1>2, <1>3, <1>4, <2>1 DEF Own, Publisher, Stage, Steady, Before, Grouping, Routing,
       Matching, AtItem, Looping
  <2>5. Holding(p)'
    BY <1>2, <1>3, <1>4, <1>5, <2>1 DEF Holding, Grouping
  <2>6. Sound(p)'
    <3>1. \A m \in Batch(p) : Matches(t, subject[m])
      BY <1>5, <2>3 DEF Matches
    <3>2. ASSUME NEW s \in SubIds, NEW m \in Collected(p, s)'
          PROVE  (s \in Ids /\ ~ Grouped(s) /\ m \in Batch(p) /\ Matches(s, subject[m]))'
      <4>1. s = t /\ m \in Batch(p)
        BY <2>2, <3>2
      <4>2. s \in Ids /\ ~ Grouped(s) /\ Matches(s, subject[m])
        BY <1>5, <1>9, <3>1, <4>1 DEF applies
      <4>3. Matches(s, subject[m])'
        BY <1>2, <4>2 DEF Steady, Matches
      <4> QED
        BY <1>2, <4>1, <4>2, <4>3 DEF Steady
    <3> QED
      BY <1>1, <1>2, <1>3, <2>1, <3>2 DEF Sound, Own, Publisher, Steady, Matching, Routing,
         Grouping
  <2>7. Silent(p)'
    <3>1. t \notin gone[p]
      BY <1>1, <1>9 DEF applies, Own, Publisher, Silent
    <3>2. \A s \in gone[p] : pending'[p][s] = <<>>
      BY <1>1, <2>1, <3>1 DEF Own, Typed
    <3> QED
      BY <1>1, <1>2, <1>3, <2>1, <3>2 DEF Silent, Own, Publisher, Steady
  <2>8. Served(p)'
    <3>1. ASSUME NEW s \in Owed(p), NEW m \in Due(p, s) PROVE m \in Collected(p, s)'
      <4>1. m \in Batch(p) /\ Matches(s, subject[m])
        BY <3>1 DEF Due, Batch, Elems
      <4>2. ~ IsWild(s) /\ (sub[s].pattern = SubjectAt(p, 1) => t = s)
        BY <1>0, <1>1, <1>3 DEF Own, Publisher, Served
      <4>3. sub[s].pattern = subject[m]
        BY <4>1, <4>2, CoreAssumption DEF Matches, IsWild
      <4> QED
        BY <2>2, <2>3, <4>1, <4>2, <4>3
    <3> QED
      BY <1>1, <1>2, <1>3, <2>1, <3>1, ZenonT(40) DEF Own, Publisher, Served, Steady, Before,
         Grouping, Routing, Matching, AtItem, Looping
  <2> QED
    BY <1>7, <2>4, <2>5, <2>6, <2>7, <2>8 DEF Own, Publisher
<1> QED
  BY <1>8, <1>9

\* Going on to the next item: a match result used again is one for the same subject, and when
\* the loop ends everything owed has been collected.
LEMMA NextItemStep ==
    ASSUME CoreInv, NEW p \in Publishers, PublishSteps(p), NextItem(p)
    PROVE  Own(p)'
<1>1. /\ Own(p) /\ ppc \in [Publishers -> PPC]
      /\ visit \in [Publishers -> SUBSET SubIds] /\ last_sub_ids \in [Publishers -> SUBSET SubIds]
      /\ sub_cache \in [Publishers -> SUBSET SubIds]
  BY OwnFacts DEF PubTypeOK
<1>2. Steady(p)
  BY StaysSteady DEF NextItem, history
<1>0. PICK i : i = item[p]
  OBVIOUS
<1> DEFINE cached == i > 1 /\ SubjectAt(p, i) = SubjectAt(p, i - 1)
           over == i > Len(items[p])
<1>3. /\ ppc[p] = "next" /\ item'[p] = i /\ pending'[p] = pending[p] /\ chosen'[p] = chosen[p]
      /\ ppc'[p] = (IF over THEN "flush" ELSE IF cached THEN "route" ELSE "match")
      /\ visit'[p] = (IF i <= Len(items[p]) /\ cached THEN last_sub_ids[p] ELSE {})
      /\ last_sub_ids'[p] = (IF over THEN {} ELSE last_sub_ids[p])
      /\ sub_cache'[p] = (IF over THEN {} ELSE sub_cache[p])
  BY <1>0, <1>1 DEF NextItem, PGoto
<1>4. /\ items[p] \in Seq(Msgs) /\ items[p] # <<>> /\ Len(items[p]) \in Nat /\ i \in Nat
      /\ i \in 1..(Len(items[p]) + 1) /\ DOMAIN items[p] = 1..Len(items[p])
  <2>1. items[p] \in Seq(Msgs) /\ items[p] # <<>> /\ i \in Nat /\ i \in 1..(Len(items[p]) + 1)
    BY <1>0, <1>1, <1>3 DEF Own, Typed, Publisher, Stage
  <2>2. \A q \in Seq(Msgs) : Len(q) \in Nat /\ DOMAIN q = 1..Len(q)
    BY SMT
  <2> QED
    BY <2>1, <2>2
<1>5. \A s : Collected(p, s)' = Collected(p, s)
  BY <1>3 DEF Collected
<1>6. /\ last_sub_ids[p] \subseteq Ids
      /\ i > 1 => \A s \in last_sub_ids[p] : Matches(s, SubjectAt(p, i - 1))
      /\ \A s \in SubIds : \A m \in Collected(p, s) :
            s \in Ids /\ ~ Grouped(s) /\ m \in Batch(p) /\ Matches(s, subject[m])
  BY <1>0, <1>1, <1>3 DEF Own, Publisher, Sound
<1>7. ASSUME NEW s \in Owed(p)
      PROVE  /\ \A j \in 1..(i - 1) : Matches(s, SubjectAt(p, j)) => items[p][j] \in Collected(p, s)
             /\ i > 1 /\ Matches(s, SubjectAt(p, i - 1)) => s \in last_sub_ids[p]
  BY <1>0, <1>1, <1>3 DEF Own, Publisher, Served, Looping
<1>8. /\ gone[p] \subseteq acked \ subscriptions
      /\ \A s \in gone[p] : s \notin sub_cache[p] /\ pending[p][s] = <<>>
      /\ expected[p] \subseteq acked
  BY <1>1 DEF Own, Publisher, Silent, Served
<1>9. ASSUME NEW s \in SubIds, NEW m \in Collected(p, s)'
      PROVE  (s \in Ids /\ ~ Grouped(s) /\ m \in Batch(p) /\ Matches(s, subject[m]))'
  <2>1. s \in Ids /\ ~ Grouped(s) /\ m \in Batch(p) /\ Matches(s, subject[m])
    BY <1>5, <1>6, <1>9
  <2> QED
    BY <1>2, <2>1 DEF Steady, Matches
<1>10. Typed(p)'
  BY <1>1, <1>2, <1>3, <1>4 DEF Own, Typed, Steady, PPC
<1>11. Silent(p)'
  BY <1>2, <1>3, <1>8 DEF Silent, Steady
<1> HIDE DEF cached, over
<1>12. CASE over
  <2>1. /\ ppc'[p] = "flush" /\ visit'[p] = {} /\ last_sub_ids'[p] = {} /\ sub_cache'[p] = {}
        /\ i - 1 = Len(items[p])
    <3>1. \A n \in Nat : i \in 1..(n + 1) /\ i > n => i - 1 = n /\ ~ (i <= n)
      BY SMT
    <3> QED
      BY <1>3, <1>4, <1>12, <3>1 DEF over
  <2>2. Stage(p)' /\ Holding(p)'
    BY <1>2, <1>3, <1>4, <2>1 DEF Stage, Holding, Steady, Before, Grouping, Routing, Matching,
       AtItem, Looping
  <2>3. Sound(p)'
    BY <1>9, <2>1 DEF Sound, Before, Grouping, Routing, Matching, AtItem, Looping
  <2>4. ASSUME NEW s \in Owed(p), NEW m \in Due(p, s) PROVE m \in Collected(p, s)
    <3>1. PICK j \in 1..(i - 1) : m = items[p][j]
      BY <1>4, <2>1, <2>4 DEF Due
    <3> QED
      BY <1>7, <2>4, <3>1 DEF Due, SubjectAt
  <2>5. expected'[p] \subseteq acked' /\ Owed(p)' = Owed(p) /\ items'[p] = items[p]
        /\ \A s : Due(p, s)' = Due(p, s)
    BY <1>2, <1>8 DEF Steady
  <2>6. Served(p)'
    BY <1>5, <2>1, <2>4, <2>5 DEF Served, Grouping, Routing, Matching, AtItem, Looping
  <2> QED
    BY <1>10, <1>11, <2>2, <2>3, <2>6 DEF Own, Publisher
<1>13. CASE ~ over /\ cached
  <2>1. /\ ppc'[p] = "route" /\ visit'[p] = last_sub_ids[p] /\ last_sub_ids'[p] = last_sub_ids[p]
        /\ sub_cache'[p] = sub_cache[p] /\ i \in 1..Len(items[p]) /\ i > 1
        /\ SubjectAt(p, i) = SubjectAt(p, i - 1)
    <3>1. \A n \in Nat : i \in 1..(n + 1) /\ ~ (i > n) => i \in 1..n /\ i <= n
      BY SMT
    <3> QED
      BY <1>3, <1>4, <1>13, <3>1 DEF over, cached
  <2>2. Stage(p)' /\ Holding(p)'
    BY <1>2, <1>3, <1>4, <2>1 DEF Stage, Holding, Steady, Before, Grouping, Routing, Matching,
       AtItem, Looping
  <2>3. ASSUME NEW s \in last_sub_ids[p] PROVE s \in Ids' /\ Matches(s, SubjectAt(p, item[p]))'
    <3>1. s \in Ids /\ Matches(s, SubjectAt(p, i))
      BY <1>6, <2>1, <2>3
    <3> QED
      BY <1>2, <1>3, <3>1 DEF Steady, Matches, SubjectAt
  <2>4. Sound(p)'
    BY <1>9, <2>1, <2>3 DEF Sound, Before, Grouping, Routing, Matching, AtItem, Looping
  <2>5. ASSUME NEW s \in Owed(p), Matches(s, SubjectAt(p, item[p]))' PROVE s \in last_sub_ids[p]
    <3>1. Matches(s, SubjectAt(p, i))
      BY <1>2, <1>3, <2>5 DEF Steady, Matches, SubjectAt
    <3> QED
      BY <1>7, <2>1, <2>5, <3>1
  <2>6. ASSUME NEW s \in Owed(p), NEW j \in 1..(i - 1), Matches(s, SubjectAt(p, j))'
        PROVE  items[p][j] \in Collected(p, s)
    BY <1>2, <1>7, <2>6 DEF Steady, Matches
  <2>7. expected'[p] \subseteq acked' /\ Owed(p)' = Owed(p) /\ items'[p] = items[p]
        /\ \A s : Due(p, s)' = Due(p, s)
    BY <1>2, <1>8 DEF Steady
  <2>8. Served(p)'
    BY <1>3, <1>5, <2>1, <2>5, <2>6, <2>7, ZenonT(40) DEF Served, Grouping, Routing, Matching,
       AtItem, Looping
  <2> QED
    BY <1>10, <1>11, <2>2, <2>4, <2>8 DEF Own, Publisher
<1>14. CASE ~ over /\ ~ cached
  <2>1. /\ ppc'[p] = "match" /\ visit'[p] = {} /\ last_sub_ids'[p] = last_sub_ids[p]
        /\ sub_cache'[p] = sub_cache[p] /\ i \in 1..Len(items[p])
    <3>1. \A n \in Nat : i \in 1..(n + 1) /\ ~ (i > n) => i \in 1..n
      BY SMT
    <3> QED
      BY <1>3, <1>4, <1>14, <3>1 DEF over
  <2>2. Stage(p)' /\ Holding(p)'
    BY <1>2, <1>3, <1>4, <2>1 DEF Stage, Holding, Steady, Before, Grouping, Routing, Matching,
       AtItem, Looping
  <2>3. Sound(p)'
    BY <1>2, <1>6, <1>9, <2>1 DEF Sound, Steady, Before, Grouping, Routing, Matching, AtItem,
       Looping
  <2>4. ASSUME NEW s \in Owed(p), NEW j \in 1..(i - 1), Matches(s, SubjectAt(p, j))'
        PROVE  items[p][j] \in Collected(p, s)
    BY <1>2, <1>7, <2>4 DEF Steady, Matches
  <2>5. expected'[p] \subseteq acked' /\ Owed(p)' = Owed(p) /\ items'[p] = items[p]
        /\ \A s : Due(p, s)' = Due(p, s)
    BY <1>2, <1>8 DEF Steady
  <2>6. /\ ppc'[p] \notin Matching \cup Routing
        /\ ppc'[p] \notin {"single", "single_ref", "next", "no_subs", "flush", "send", "done"}
    BY <2>1 DEF Grouping, Routing, Matching
  <2>7. ASSUME NEW s \in Owed(p)', NEW j \in 1..(item'[p] - 1), Matches(s, SubjectAt(p, j))'
        PROVE  items'[p][j] \in Collected(p, s)'
    BY <1>3, <1>5, <2>4, <2>5, <2>7
  <2>8. Served(p)'
    BY <2>5, <2>6, <2>7 DEF Served
  <2> QED
    BY <1>10, <1>11, <2>2, <2>3, <2>8 DEF Own, Publisher
<1> QED
  BY <1>12, <1>13, <1>14

\* What has been collected stays right while nothing is added to it.
LEMMA CollectedStays ==
    ASSUME NEW p \in Publishers, Own(p), Steady(p), pending'[p] = pending[p]
    PROVE  /\ \A s : Collected(p, s)' = Collected(p, s)
           /\ \A s \in SubIds : \A m \in Collected(p, s)' :
                 (s \in Ids /\ ~ Grouped(s) /\ m \in Batch(p) /\ Matches(s, subject[m]))'
<1>1. \A s : Collected(p, s)' = Collected(p, s)
  BY DEF Collected
<1>2. ASSUME NEW s \in SubIds, NEW m \in Collected(p, s)
      PROVE  (s \in Ids /\ ~ Grouped(s) /\ m \in Batch(p) /\ Matches(s, subject[m]))'
  <2>1. s \in Ids /\ ~ Grouped(s) /\ m \in Batch(p) /\ Matches(s, subject[m])
    BY <1>2 DEF Own, Publisher, Sound
  <2> QED
    BY <2>1 DEF Steady, Matches
<1> QED
  BY <1>1, <1>2

\* What was collected for the items before the current one stays collected.
LEMMA EarlierStay ==
    ASSUME NEW p \in Publishers, Own(p), Steady(p), ppc[p] \in Looping, NEW s \in Owed(p),
           Collected(p, s) \subseteq Collected(p, s)'
    PROVE  \A j \in 1..(item[p] - 1) :
               Matches(s, SubjectAt(p, j))' => items[p][j] \in Collected(p, s)'
BY DEF Own, Publisher, Served, Steady, Matches

\* Where the current item is, and the publisher's other bounds.
LEMMA ItemInBatch ==
    ASSUME NEW p \in Publishers, Own(p), ppc[p] \in AtItem
    PROVE  /\ item[p] \in Nat /\ item[p] \in 1..Len(items[p])
           /\ items[p] \in Seq(Msgs) /\ items[p] # <<>> /\ Len(items[p]) \in Nat
           /\ items[p][item[p]] \in Msgs /\ items[p][item[p]] \in Batch(p)
<1>1. item[p] \in Nat /\ item[p] \in 1..Len(items[p]) /\ items[p] \in Seq(Msgs)
  BY DEF Own, Typed, Publisher, Stage
<1>2. Len(items[p]) \in Nat /\ items[p] # <<>> /\ DOMAIN items[p] = 1..Len(items[p]) /\ items[p][item[p]] \in Msgs
  BY <1>1, SMT
<1> QED
  BY <1>1, <1>2 DEF Batch, Elems

\* What was gone is still gone and not collected, as long as it is not looked up.
LEMMA SilentStays ==
    ASSUME NEW p \in Publishers, Own(p), Steady(p), pending'[p] = pending[p],
           sub_cache'[p] = sub_cache[p], ppc'[p] = "offer" => chosen'[p] \notin gone[p]
    PROVE  Silent(p)' /\ expected'[p] \subseteq acked'
BY DEF Own, Publisher, Silent, Served, Steady

\* The list of a literal pattern holds every literal subscription that is owed the item.
LEMMA MatchExactStep ==
    ASSUME CoreInv, NEW p \in Publishers, PublishSteps(p), MatchExact(p)
    PROVE  Own(p)'
<1>1. /\ Own(p) /\ IInv /\ ppc \in [Publishers -> PPC]
      /\ visit \in [Publishers -> SUBSET SubIds] /\ last_sub_ids \in [Publishers -> SUBSET SubIds]
  BY OwnFacts DEF PubTypeOK
<1>2. Steady(p)
  BY StaysSteady DEF MatchExact, history
<1>0. PICK i, ids : i = item[p] /\ ids = ExactIds(SubjectAt(p, i))
  OBVIOUS
<1>3. /\ ppc[p] = "match" /\ ppc'[p] = "match_flag" /\ item'[p] = i /\ pending'[p] = pending[p]
      /\ chosen'[p] = chosen[p] /\ visit'[p] = ids /\ last_sub_ids'[p] = ids
      /\ sub_cache'[p] = sub_cache[p]
  BY <1>0, <1>1 DEF MatchExact, PGoto
<1>4. i \in Nat /\ i \in 1..Len(items[p]) /\ items[p] # <<>>
  BY <1>0, <1>1, <1>3, ItemInBatch DEF AtItem
<1>5. \A s \in ids : s \in Ids /\ Matches(s, SubjectAt(p, i))
  BY <1>0, <1>1, KnownIds DEF ExactIds, Matches
<1>6. ASSUME NEW s \in Owed(p), ~ IsWild(s), Matches(s, SubjectAt(p, i)) PROVE s \in ids
  <2>1. sub[s].pattern = SubjectAt(p, i)
    BY <1>6, CoreAssumption DEF Matches, IsWild
  <2>2. s \in exact
    BY <1>1, <1>6 DEF Owed, IInv, RegisteredIsReachable, Routed
  <2> QED
    BY <1>0, <2>1, <2>2 DEF ExactIds
<1>7. Typed(p)'
  <2>1. ids \subseteq SubIds
    BY <1>5 DEF Ids
  <2> QED
    BY <1>1, <1>2, <1>3, <1>4, <2>1 DEF Own, Typed, Steady, PPC
<1>8. Stage(p)' /\ Holding(p)'
  BY <1>2, <1>3, <1>4 DEF Stage, Holding, Steady, Before, Grouping, Routing, Matching, AtItem,
     Looping
<1>9. Sound(p)'
  <2>1. \A s \in ids : s \in Ids' /\ Matches(s, SubjectAt(p, item[p]))'
    BY <1>2, <1>3, <1>5 DEF Steady, Matches, SubjectAt
  <2> QED
    BY <1>1, <1>2, <1>3, <2>1, CollectedStays DEF Sound, Before, Grouping, Routing, Matching,
       AtItem, Looping
<1>10. Silent(p)' /\ expected'[p] \subseteq acked'
  BY <1>1, <1>2, <1>3, SilentStays
<1>11. Served(p)'
  <2>1. ASSUME NEW s \in Owed(p), ~ IsWild(s)', Matches(s, SubjectAt(p, item[p]))' PROVE s \in ids
    BY <1>2, <1>3, <1>6, <2>1 DEF Steady, Matches, SubjectAt
  <2>2. ASSUME NEW s \in Owed(p), NEW j \in 1..(i - 1), Matches(s, SubjectAt(p, j))'
        PROVE  items'[p][j] \in Collected(p, s)'
    BY <1>0, <1>1, <1>2, <1>3, <2>2, EarlierStay, CollectedStays DEF Looping, AtItem, Steady
  <2> QED
    BY <1>2, <1>3, <1>10, <2>1, <2>2 DEF Served, Steady, Before, Grouping, Routing, Matching,
       AtItem, Looping
<1> QED
  BY <1>7, <1>8, <1>9, <1>10, <1>11 DEF Own, Publisher

\* The flag is read: when it is down, no wildcard subscription is owed.
LEMMA MatchFlagStep ==
    ASSUME CoreInv, NEW p \in Publishers, PublishSteps(p), MatchFlag(p)
    PROVE  Own(p)'
<1>1. Own(p) /\ TableInv /\ ppc \in [Publishers -> PPC]
  BY OwnFacts DEF PubTypeOK
<1>2. Steady(p)
  BY StaysSteady DEF MatchFlag, history, batchVars
<1>0. PICK i, ids : i = item[p] /\ ids = last_sub_ids[p]
  OBVIOUS
<1>3. /\ ppc[p] = "match_flag" /\ ppc'[p] = (IF has_wildcards THEN "match_trie" ELSE "route")
      /\ item'[p] = i /\ pending'[p] = pending[p]
      /\ chosen'[p] = chosen[p] /\ visit'[p] = visit[p] /\ last_sub_ids'[p] = ids
      /\ sub_cache'[p] = sub_cache[p]
  BY <1>0, <1>1 DEF MatchFlag, PGoto, batchVars
<1>4. i \in Nat /\ i \in 1..Len(items[p]) /\ items[p] # <<>>
  BY <1>0, <1>1, <1>3, ItemInBatch DEF AtItem, Matching
<1>5. visit[p] = ids /\ \A s \in ids : s \in Ids /\ Matches(s, SubjectAt(p, i))
  BY <1>0, <1>1, <1>3 DEF Own, Publisher, Stage, Sound, Matching
<1>6. ASSUME NEW s \in Owed(p), Matches(s, SubjectAt(p, i)), ~ has_wildcards \/ ~ IsWild(s) PROVE s \in ids
  <2>1. ~ IsWild(s)
    BY <1>1, <1>6 DEF Owed, TableInv, FlagHolds
  <2> QED
    BY <1>0, <1>1, <1>3, <1>5, <1>6, <2>1 DEF Own, Publisher, Served, Matching
<1>7. Typed(p)'
  BY <1>0, <1>1, <1>2, <1>3 DEF Own, Typed, Steady, PPC
<1>8. Stage(p)' /\ Holding(p)'
  BY <1>2, <1>3, <1>4, <1>5 DEF Stage, Holding, Steady, Before, Grouping, Routing, Matching,
     AtItem, Looping
<1>9. Sound(p)'
  <2>1. \A s \in ids : s \in Ids' /\ Matches(s, SubjectAt(p, item[p]))'
    BY <1>2, <1>3, <1>5 DEF Steady, Matches, SubjectAt
  <2> QED
    BY <1>1, <1>2, <1>3, <2>1, CollectedStays DEF Sound, Before, Grouping, Routing, Matching,
       AtItem, Looping
<1>10. Silent(p)' /\ expected'[p] \subseteq acked'
  BY <1>1, <1>2, <1>3, SilentStays
<1>11. Served(p)'
  <2>1. ASSUME NEW s \in Owed(p), Matches(s, SubjectAt(p, item[p]))', ~ has_wildcards \/ ~ IsWild(s)'
        PROVE  s \in ids
    BY <1>2, <1>3, <1>6, <2>1 DEF Steady, Matches, SubjectAt
  <2>2. ASSUME NEW s \in Owed(p), NEW j \in 1..(i - 1), Matches(s, SubjectAt(p, j))'
        PROVE  items'[p][j] \in Collected(p, s)'
    BY <1>0, <1>1, <1>2, <1>3, <2>2, EarlierStay, CollectedStays DEF Looping, AtItem, Matching,
       Steady
  <2> QED
    BY <1>2, <1>3, <1>5, <1>10, <2>1, <2>2 DEF Served, Steady, Before, Grouping, Routing,
       Matching, AtItem, Looping
<1> QED
  BY <1>7, <1>8, <1>9, <1>10, <1>11 DEF Own, Publisher

\* The trie holds every wildcard subscription that is owed the item.
LEMMA MatchTrieStep ==
    ASSUME CoreInv, NEW p \in Publishers, PublishSteps(p), MatchTrie(p)
    PROVE  Own(p)'
<1>1. /\ Own(p) /\ IInv /\ ppc \in [Publishers -> PPC]
      /\ visit \in [Publishers -> SUBSET SubIds] /\ last_sub_ids \in [Publishers -> SUBSET SubIds]
  BY OwnFacts DEF PubTypeOK
<1>2. Steady(p)
  BY StaysSteady DEF MatchTrie, history
<1>0. PICK i, ids : i = item[p] /\ ids = last_sub_ids[p] \cup {s \in wildcard_trie : Matches(s, SubjectAt(p, i))}
  OBVIOUS
<1>3. /\ ppc[p] = "match_trie" /\ ppc'[p] = "route" /\ item'[p] = i /\ pending'[p] = pending[p]
      /\ chosen'[p] = chosen[p] /\ visit'[p] = ids /\ last_sub_ids'[p] = ids
      /\ sub_cache'[p] = sub_cache[p]
  BY <1>0, <1>1 DEF MatchTrie, PGoto
<1>4. i \in Nat /\ i \in 1..Len(items[p]) /\ items[p] # <<>>
  BY <1>0, <1>1, <1>3, ItemInBatch DEF AtItem, Matching
<1>5. \A s \in ids : s \in Ids /\ Matches(s, SubjectAt(p, i))
  BY <1>0, <1>1, <1>3, KnownIds DEF Own, Publisher, Sound, Matching
<1>6. ASSUME NEW s \in Owed(p), Matches(s, SubjectAt(p, i)) PROVE s \in ids
  <2>1. CASE IsWild(s)
    <3>1. s \in wildcard_trie
      BY <1>1, <1>6, <2>1 DEF Owed, IInv, RegisteredIsReachable, Routed
    <3> QED
      BY <1>0, <1>6, <3>1
  <2>2. CASE ~ IsWild(s)
    BY <1>0, <1>1, <1>3, <1>6, <2>2 DEF Own, Publisher, Served, Stage, Matching
  <2> QED
    BY <2>1, <2>2
<1>7. Typed(p)'
  <2>1. ids \subseteq SubIds
    BY <1>5 DEF Ids
  <2> QED
    BY <1>1, <1>2, <1>3, <1>4, <2>1 DEF Own, Typed, Steady, PPC
<1>8. Stage(p)' /\ Holding(p)'
  BY <1>2, <1>3, <1>4 DEF Stage, Holding, Steady, Before, Grouping, Routing, Matching, AtItem,
     Looping
<1>9. Sound(p)'
  <2>1. \A s \in ids : s \in Ids' /\ Matches(s, SubjectAt(p, item[p]))'
    BY <1>2, <1>3, <1>5 DEF Steady, Matches, SubjectAt
  <2> QED
    BY <1>1, <1>2, <1>3, <2>1, CollectedStays DEF Sound, Before, Grouping, Routing, Matching,
       AtItem, Looping
<1>10. Silent(p)' /\ expected'[p] \subseteq acked'
  BY <1>1, <1>2, <1>3, SilentStays
<1>11. Served(p)'
  <2>1. ASSUME NEW s \in Owed(p), Matches(s, SubjectAt(p, item[p]))' PROVE s \in ids
    BY <1>2, <1>3, <1>6, <2>1 DEF Steady, Matches, SubjectAt
  <2>2. ASSUME NEW s \in Owed(p), NEW j \in 1..(i - 1), Matches(s, SubjectAt(p, j))'
        PROVE  items'[p][j] \in Collected(p, s)'
    BY <1>0, <1>1, <1>2, <1>3, <2>2, EarlierStay, CollectedStays, ZenonT(40) DEF Looping, AtItem,
       Matching, Steady
  <2> QED
    BY <1>2, <1>3, <1>10, <2>1, <2>2 DEF Served, Steady, Before, Grouping, Routing, Matching,
       AtItem, Looping
<1> QED
  BY <1>7, <1>8, <1>9, <1>10, <1>11 DEF Own, Publisher

\* deliver_matches for a queue group: only where the publisher stands and the handle it holds change.
LEMMA RoutingStays ==
    ASSUME NEW p \in Publishers, Own(p), Steady(p), ppc[p] \in Routing, ppc'[p] \in Routing,
           item'[p] = item[p], last_sub_ids'[p] = last_sub_ids[p], visit'[p] = visit[p],
           sub_cache'[p] = sub_cache[p], pending'[p] = pending[p], chosen'[p] \in 0..MaxSubs,
           ppc'[p] \in Grouping =>
               chosen'[p] \in Ids /\ Grouped(chosen'[p]) /\ Matches(chosen'[p], SubjectAt(p, item[p])),
           ppc'[p] = "offer" => chosen'[p] \notin gone[p]
    PROVE  Own(p)'
<1>0. PICK i, t : i = item[p] /\ t = chosen'[p]
  OBVIOUS
<1>1. /\ i \in Nat /\ i \in 1..Len(items[p]) /\ items[p] # <<>> /\ visit[p] \subseteq last_sub_ids[p]
      /\ \A s \in last_sub_ids[p] : s \in Ids /\ Matches(s, SubjectAt(p, i))
  BY <1>0, ItemInBatch DEF AtItem, Own, Publisher, Stage, Sound
<1>2. Typed(p)'
  BY DEF Own, Typed, Steady, PPC, Routing, Grouping
<1>3. Stage(p)'
  BY <1>0, <1>1 DEF Stage, Steady, Before, Grouping, Routing, Matching, AtItem, Looping
<1>4. Holding(p)'
  <2>1. ppc'[p] \in Grouping => t \in Ids' /\ Grouped(t)' /\ Matches(t, SubjectAt(p, i))'
    BY <1>0 DEF Steady, Matches
  <2>2. ppc'[p] \notin {"single_ref", "send"}
    BY DEF Routing, Grouping
  <2> QED
    BY <1>0, <2>1, <2>2 DEF Holding, Matches, Grouped, SubjectAt
<1>5. Sound(p)'
  <2>1. \A s \in last_sub_ids[p] : s \in Ids' /\ Matches(s, SubjectAt(p, item[p]))'
    BY <1>0, <1>1 DEF Steady, Matches, SubjectAt
  <2>2. ppc'[p] # "next"
    BY DEF Routing, Grouping
  <2> QED
    BY <2>1, <2>2, CollectedStays DEF Sound
<1>6. Silent(p)' /\ expected'[p] \subseteq acked'
  BY SilentStays
<1>7. Served(p)'
  <2>1. ASSUME NEW s \in Owed(p), Matches(s, SubjectAt(p, item[p]))'
        PROVE  s \in last_sub_ids[p] /\ (s \in visit[p] \/ items[p][item[p]] \in Collected(p, s))
    <3>1. Matches(s, SubjectAt(p, item[p]))
      BY <2>1 DEF Steady, Matches, SubjectAt
    <3> QED
      BY <2>1, <3>1 DEF Own, Publisher, Served
  <2>2. ASSUME NEW s \in Owed(p), NEW j \in 1..(item[p] - 1), Matches(s, SubjectAt(p, j))'
        PROVE  items'[p][j] \in Collected(p, s)'
    BY <2>2, EarlierStay, CollectedStays DEF Looping, AtItem, Steady
  <2>3. \A s : Collected(p, s)' = Collected(p, s)
    BY CollectedStays
  <2>4. ppc'[p] \notin {"no_subs", "single", "single_ref", "next", "flush", "send", "done"} \cup Matching
    BY DEF Routing, Grouping, Matching
  <2> QED
    BY <1>6, <2>1, <2>2, <2>3, <2>4 DEF Served, Steady
<1> QED
  BY <1>2, <1>3, <1>4, <1>5, <1>6, <1>7 DEF Own, Publisher

\* deliver_matches looks the id up: it holds the same handle.
LEMMA RegroupStep ==
    ASSUME CoreInv, NEW p \in Publishers, PublishSteps(p), Regroup(p)
    PROVE  Own(p)'
<1>1. Own(p) /\ ppc \in [Publishers -> PPC]
  BY OwnFacts DEF PubTypeOK
<1>2. Steady(p)
  BY StaysSteady DEF Regroup, history, batchVars
<1>3. /\ ppc[p] = "regroup" /\ ppc'[p] \in {"pick", "route"} /\ item'[p] = item[p]
      /\ pending'[p] = pending[p] /\ chosen'[p] = chosen[p] /\ visit'[p] = visit[p]
      /\ last_sub_ids'[p] = last_sub_ids[p] /\ sub_cache'[p] = sub_cache[p]
  BY <1>1 DEF Regroup, PGoto, batchVars
<1>4. /\ chosen[p] \in Ids /\ Grouped(chosen[p]) /\ Matches(chosen[p], SubjectAt(p, item[p]))
      /\ chosen[p] \in 0..MaxSubs
  BY <1>1, <1>3 DEF Own, Publisher, Holding, Typed, Grouping
<1>5. ppc[p] \in Routing /\ ppc'[p] \in Routing /\ ppc'[p] # "offer"
  BY <1>3 DEF Routing, Grouping
<1> QED
  BY <1>1, <1>2, <1>3, <1>4, <1>5, RoutingStays

\* deliver_to_subscriber: who is in the registry now was not gone when the batch was read.
LEMMA MemberStep ==
    ASSUME CoreInv, NEW p \in Publishers, PublishSteps(p), Member(p)
    PROVE  Own(p)'
<1>1. Own(p) /\ ppc \in [Publishers -> PPC]
  BY OwnFacts DEF PubTypeOK
<1>2. Steady(p)
  BY StaysSteady DEF Member, history, batchVars
<1>3. /\ ppc[p] = "member" /\ ppc'[p] = (IF chosen[p] \in subscriptions THEN "offer" ELSE "route")
      /\ item'[p] = item[p]
      /\ pending'[p] = pending[p] /\ chosen'[p] = chosen[p] /\ visit'[p] = visit[p]
      /\ last_sub_ids'[p] = last_sub_ids[p] /\ sub_cache'[p] = sub_cache[p]
  BY <1>1 DEF Member, PGoto, batchVars
<1>4. /\ chosen[p] \in Ids /\ Grouped(chosen[p]) /\ Matches(chosen[p], SubjectAt(p, item[p]))
      /\ chosen[p] \in 0..MaxSubs
  BY <1>1, <1>3 DEF Own, Publisher, Holding, Typed, Grouping
<1>5. ppc[p] \in Routing /\ ppc'[p] \in Routing
  BY <1>3 DEF Routing, Grouping
<1>6. ppc'[p] = "offer" => chosen[p] \notin gone[p]
  BY <1>1, <1>3 DEF Own, Publisher, Silent
<1> QED
  BY <1>1, <1>2, <1>3, <1>4, <1>5, <1>6, RoutingStays

\* The delivery to the member, accepted or refused, changes nothing else.
LEMMA OfferStep ==
    ASSUME CoreInv, NEW p \in Publishers, PublishSteps(p), Offer(p)
    PROVE  Own(p)'
<1>1. Own(p) /\ ppc \in [Publishers -> PPC]
  BY OwnFacts DEF PubTypeOK
<1>2. Steady(p)
  BY StaysSteady DEF Offer, history, batchVars
<1>3. /\ ppc[p] = "offer" /\ ppc'[p] = "route" /\ item'[p] = item[p]
      /\ pending'[p] = pending[p] /\ chosen'[p] = chosen[p] /\ visit'[p] = visit[p]
      /\ last_sub_ids'[p] = last_sub_ids[p] /\ sub_cache'[p] = sub_cache[p]
  BY <1>1 DEF Offer, PGoto, batchVars
<1>4. chosen[p] \in 0..MaxSubs
  BY <1>1 DEF Own, Typed
<1>5. ppc[p] \in Routing /\ ppc'[p] \in Routing /\ ppc'[p] \notin Grouping /\ ppc'[p] # "offer"
  BY <1>3 DEF Routing, Grouping
<1> QED
  BY <1>1, <1>2, <1>3, <1>4, <1>5, RoutingStays

\* One id of the match result: a registered plain subscription gets the item collected, a group
\* member goes to deliver_matches, and one that is not registered any more is owed nothing.
LEMMA RouteStep ==
    ASSUME CoreInv, NEW p \in Publishers, PublishSteps(p), NEW t \in SubIds, Route(p, t)
    PROVE  Own(p)'
<1>1. /\ Own(p) /\ ppc \in [Publishers -> PPC] /\ pending \in [Publishers -> [SubIds -> Seq(Msgs)]]
      /\ visit \in [Publishers -> SUBSET SubIds] /\ sub_cache \in [Publishers -> SUBSET SubIds]
      /\ chosen \in [Publishers -> 0..MaxSubs]
  BY OwnFacts DEF PubTypeOK
<1>2. Steady(p)
  BY StaysSteady DEF Route, history
<1>0. PICK i, m : i = item[p] /\ m = items[p][i]
  OBVIOUS
<1> DEFINE known == t \in sub_cache[p] \/ t \in subscriptions
<1>3. /\ ppc[p] = "route" /\ item'[p] = i /\ t \in visit[p] /\ visit'[p] = visit[p] \ {t}
      /\ sub_cache'[p] = (IF known THEN sub_cache[p] \cup {t} ELSE sub_cache[p])
      /\ last_sub_ids'[p] = last_sub_ids[p]
  BY <1>0, <1>1 DEF Route
<1>4. \/ /\ known /\ Grouped(t) /\ chosen'[p] = t /\ ppc'[p] = "regroup" /\ pending'[p] = pending[p]
      \/ /\ ~ (known /\ Grouped(t)) /\ chosen'[p] = chosen[p] /\ ppc'[p] = "route"
         /\ pending' = [pending EXCEPT ![p][t] = IF known THEN Append(@, m) ELSE @]
  BY <1>0, <1>1, <1>3 DEF Route, PGoto
<1>5. i \in Nat /\ i \in 1..Len(items[p]) /\ items[p] # <<>> /\ m \in Msgs /\ m \in Batch(p)
  BY <1>0, <1>1, <1>3, ItemInBatch DEF AtItem, Routing
<1>6. /\ visit[p] \subseteq last_sub_ids[p]
      /\ \A s \in last_sub_ids[p] : s \in Ids /\ Matches(s, SubjectAt(p, i))
  BY <1>0, <1>1, <1>3 DEF Own, Publisher, Stage, Sound, Routing
<1>7. t \in Ids /\ Matches(t, SubjectAt(p, i)) /\ Matches(t, subject[m])
  BY <1>0, <1>3, <1>6 DEF SubjectAt
<1>8. known => t \notin gone[p]
  BY <1>1 DEF Own, Publisher, Silent
<1>9. /\ \A s \in SubIds \ {t} : pending'[p][s] = pending[p][s]
      /\ pending'[p][t] = (IF known /\ ~ Grouped(t) THEN Append(pending[p][t], m) ELSE pending[p][t])
      /\ pending'[p] \in [SubIds -> Seq(Msgs)]
  <2>1. pending[p] \in [SubIds -> Seq(Msgs)] /\ pending[p][t] \in Seq(Msgs)
    BY <1>1
  <2>2. Append(pending[p][t], m) \in Seq(Msgs)
    BY <1>5, <2>1, SMT
  <2>3. CASE pending'[p] = pending[p] /\ Grouped(t)
    BY <2>1, <2>3
  <2>4. CASE ~ (known /\ Grouped(t)) /\ pending' = [pending EXCEPT ![p][t] = IF known THEN Append(@, m) ELSE @]
    <3>1. pending'[p] = [pending[p] EXCEPT ![t] = IF known THEN Append(pending[p][t], m) ELSE pending[p][t]]
      BY <1>1, <2>4
    <3> QED
      BY <2>1, <2>2, <2>4, <3>1, ZenonT(40)
  <2> QED
    BY <1>4, <2>3, <2>4
<1> HIDE DEF known
<1>10. /\ \A s \in SubIds \ {t} : Collected(p, s)' = Collected(p, s)
       /\ Collected(p, t)' = (IF known /\ ~ Grouped(t) THEN Collected(p, t) \cup {m} ELSE Collected(p, t))
  <2>1. \A s \in SubIds \ {t} : Collected(p, s)' = Collected(p, s)
    BY <1>9 DEF Collected
  <2>2. Elems(Append(pending[p][t], m)) = Elems(pending[p][t]) \cup {m}
    <3>1. pending[p][t] \in Seq(Msgs)
      BY <1>1
    <3> QED
      BY <1>5, <3>1, ElemsAppend, SMT
  <2>3. Collected(p, t)' = (IF known /\ ~ Grouped(t) THEN Collected(p, t) \cup {m} ELSE Collected(p, t))
    <3>1. CASE known /\ ~ Grouped(t)
      BY <1>9, <2>2, <3>1 DEF Collected
    <3>2. CASE ~ (known /\ ~ Grouped(t))
      BY <1>9, <3>2 DEF Collected
    <3> QED
      BY <3>1, <3>2
  <2> QED
    BY <2>1, <2>3
<1>11. Typed(p)'
  <2>1. ppc'[p] \in PPC /\ chosen'[p] \in 0..MaxSubs
    BY <1>1, <1>4, SMT DEF PPC, Own, Typed, SubIds
  <2>2. visit'[p] \subseteq SubIds /\ sub_cache'[p] \subseteq SubIds
    BY <1>1, <1>3 DEF Own, Typed
  <2> QED
    BY <1>1, <1>2, <1>3, <1>5, <1>9, <2>1, <2>2 DEF Own, Typed, Steady
<1>12. Stage(p)'
  <2>1. ppc'[p] \in Routing /\ ppc'[p] \in AtItem /\ ppc'[p] \in Looping
        /\ ppc'[p] \notin Before \cup {"done", "single", "single_ref", "next", "idle"} \cup Matching
    BY <1>4 DEF Before, Grouping, Routing, Matching, AtItem, Looping
  <2>2. visit'[p] \subseteq last_sub_ids'[p]
    BY <1>3, <1>6
  <2> QED
    BY <1>2, <1>3, <1>5, <2>1, <2>2 DEF Stage, Steady
<1>13. Holding(p)'
  <2>1. Matches(t, SubjectAt(p, item[p]))'
    BY <1>2, <1>3, <1>7 DEF Steady, Matches, SubjectAt
  <2>2. ppc'[p] \notin {"single_ref", "send"} /\ (ppc'[p] \in Grouping => chosen'[p] = t /\ Grouped(t))
    BY <1>4 DEF Grouping
  <2> QED
    BY <1>2, <1>7, <2>1, <2>2 DEF Holding, Steady, Matches
<1>14. Sound(p)'
  <2>1. \A s \in last_sub_ids[p] : s \in Ids' /\ Matches(s, SubjectAt(p, item[p]))'
    BY <1>2, <1>3, <1>6 DEF Steady, Matches, SubjectAt
  <2>2. ASSUME NEW s \in SubIds, NEW n \in Collected(p, s)'
        PROVE  s \in Ids /\ ~ Grouped(s) /\ n \in Batch(p) /\ Matches(s, subject[n])
    <3>1. n \in Collected(p, s) \/ (s = t /\ n = m /\ ~ Grouped(t))
      BY <1>10, <2>2
    <3> QED
      BY <1>1, <1>5, <1>7, <3>1 DEF Own, Publisher, Sound
  <2>3. ASSUME NEW s \in SubIds, NEW n \in Collected(p, s)'
        PROVE  (s \in Ids /\ ~ Grouped(s) /\ n \in Batch(p) /\ Matches(s, subject[n]))'
    BY <1>2, <2>2, <2>3 DEF Steady, Matches
  <2>4. ppc'[p] # "next"
    BY <1>4
  <2> QED
    BY <1>3, <2>1, <2>3, <2>4 DEF Sound
<1>15. Silent(p)'
  <2>1. gone[p] \subseteq acked \ subscriptions /\ \A s \in gone[p] : s \in SubIds /\ s \notin sub_cache[p] /\ pending[p][s] = <<>>
    BY <1>1 DEF Own, Typed, Publisher, Silent
  <2>2. \A s \in gone[p] : s \notin sub_cache'[p] /\ pending'[p][s] = <<>>
    <3>1. CASE known
      BY <1>3, <1>8, <1>9, <2>1, <3>1
    <3>2. CASE ~ known
      BY <1>3, <1>9, <2>1, <3>2
    <3> QED
      BY <3>1, <3>2
  <2>3. ppc'[p] # "offer"
    BY <1>4
  <2> QED
    BY <1>2, <2>1, <2>2, <2>3 DEF Silent, Steady
<1>16. Served(p)'
  <2>0. \A s \in SubIds : Collected(p, s) \subseteq Collected(p, s)'
    BY <1>10
  <2>1. ASSUME NEW s \in Owed(p), Matches(s, SubjectAt(p, item[p]))'
        PROVE  s \in last_sub_ids[p] /\ (s \in visit'[p] \/ m \in Collected(p, s)')
    <3>1. Matches(s, SubjectAt(p, i))
      BY <1>2, <1>3, <2>1 DEF Steady, Matches, SubjectAt
    <3>2. s \in last_sub_ids[p] /\ (s \in visit[p] \/ m \in Collected(p, s))
      BY <1>0, <1>1, <1>3, <2>1, <3>1 DEF Own, Publisher, Served, Routing
    <3>3. s \in SubIds /\ s \in subscriptions /\ ~ Grouped(s)
      BY <1>1 DEF Owed, Own, Typed
    <3>4. s = t => m \in Collected(p, s)'
      BY <1>10, <3>3 DEF known
    <3> QED
      BY <1>3, <2>0, <3>2, <3>3, <3>4
  <2>2. ASSUME NEW s \in Owed(p), NEW j \in 1..(item[p] - 1), Matches(s, SubjectAt(p, j))'
        PROVE  items'[p][j] \in Collected(p, s)'
    <3>1. s \in SubIds
      BY <1>1 DEF Owed, Own, Typed
    <3> QED
      BY <1>1, <1>2, <1>3, <2>0, <2>2, <3>1, EarlierStay DEF Looping, AtItem, Routing, Steady
  <2>4. ppc'[p] \notin {"no_subs", "single", "single_ref", "next", "flush", "send", "done"} \cup Matching
    BY <1>4 DEF Matching
  <2>5. expected[p] \subseteq acked
    BY <1>1 DEF Own, Publisher, Served
  <2> QED
    BY <1>0, <1>2, <1>3, <2>1, <2>2, <2>4, <2>5 DEF Served, Steady
<1> QED
  BY <1>11, <1>12, <1>13, <1>14, <1>15, <1>16 DEF Own, Publisher

\* The item is routed to everyone it was owed to.
LEMMA RouteDoneStep ==
    ASSUME CoreInv, NEW p \in Publishers, PublishSteps(p), RouteDone(p)
    PROVE  Own(p)'
<1>1. Own(p) /\ ppc \in [Publishers -> PPC] /\ item \in [Publishers -> Nat]
  BY OwnFacts DEF PubTypeOK
<1>2. Steady(p)
  BY StaysSteady DEF RouteDone, history
<1>0. PICK i : i = item[p]
  OBVIOUS
<1>3. /\ ppc[p] = "route" /\ ppc'[p] = "next" /\ item'[p] = i + 1 /\ visit[p] = {} /\ visit'[p] = {}
      /\ pending'[p] = pending[p] /\ chosen'[p] = chosen[p]
      /\ last_sub_ids'[p] = last_sub_ids[p] /\ sub_cache'[p] = sub_cache[p]
  BY <1>0, <1>1 DEF RouteDone, PGoto
<1>4. i \in Nat /\ i \in 1..Len(items[p]) /\ items[p] # <<>> /\ Len(items[p]) \in Nat
  BY <1>0, <1>1, <1>3, ItemInBatch DEF AtItem, Routing
<1>5. \A s \in last_sub_ids[p] : s \in Ids /\ Matches(s, SubjectAt(p, i))
  BY <1>0, <1>1, <1>3 DEF Own, Publisher, Sound, Routing
<1>6. i + 1 \in Nat /\ (i + 1) - 1 = i /\ i + 1 > 1 /\ i + 1 \in 1..(Len(items[p]) + 1) /\ i + 1 # 1
  BY <1>4, SMT
<1>7. Typed(p)'
  BY <1>1, <1>2, <1>3, <1>6 DEF Own, Typed, Steady, PPC
<1>8. Stage(p)'
  BY <1>2, <1>3, <1>4, <1>6 DEF Stage, Steady, Before, Grouping, Routing, Matching, AtItem,
     Looping
<1>9. Holding(p)'
  BY <1>3 DEF Holding, Grouping
<1>10. Sound(p)'
  <2>1. \A s \in last_sub_ids[p] : s \in Ids' /\ Matches(s, SubjectAt(p, item[p] - 1))'
    <3>1. item'[p] - 1 = i
      BY <1>3, <1>6
    <3> QED
      BY <1>2, <1>5, <3>1 DEF Steady, Matches, SubjectAt
  <2> QED
    BY <1>1, <1>2, <1>3, <2>1, CollectedStays DEF Sound, Before, Grouping, Routing, Matching,
       AtItem, Looping
<1>11. Silent(p)' /\ expected'[p] \subseteq acked'
  BY <1>1, <1>2, <1>3, SilentStays
<1>12. Served(p)'
  <2>1. ASSUME NEW s \in Owed(p), Matches(s, SubjectAt(p, i))
        PROVE  s \in last_sub_ids[p] /\ items[p][i] \in Collected(p, s)
    BY <1>0, <1>1, <1>3, <2>1 DEF Own, Publisher, Served, Routing
  <2>2. ASSUME NEW s \in Owed(p), Matches(s, SubjectAt(p, item[p] - 1))' PROVE s \in last_sub_ids[p]
    BY <1>2, <1>3, <1>6, <2>1, <2>2 DEF Steady, Matches, SubjectAt
  <2>3. ASSUME NEW s \in Owed(p), NEW j \in 1..i, Matches(s, SubjectAt(p, j))'
        PROVE  items'[p][j] \in Collected(p, s)'
    <3>1. CASE j = i
      BY <1>1, <1>2, <1>3, <2>1, <2>3, <3>1, CollectedStays DEF Steady, Matches, SubjectAt
    <3>2. CASE j # i
      <4>1. j \in 1..(i - 1)
        BY <1>4, <3>2, SMT
      <4> QED
        BY <1>0, <1>1, <1>2, <1>3, <2>3, <4>1, EarlierStay, CollectedStays DEF Looping, AtItem,
           Routing, Steady
    <3> QED
      BY <3>1, <3>2
  <2> QED
    BY <1>2, <1>3, <1>6, <1>11, <2>2, <2>3 DEF Served, Steady, Before, Grouping, Routing,
       Matching, AtItem, Looping
<1> QED
  BY <1>7, <1>8, <1>9, <1>10, <1>11, <1>12 DEF Own, Publisher

\* Stage 2 keeps what a publisher knows as long as what leaves `pending' is settled, or is for
\* a subscription that is not registered any more.
LEMMA FlushingStays ==
    ASSUME NEW p \in Publishers, Own(p), Steady(p),
           ppc[p] \in {"flush", "send"}, ppc'[p] \in {"flush", "send"},
           item'[p] = item[p], last_sub_ids'[p] = last_sub_ids[p], visit'[p] = visit[p],
           sub_cache'[p] = sub_cache[p], chosen'[p] \in 0..MaxSubs,
           ppc'[p] = "send" => chosen'[p] \in SubIds /\ pending'[p][chosen'[p]] # <<>>,
           pending'[p] \in [SubIds -> Seq(Msgs)],
           \A s \in SubIds : /\ Collected(p, s)' \subseteq Collected(p, s)
                             /\ pending[p][s] = <<>> => pending'[p][s] = <<>>,
           \A s \in Owed(p) : \A m \in Collected(p, s) : m \in Collected(p, s)' \/ Settled(s, m)',
           \A s \in SubIds : \A m : Settled(s, m) => Settled(s, m)'
    PROVE  Own(p)'
<1>1. /\ items[p] # <<>> /\ last_sub_ids[p] = {} /\ sub_cache[p] = {} /\ visit[p] = {}
      /\ gone[p] \subseteq acked \ subscriptions /\ gone[p] \subseteq SubIds
      /\ \A s \in gone[p] : pending[p][s] = <<>>
      /\ expected[p] \subseteq acked /\ expected[p] \subseteq SubIds
  BY DEF Own, Typed, Publisher, Stage, Silent, Served, Before, Grouping, Routing, Matching,
     AtItem, Looping
<1>2. /\ ppc'[p] \notin Before \cup Looping \cup AtItem \cup Matching \cup Routing \cup Grouping
      /\ ppc'[p] \notin {"idle", "single", "single_ref", "next", "done", "no_subs", "offer"}
      /\ ppc'[p] \in PPC
  BY DEF Before, Grouping, Routing, Matching, AtItem, Looping, PPC
<1>3. Typed(p)'
  BY <1>2 DEF Own, Typed, Steady
<1>4. Stage(p)'
  BY <1>1, <1>2 DEF Stage, Steady
<1>5. Holding(p)'
  BY <1>2 DEF Holding
<1>6. Sound(p)'
  <2>1. ASSUME NEW s \in SubIds, NEW m \in Collected(p, s)'
        PROVE  s \in Ids /\ ~ Grouped(s) /\ m \in Batch(p) /\ Matches(s, subject[m])
    BY <2>1 DEF Own, Publisher, Sound
  <2>2. ASSUME NEW s \in SubIds, NEW m \in Collected(p, s)'
        PROVE  (s \in Ids /\ ~ Grouped(s) /\ m \in Batch(p) /\ Matches(s, subject[m]))'
    <3>1. s \in Ids /\ ~ Grouped(s) /\ m \in Batch(p) /\ Matches(s, subject[m])
      BY <2>1, <2>2
    <3>2. Matches(s, subject[m])'
      BY <3>1 DEF Steady, Matches
    <3> QED
      BY <3>1, <3>2 DEF Steady
  <2> QED
    BY <1>1, <1>2, <2>2 DEF Sound
<1>7. Silent(p)'
  BY <1>1, <1>2, ZenonT(40) DEF Silent, Steady
<1>8. Served(p)'
  <2>1. ASSUME NEW s \in Owed(p), NEW m \in Due(p, s) PROVE m \in Collected(p, s)' \/ Settled(s, m)'
    <3>1. s \in SubIds
      BY <1>1 DEF Owed
    <3>2. m \in Collected(p, s) \/ Settled(s, m)
      BY DEF Own, Publisher, Served
    <3> QED
      BY <3>1, <3>2
  <2> QED
    BY <1>1, <1>2, <2>1, SMT DEF Served, Steady
<1> QED
  BY <1>3, <1>4, <1>5, <1>6, <1>7, <1>8 DEF Own, Publisher

\* The second lookup of an id: who is not registered any more is owed nothing.
LEMMA FlushStep ==
    ASSUME CoreInv, NEW p \in Publishers, PublishSteps(p), NEW t \in SubIds, Flush(p, t)
    PROVE  Own(p)'
<1>1. /\ Own(p) /\ ppc \in [Publishers -> PPC] /\ pending \in [Publishers -> [SubIds -> Seq(Msgs)]]
      /\ chosen \in [Publishers -> 0..MaxSubs] /\ pending[p] \in [SubIds -> Seq(Msgs)]
      /\ chosen[p] \in 0..MaxSubs /\ t \in 0..MaxSubs
  BY OwnFacts, SMT DEF PubTypeOK, SubIds
<1>2. Steady(p)
  BY StaysSteady DEF Flush, history
<1>3. /\ ppc[p] = "flush" /\ pending[p][t] # <<>>
      /\ item'[p] = item[p] /\ last_sub_ids'[p] = last_sub_ids[p] /\ visit'[p] = visit[p]
      /\ sub_cache'[p] = sub_cache[p]
  BY <1>1 DEF Flush
<1>4. \/ chosen'[p] = t /\ ppc'[p] = "send" /\ pending'[p] = pending[p]
      \/ /\ t \notin subscriptions /\ chosen'[p] = chosen[p] /\ ppc'[p] = "flush"
         /\ pending' = [pending EXCEPT ![p][t] = <<>>]
  BY <1>1, <1>3 DEF Flush, PGoto
<1>5. \A s \in SubIds : \A m : Settled(s, m) => Settled(s, m)'
  BY StaysSettled
<1>6. CASE chosen'[p] = t /\ ppc'[p] = "send" /\ pending'[p] = pending[p]
  <2>1. \A s : Collected(p, s)' = Collected(p, s)
    BY <1>6 DEF Collected
  <2>2. ppc[p] \in {"flush", "send"} /\ ppc'[p] \in {"flush", "send"}
    BY <1>3, <1>6
  <2>3. /\ pending'[p] \in [SubIds -> Seq(Msgs)] /\ chosen'[p] \in 0..MaxSubs /\ chosen'[p] \in SubIds
        /\ pending'[p][chosen'[p]] # <<>>
    BY <1>1, <1>3, <1>6
  <2>4. \A s \in SubIds : /\ Collected(p, s)' \subseteq Collected(p, s)
                          /\ pending[p][s] = <<>> => pending'[p][s] = <<>>
    BY <1>6, <2>1
  <2> QED
    BY <1>1, <1>2, <1>3, <1>5, <2>1, <2>2, <2>3, <2>4, FlushingStays
<1>7. CASE /\ t \notin subscriptions /\ chosen'[p] = chosen[p] /\ ppc'[p] = "flush"
           /\ pending' = [pending EXCEPT ![p][t] = <<>>]
  <2>1. /\ pending'[p][t] = <<>> /\ \A s \in SubIds \ {t} : pending'[p][s] = pending[p][s]
        /\ pending'[p] \in [SubIds -> Seq(Msgs)]
    BY <1>1, <1>7, SMT
  <2>2. Collected(p, t)' = {} /\ \A s \in SubIds \ {t} : Collected(p, s)' = Collected(p, s)
    BY <2>1, ElemsNone DEF Collected
  <2>3. ppc[p] \in {"flush", "send"} /\ ppc'[p] \in {"flush", "send"} /\ ppc'[p] # "send"
    BY <1>3, <1>7
  <2>4. \A s \in Owed(p) : s \in SubIds /\ s # t
    BY <1>1, <1>7 DEF Owed, Own, Typed
  <2>5. \A s \in SubIds : /\ Collected(p, s)' \subseteq Collected(p, s)
                          /\ pending[p][s] = <<>> => pending'[p][s] = <<>>
    BY <2>1, <2>2
  <2>6. \A s \in Owed(p) : \A m \in Collected(p, s) : m \in Collected(p, s)' \/ Settled(s, m)'
    BY <2>2, <2>4
  <2> QED
    BY <1>1, <1>2, <1>3, <1>5, <1>7, <2>1, <2>3, <2>5, <2>6, FlushingStays
<1> QED
  BY <1>4, <1>6, <1>7

\* deliver_batch: the message taken is in the channel, and those given up are counted.
LEMMA SendStep ==
    ASSUME CoreInv, NEW p \in Publishers, PublishSteps(p), Send(p)
    PROVE  Own(p)'
<1>1. /\ Own(p) /\ ppc \in [Publishers -> PPC] /\ pending \in [Publishers -> [SubIds -> Seq(Msgs)]]
      /\ chosen \in [Publishers -> 0..MaxSubs] /\ pending[p] \in [SubIds -> Seq(Msgs)]
      /\ chosen[p] \in 0..MaxSubs /\ log \in [SubIds -> Seq(Msgs)]
  BY OwnFacts DEF PubTypeOK
<1>2. Steady(p)
  BY StaysSteady DEF Send, history
<1>0. PICK t, msgs : t = chosen[p] /\ msgs = pending[p][t]
  OBVIOUS
<1>3. /\ ppc[p] = "send" /\ chosen'[p] = t
      /\ item'[p] = item[p] /\ last_sub_ids'[p] = last_sub_ids[p] /\ visit'[p] = visit[p]
      /\ sub_cache'[p] = sub_cache[p]
  BY <1>0, <1>1 DEF Send
<1>4. t \in SubIds /\ msgs # <<>> /\ msgs \in Seq(Msgs)
  BY <1>0, <1>1, <1>3 DEF Own, Publisher, Holding
<1>5. \/ /\ log' = [log EXCEPT ![t] = Append(@, Head(msgs))] /\ pending' = [pending EXCEPT ![p][t] = Tail(msgs)]
         /\ ppc'[p] = (IF Tail(msgs) = <<>> THEN "flush" ELSE "send")
      \/ /\ dropped' = dropped \cup {<<t, msgs[i]>> : i \in DOMAIN msgs}
         /\ pending' = [pending EXCEPT ![p][t] = <<>>] /\ ppc'[p] = "flush"
  <2>1. LET u == pending[p][chosen[p]]
        IN  \/ /\ log' = [log EXCEPT ![chosen[p]] = Append(@, Head(u))]
               /\ pending' = [pending EXCEPT ![p][chosen[p]] = Tail(u)]
               /\ ppc'[p] = (IF Tail(u) = <<>> THEN "flush" ELSE "send")
            \/ /\ dropped' = dropped \cup {<<chosen[p], u[i]>> : i \in DOMAIN u}
               /\ pending' = [pending EXCEPT ![p][chosen[p]] = <<>>] /\ ppc'[p] = "flush"
    BY <1>1 DEF Send, PGoto
  <2>2. msgs = pending[p][chosen[p]]
    BY <1>0
  <2> QED
    BY <1>0, <2>1, <2>2
<1>6. \A s \in SubIds : \A m : Settled(s, m) => Settled(s, m)'
  BY StaysSettled
<1>7. Collected(p, t) = Elems(msgs) /\ Elems(msgs) = {Head(msgs)} \cup Elems(Tail(msgs))
      /\ Tail(msgs) \in Seq(Msgs) /\ Head(msgs) \in Msgs
  BY <1>0, <1>4, ElemsPop DEF Collected
<1>8. ASSUME NEW q \in Seq(Msgs), pending' = [pending EXCEPT ![p][t] = q], Elems(q) \subseteq Elems(msgs),
             \A m \in Elems(msgs) : m \in Elems(q) \/ Settled(t, m)',
             ppc'[p] = "flush" \/ (ppc'[p] = "send" /\ q # <<>>)
      PROVE  Own(p)'
  <2>1. /\ pending'[p][t] = q /\ \A s \in SubIds \ {t} : pending'[p][s] = pending[p][s]
        /\ pending'[p] \in [SubIds -> Seq(Msgs)]
    BY <1>1, <1>4, <1>8
  <2>2. Collected(p, t)' = Elems(q) /\ \A s \in SubIds \ {t} : Collected(p, s)' = Collected(p, s)
    BY <2>1 DEF Collected
  <2>3. ppc[p] \in {"flush", "send"} /\ ppc'[p] \in {"flush", "send"}
    BY <1>3, <1>8
  <2>4. \A s \in Owed(p) : s \in SubIds
    BY <1>1 DEF Owed, Own, Typed
  <2>5. \A s \in SubIds : /\ Collected(p, s)' \subseteq Collected(p, s)
                          /\ pending[p][s] = <<>> => pending'[p][s] = <<>>
    <3>1. \A s \in SubIds : Collected(p, s)' \subseteq Collected(p, s)
      BY <1>7, <1>8, <2>2
    <3>2. \A s \in SubIds : pending[p][s] = <<>> => pending'[p][s] = <<>>
      BY <1>0, <1>4, <2>1
    <3> QED
      BY <3>1, <3>2
  <2>6. \A s \in Owed(p) : \A m \in Collected(p, s) : m \in Collected(p, s)' \/ Settled(s, m)'
    BY <1>7, <1>8, <2>2, <2>4
  <2>7. ppc'[p] = "send" => chosen'[p] \in SubIds /\ pending'[p][chosen'[p]] # <<>>
    BY <1>3, <1>4, <1>8, <2>1
  <2> QED
    BY <1>0, <1>1, <1>2, <1>3, <1>6, <2>1, <2>3, <2>5, <2>6, <2>7, FlushingStays
<1>9. CASE /\ log' = [log EXCEPT ![t] = Append(@, Head(msgs))]
           /\ pending' = [pending EXCEPT ![p][t] = Tail(msgs)]
           /\ ppc'[p] = (IF Tail(msgs) = <<>> THEN "flush" ELSE "send")
  <2>1. Head(msgs) \in Elems(log'[t])
    <3>1. log'[t] = Append(log[t], Head(msgs)) /\ log[t] \in Seq(Msgs)
      BY <1>1, <1>4, <1>9
    <3> QED
      BY <1>7, <3>1, ElemsAppend, SMT
  <2>2. Settled(t, Head(msgs))'
    BY <2>1 DEF Settled, Elems
  <2>3. \A m \in Elems(msgs) : m \in Elems(Tail(msgs)) \/ Settled(t, m)'
    BY <1>7, <2>2
  <2>4. Elems(Tail(msgs)) \subseteq Elems(msgs)
    BY <1>7
  <2> QED
    BY <1>7, <1>8, <1>9, <2>3, <2>4
<1>10. CASE /\ dropped' = dropped \cup {<<t, msgs[i]>> : i \in DOMAIN msgs}
            /\ pending' = [pending EXCEPT ![p][t] = <<>>] /\ ppc'[p] = "flush"
  <2>1. \A m \in Elems(msgs) : Settled(t, m)'
    BY <1>10 DEF Settled, Elems
  <2>2. <<>> \in Seq(Msgs)
    BY SMT
  <2>3. PICK q : q = <<>>
    OBVIOUS
  <2>4. Elems(q) = {} /\ q \in Seq(Msgs) /\ pending' = [pending EXCEPT ![p][t] = q]
    BY <1>10, <2>2, <2>3, ElemsNone
  <2> QED
    BY <1>8, <1>10, <2>1, <2>4
<1> QED
  BY <1>5, <1>9, <1>10

\* Nothing is collected any more, so what was owed is settled.
LEMMA FlushDoneStep ==
    ASSUME CoreInv, NEW p \in Publishers, PublishSteps(p), FlushDone(p)
    PROVE  Own(p)'
<1>1. Own(p) /\ ppc \in [Publishers -> PPC]
  BY OwnFacts DEF PubTypeOK
<1>2. Steady(p)
  BY StaysSteady DEF FlushDone, history, batchVars
<1>3. /\ ppc[p] = "flush" /\ ppc'[p] = "done" /\ pending'[p] = pending[p] /\ pending[p] = NoPending
      /\ item'[p] = item[p] /\ last_sub_ids'[p] = last_sub_ids[p] /\ visit'[p] = visit[p]
      /\ sub_cache'[p] = sub_cache[p] /\ chosen'[p] = chosen[p]
  BY <1>1 DEF FlushDone, PGoto, batchVars
<1>4. Typed(p)'
  BY <1>1, <1>2, <1>3 DEF Own, Typed, Steady, PPC
<1>5. Stage(p)' /\ Holding(p)'
  BY <1>1, <1>2, <1>3 DEF Own, Publisher, Stage, Holding, Steady, NoPending, Before, Grouping,
     Routing, Matching, AtItem, Looping
<1>6. Sound(p)'
  BY <1>1, <1>2, <1>3, CollectedStays DEF Sound, Own, Publisher, Stage, Before, Grouping, Routing,
     Matching, AtItem, Looping
<1>7. Silent(p)' /\ expected'[p] \subseteq acked'
  BY <1>1, <1>2, <1>3, SilentStays
<1>8. Served(p)'
  <2>1. \A s \in SubIds : \A m : Settled(s, m) => Settled(s, m)'
    BY StaysSettled
  <2>2. ASSUME NEW s \in Owed(p), NEW m \in Due(p, s) PROVE m \in Collected(p, s)' \/ Settled(s, m)'
    <3>1. m \in Collected(p, s) \/ Settled(s, m)
      BY <1>1, <1>3 DEF Own, Publisher, Served
    <3>2. s \in SubIds
      BY <1>1 DEF Owed, Own, Typed
    <3> QED
      BY <1>1, <1>2, <1>3, <2>1, <3>1, <3>2, CollectedStays
  <2> QED
    BY <1>2, <1>3, <1>7, <2>2 DEF Served, Steady, Before, Grouping, Routing, Matching, AtItem,
       Looping
<1> QED
  BY <1>4, <1>5, <1>6, <1>7, <1>8 DEF Own, Publisher

\* After the call nothing is owed.
LEMMA PublishReturnStep ==
    ASSUME CoreInv, NEW p \in Publishers, PublishSteps(p), PublishReturn(p)
    PROVE  Own(p)'
<1>1. Own(p) /\ PubTypeOK
  BY OwnFacts
<1>2. /\ ppc[p] = "done" /\ ppc'[p] = "idle" /\ items'[p] = <<>> /\ item'[p] = 0 /\ chosen'[p] = 0
      /\ expected'[p] = {} /\ gone'[p] = {} /\ pending'[p] = pending[p]
      /\ last_sub_ids'[p] = last_sub_ids[p] /\ visit'[p] = visit[p] /\ sub_cache'[p] = sub_cache[p]
  BY <1>1 DEF PublishReturn, PGoto, PubTypeOK
<1>3. pending[p] = NoPending /\ last_sub_ids[p] = {} /\ sub_cache[p] = {} /\ visit[p] = {}
  BY <1>1, <1>2 DEF Own, Publisher, Stage, Before, Grouping, Routing, Matching, AtItem, Looping
<1>4. Typed(p)'
  <2>1. 0 \in Nat /\ 0 \in 0..MaxSubs /\ <<>> \in Seq(Msgs)
    BY TableAssumption, SMT
  <2> QED
    BY <1>1, <1>2, <2>1 DEF Own, Typed, PPC
<1>5. Stage(p)' /\ Holding(p)' /\ Silent(p)'
  BY <1>2, <1>3 DEF Stage, Holding, Silent, NoPending, Before, Grouping, Routing, Matching,
     AtItem, Looping
<1>6. Sound(p)'
  <2>1. \A s \in SubIds : pending'[p][s] = <<>>
    BY <1>2, <1>3 DEF NoPending
  <2>2. \A s \in SubIds : Collected(p, s)' = {}
    BY <2>1, ElemsNone DEF Collected
  <2> QED
    BY <1>2, <1>3, <2>2 DEF Sound, Before, Grouping, Routing, Matching, AtItem, Looping
<1>7. Served(p)'
  BY <1>2 DEF Served, Owed, Before, Grouping, Routing, Matching, AtItem, Looping
<1> QED
  BY <1>4, <1>5, <1>6, <1>7 DEF Own, Publisher

\* The variables stay typed: a publisher's step writes at its own place only.
LEMMA TypesStep ==
    ASSUME PubTypeOK, NEW p \in Publishers, PublishSteps(p), Publisher(p), Typed(p)'
    PROVE  PubTypeOK'
<1>1. UNCHANGED subject \/ \E n \in BatchSizes : \E subjects \in [1..n -> Subjects] : Publish(p, subjects)
  BY DEF PublishSteps, batchVars, history, Publish, ReadFlag, FastFlag, ExactSingleSubscriber,
     FastRef, NextItem, MatchExact, MatchFlag, MatchTrie, Route, RouteDone, Regroup, Pick, Member,
     Offer, Flush, Send, FlushDone, PublishReturn
<1>2. subject' \in Seq(Subjects) /\ Len(subject') <= MaxMsgs
  BY <1>1, PublishEffect DEF PubTypeOK
<1>3. log' \in [SubIds -> Seq(Msgs)] /\ dropped' \subseteq SubIds \X Msgs
  BY HandsOver
<1>4. ASSUME NEW S, NEW f \in [Publishers -> S], NEW g, WritesAt(p, f, g), g[p] \in S
      PROVE  g \in [Publishers -> S]
  BY <1>4 DEF WritesAt
<1>5. ppc' \in [Publishers -> PPC]
  BY <1>4, WritesOwn DEF PubTypeOK, Typed
<1>6. items' \in [Publishers -> Seq(Msgs)]
  BY <1>4, WritesOwn DEF PubTypeOK, Typed
<1>7. item' \in [Publishers -> Nat]
  BY <1>4, WritesOwn DEF PubTypeOK, Typed
<1>8. last_sub_ids' \in [Publishers -> SUBSET SubIds]
  BY <1>4, WritesOwn DEF PubTypeOK, Typed
<1>9. visit' \in [Publishers -> SUBSET SubIds]
  BY <1>4, WritesOwn DEF PubTypeOK, Typed
<1>10. sub_cache' \in [Publishers -> SUBSET SubIds]
  BY <1>4, WritesOwn DEF PubTypeOK, Typed
<1>11. pending' \in [Publishers -> [SubIds -> Seq(Msgs)]]
  BY <1>4, WritesOwn DEF PubTypeOK, Typed
<1>12. chosen' \in [Publishers -> 0..MaxSubs]
  BY <1>4, WritesOwn DEF PubTypeOK, Typed
<1>13. expected' \in [Publishers -> SUBSET SubIds]
  BY <1>4, WritesOwn DEF PubTypeOK, Typed
<1>14. gone' \in [Publishers -> SUBSET SubIds]
  BY <1>4, WritesOwn DEF PubTypeOK, Typed
<1> QED
  BY <1>2, <1>3, <1>5, <1>6, <1>7, <1>8, <1>9, <1>10, <1>11, <1>12, <1>13, <1>14, ZenonT(40) DEF
     PubTypeOK

\* A step of a session, or none, keeps what the publishers keep.
LEMMA SilentPubInv ==
    ASSUME CoreInv, Relies, UNCHANGED pubVars
    PROVE  PubInv'
<1>1. /\ IInv /\ PubTypeOK /\ Published /\ OnlyMatching /\ NoDeliveryAfterRemoval
      /\ \A q \in Publishers : Publisher(q)
  BY DEF CoreInv, PubInv, TableInv
<1>2. UNCHANGED <<ppc, items, item, last_sub_ids, visit, sub_cache, pending, chosen, log, dropped,
                  subject, expected, gone>>
  BY DEF pubVars, batchVars, outcome, history
<1>3. PubTypeOK'
  BY <1>1, <1>2 DEF PubTypeOK
<1>4. Grows
  <2>1. \A s, m : Settled(s, m)' <=> Settled(s, m)
    BY <1>2 DEF Settled
  <2>2. Len(subject) \in Nat
    BY <1>1, SMT DEF PubTypeOK
  <2> QED
    BY <1>2, <2>1, <2>2, SMT DEF Grows
<1>5. \A q \in Publishers : Publisher(q)'
  BY <1>1, <1>2, <1>4, SparedKeeps DEF Spared
<1>6. Published'
  <2>1. \A q : Batch(q)' = Batch(q)
    BY <1>2 DEF Batch
  <2> QED
    BY <1>1, <1>2, <2>1 DEF Published, Relies
<1>7. OnlyMatching'
  BY <1>1, <1>2, FixedByRelies DEF OnlyMatching, Published, Elems
<1>8. NoDeliveryAfterRemoval'
  <2>1. \A s, m : Settled(s, m)' <=> Settled(s, m)
    BY <1>2 DEF Settled
  <2> QED
    BY <1>1, <1>2, <2>1 DEF NoDeliveryAfterRemoval
<1> QED
  BY <1>3, <1>5, <1>6, <1>7, <1>8 DEF PubInv

\* When the call returns nothing is collected, so what a subscription was owed is settled.
LEMMA DoneSettles ==
    ASSUME CoreInv, NEW p \in Publishers, ppc[p] = "done", NEW s \in Owed(p), NEW m \in Due(p, s)
    PROVE  Settled(s, m)
<1>1. Own(p)
  BY OwnFacts
<1>2. pending[p] = NoPending /\ s \in SubIds
  BY <1>1 DEF Own, Typed, Publisher, Stage, Owed
<1>3. Collected(p, s) = {}
  <2>1. pending[p][s] = <<>>
    BY <1>2 DEF NoPending
  <2> QED
    BY <2>1, ElemsNone DEF Collected
<1>4. m \in Collected(p, s) \/ Settled(s, m)
  BY <1>1 DEF Own, Publisher, Served
<1> QED
  BY <1>3, <1>4

-----------------------------------------------------------------------------
(* The order of one publisher *)

\* A greater element keeps a sequence of numbers sorted.
LEMMA SortedAppend ==
    ASSUME NEW q \in Seq(Msgs), Sorted(q), NEW m \in Msgs, \A n \in Elems(q) : n < m
    PROVE  Sorted(Append(q, m))
<1>1. Len(q) \in Nat /\ DOMAIN q = 1..Len(q) /\ DOMAIN Append(q, m) = 1..(Len(q) + 1)
  BY SMT
<1>2. (\A i \in 1..Len(q) : Append(q, m)[i] = q[i]) /\ Append(q, m)[Len(q) + 1] = m
  BY SMT
<1>3. \A i \in 1..Len(q) : q[i] < m
  BY <1>1 DEF Elems
<1>4. ASSUME NEW i \in 1..(Len(q) + 1), NEW j \in 1..(Len(q) + 1), i < j
      PROVE  Append(q, m)[i] < Append(q, m)[j]
  <2>1. i \in 1..Len(q) /\ (j \in 1..Len(q) \/ j = Len(q) + 1)
    BY <1>1, <1>4, SMT
  <2>2. CASE j \in 1..Len(q)
    BY <1>1, <1>2, <1>4, <2>1, <2>2 DEF Sorted
  <2>3. CASE j = Len(q) + 1
    BY <1>2, <1>3, <2>1, <2>3
  <2> QED
    BY <2>1, <2>2, <2>3
<1> QED
  BY <1>1, <1>4 DEF Sorted

\* Taking the first element keeps it sorted, and all others are greater.
LEMMA SortedPop ==
    ASSUME NEW q \in Seq(Msgs), Sorted(q), q # <<>>
    PROVE  Sorted(Tail(q)) /\ \A n \in Elems(Tail(q)) : Head(q) < n
<1>1. Len(q) \in Nat /\ Len(q) >= 1 /\ DOMAIN q = 1..Len(q) /\ DOMAIN Tail(q) = 1..(Len(q) - 1)
  BY SMT
<1>2. Head(q) = q[1] /\ \A i \in 1..(Len(q) - 1) : Tail(q)[i] = q[i + 1]
  BY <1>1, SMT
<1>3. \A i \in 1..(Len(q) - 1) : i + 1 \in 1..Len(q) /\ 1 < i + 1 /\ 1 \in 1..Len(q)
  BY <1>1, SMT
<1>4. \A i, j \in 1..(Len(q) - 1) : i < j => i + 1 < j + 1
  BY <1>1, SMT
<1>5. Sorted(Tail(q))
  BY <1>1, <1>2, <1>3, <1>4 DEF Sorted
<1>6. \A n \in Elems(Tail(q)) : Head(q) < n
  BY <1>1, <1>2, <1>3 DEF Sorted, Elems
<1> QED
  BY <1>5, <1>6

\* An empty sequence is sorted.
LEMMA SortedNone == \A q : q = <<>> => Sorted(q)
BY SMT DEF Sorted

\* The numbers a publisher compares
LEMMA Numbers ==
    ASSUME PubTypeOK, NEW p \in Publishers
    PROVE  /\ Len(items[p]) \in Nat /\ DOMAIN items[p] = 1..Len(items[p])
           /\ \A j \in DOMAIN items[p] : j \in Nat /\ items[p][j] \in Nat
           /\ \A s \in SubIds : pending[p][s] \in Seq(Msgs) /\ log[s] \in Seq(Msgs)
           /\ \A s \in SubIds : \A m \in Elems(log[s]) : m \in Nat /\ m \in Msgs
           /\ \A s \in SubIds : \A m \in Collected(p, s) : m \in Nat /\ m \in Msgs
           /\ item[p] \in Nat
<1>1. /\ items[p] \in Seq(Msgs) /\ item[p] \in Nat /\ pending[p] \in [SubIds -> Seq(Msgs)]
      /\ log \in [SubIds -> Seq(Msgs)]
  BY DEF PubTypeOK
<1>2. /\ Len(items[p]) \in Nat /\ DOMAIN items[p] = 1..Len(items[p])
      /\ \A j \in DOMAIN items[p] : j \in Nat /\ items[p][j] \in Nat
  BY <1>1, CoreAssumption, SMT DEF Msgs
<1>3. \A s \in SubIds : pending[p][s] \in Seq(Msgs) /\ log[s] \in Seq(Msgs)
  BY <1>1
<1>4. \A q \in Seq(Msgs) : \A m \in Elems(q) : m \in Msgs
  BY SMT DEF Elems
<1>5. \A m \in Msgs : m \in Nat
  BY CoreAssumption, SMT DEF Msgs
<1> QED
  BY <1>1, <1>2, <1>3, <1>4, <1>5 DEF Collected

\* Where a publisher goes in a step that neither hands over nor collects a message: it stays
\* before the loop or enters it, stays at an item, or leaves the loop.
Onwards(p) ==
    \/ ppc'[p] \notin Before \cup Looping \/ ppc'[p] = "idle"
    \/ ppc[p] \in Before \ {"idle"}
    \/ /\ ppc[p] \in Looping /\ ppc'[p] \in Looping /\ item'[p] = item[p]
       /\ ppc[p] \in Routing => ppc'[p] \in Routing /\ visit'[p] \subseteq visit[p]

\* Such a step keeps the order.
LEMMA OnwardsOrdered ==
    ASSUME CoreInv, NEW p \in Publishers, Ordered(p), PublishSteps(p), Onwards(p),
           log' = log, items'[p] = items[p], \A s \in SubIds : pending'[p][s] = pending[p][s]
    PROVE  Ordered(p)'
<1>1. Own(p) /\ PubTypeOK
  BY OwnFacts
<1>2. \A s \in SubIds : Collected(p, s)' = Collected(p, s)
  BY DEF Collected
<1>3. \A s : Grouped(s)' <=> Grouped(s)
  BY PublisherFrame DEF drawn, Grouped
<1>4. ppc[p] \in Before => \A s \in SubIds : Collected(p, s) = {}
  <2> SUFFICES ASSUME ppc[p] \in Before, NEW s \in SubIds PROVE Collected(p, s) = {}
    OBVIOUS
  <2>1. pending[p] = NoPending
    BY <1>1 DEF Own, Publisher, Stage
  <2>2. pending[p][s] = <<>>
    BY <2>1 DEF NoPending
  <2> QED
    BY <2>2, ElemsNone DEF Collected
<1>5. ppc[p] \in Before => ppc[p] \notin Looping
  BY DEF Before, Grouping, Routing, Matching, AtItem, Looping
<1>6. "idle" \notin Looping
  BY DEF Before, Grouping, Routing, Matching, AtItem, Looping
<1>7. ASSUME NEW s \in SubIds PROVE ToCome(p, s)'
  <2>1. ToCome(p, s)
    BY DEF Ordered
  <2>2. CASE ppc[p] \in Before
    BY <1>2, <1>4, <2>2 DEF ToCome
  <2>3. CASE ppc'[p] \notin Looping
    BY <2>3 DEF ToCome
  <2>4. CASE /\ ppc[p] \in Looping /\ ppc'[p] \in Looping /\ item'[p] = item[p]
             /\ ppc[p] \in Routing => ppc'[p] \in Routing /\ visit'[p] \subseteq visit[p]
    <3> SUFFICES ASSUME NEW j \in DOMAIN items[p], j >= item[p], NEW m \in Collected(p, s)
                 PROVE  m < items[p][j] \/ (m = items[p][j] /\ ppc'[p] \in Routing /\ s \notin visit'[p])
      BY <1>2, <2>4 DEF ToCome
    <3>1. m < items[p][j] \/ (m = items[p][j] /\ ppc[p] \in Routing /\ s \notin visit[p])
      BY <2>1, <2>4 DEF ToCome
    <3> QED
      BY <2>4, <3>1
  <2> QED
    BY <1>6, <2>2, <2>3, <2>4 DEF Onwards
<1>8. ASSUME NEW s \in SubIds PROVE Older(p, s)'
  <2>1. Older(p, s)
    BY DEF Ordered
  <2>2. CASE ppc'[p] \notin (Before \cup Looping) \ {"idle"}
    BY <1>2, <2>1, <2>2 DEF Older
  <2>3. CASE ppc[p] \in Before \ {"idle"}
    <3>1. \A m \in Elems(log[s]) : \A j \in DOMAIN items[p] : m < items[p][j]
      BY <1>5, <2>1, <2>3 DEF Older
    <3>2. \A m \in Elems(log[s]) : \A j \in DOMAIN items[p] : m \in Nat /\ items[p][j] \in Nat
      BY <1>1, Numbers
    <3>3. \A m \in Elems(log[s]) : \A j \in DOMAIN items[p] : m <= items[p][j]
      BY <3>1, <3>2, SMT
    <3> QED
      BY <1>2, <2>1, <3>1, <3>3 DEF Older
  <2>4. CASE ppc[p] \in Looping /\ ppc'[p] \in Looping /\ item'[p] = item[p]
    <3>1. ppc[p] \in (Before \cup Looping) \ {"idle"}
      BY <1>6, <2>4
    <3> QED
      BY <1>2, <1>3, <2>1, <2>4, <3>1 DEF Older
  <2> QED
    BY <1>6, <2>2, <2>3, <2>4 DEF Onwards
<1> QED
  BY <1>7, <1>8 DEF Ordered

\* As long as no channel takes a message the logs stay in order.
LEMMA LogsInOrder ==
    ASSUME InOrder, NEW p \in Publishers, PublishSteps(p), log' = log
    PROVE  InOrder'
<1>1. \A s : Grouped(s)' <=> Grouped(s)
  BY PublisherFrame DEF drawn, Grouped
<1> QED
  BY <1>1 DEF InOrder

\* A log in order stays so when a message is added that is newer than all, or for a member of a
\* group no older.
LEMMA LogGrows ==
    ASSUME InOrder, PubTypeOK, NEW p \in Publishers, PublishSteps(p), NEW t \in SubIds, NEW m \in Msgs,
           log' = [log EXCEPT ![t] = Append(@, m)],
           \A n \in Elems(log[t]) : IF Grouped(t) THEN n <= m ELSE n < m
    PROVE  /\ InOrder'
           /\ \A s \in SubIds \ {t} : log'[s] = log[s]
           /\ Elems(log'[t]) = Elems(log[t]) \cup {m}
<1>1. log \in [SubIds -> Seq(Msgs)] /\ log[t] \in Seq(Msgs)
  BY DEF PubTypeOK
<1>2. log'[t] = Append(log[t], m) /\ \A s \in SubIds \ {t} : log'[s] = log[s]
  BY <1>1
<1>3. Elems(log'[t]) = Elems(log[t]) \cup {m}
  BY <1>1, <1>2, ElemsAppend, SMT
<1>4. \A s : Grouped(s)' <=> Grouped(s)
  BY PublisherFrame DEF drawn, Grouped
<1>5. PICK q : q = log[t]
  OBVIOUS
<1>6. Len(q) \in Nat /\ DOMAIN q = 1..Len(q) /\ DOMAIN Append(q, m) = 1..(Len(q) + 1)
  BY <1>1, <1>5, SMT
<1>7. (\A i \in 1..Len(q) : Append(q, m)[i] = q[i]) /\ Append(q, m)[Len(q) + 1] = m
  BY <1>1, <1>5, SMT
<1>8. \A i \in 1..Len(q) : IF Grouped(t) THEN q[i] <= m ELSE q[i] < m
  BY <1>5, <1>6 DEF Elems
<1>9. ASSUME NEW i \in 1..(Len(q) + 1), NEW j \in 1..(Len(q) + 1), i < j
      PROVE  IF Grouped(t) THEN Append(q, m)[i] <= Append(q, m)[j] ELSE Append(q, m)[i] < Append(q, m)[j]
  <2>1. i \in 1..Len(q) /\ (j \in 1..Len(q) \/ j = Len(q) + 1)
    BY <1>6, <1>9, SMT
  <2>2. CASE j \in 1..Len(q)
    BY <1>5, <1>6, <1>7, <1>9, <2>1, <2>2 DEF InOrder
  <2>3. CASE j = Len(q) + 1
    BY <1>7, <1>8, <2>1, <2>3
  <2> QED
    BY <2>1, <2>2, <2>3
<1>10. ASSUME NEW s \in SubIds, NEW i \in DOMAIN log'[s], NEW j \in DOMAIN log'[s], i < j
       PROVE  IF Grouped(s) THEN log'[s][i] <= log'[s][j] ELSE log'[s][i] < log'[s][j]
  <2>1. CASE s = t
    BY <1>2, <1>5, <1>6, <1>9, <1>10, <2>1
  <2>2. CASE s # t
    BY <1>2, <1>10, <2>2 DEF InOrder
  <2> QED
    BY <2>1, <2>2
<1>11. InOrder'
  BY <1>4, <1>10 DEF InOrder
<1> QED
  BY <1>2, <1>3, <1>11

\* A new batch is numbered after everything published before, so after everything in a log.
LEMMA PublishOrdered ==
    ASSUME CoreInv, NEW p \in Publishers, PublishSteps(p), NEW n \in BatchSizes,
           NEW subjects \in [1..n -> Subjects], Publish(p, subjects)
    PROVE  Ordered(p)'
<1>1. Own(p) /\ PubTypeOK /\ Published
  BY OwnFacts
<1>2. /\ ppc[p] = "idle" /\ ppc'[p] \in {"batch", "no_subs"} /\ pending'[p] = pending[p] /\ log' = log
  BY <1>1 DEF Publish, PGoto, PubTypeOK, outcome
<1>3. /\ items'[p] \in Seq(Msgs) /\ Len(items'[p]) = n /\ n \in Nat /\ Len(subject) \in Nat
      /\ \A i \in 1..n : items'[p][i] = Len(subject) + i
  <2>1. Len(subject) \in Nat
    BY <1>1, SMT DEF PubTypeOK
  <2> QED
    BY <1>1, <2>1, PublishEffect
<1>4. DOMAIN items'[p] = 1..n
  BY <1>3, SMT
<1>5. Sorted(items[p])'
  BY <1>3, <1>4, SMT DEF Sorted
<1>6. ASSUME NEW s \in SubIds
      PROVE  pending'[p][s] = <<>> /\ Collected(p, s)' = {}
  <2>1. pending[p] = NoPending
    BY <1>1, <1>2 DEF Own, Publisher, Stage, Before
  <2>2. pending'[p][s] = <<>>
    BY <1>2, <2>1 DEF NoPending
  <2> QED
    BY <2>2, ElemsNone DEF Collected
<1>7. ASSUME NEW s \in SubIds, NEW m \in Elems(log'[s]), NEW j \in DOMAIN items'[p]
      PROVE  m < items'[p][j]
  <2>1. m \in 1..Len(subject)
    BY <1>1, <1>2, <1>7 DEF Published
  <2> QED
    BY <1>3, <1>4, <2>1, SMT
<1>8. ppc'[p] \notin Looping
  BY <1>2 DEF Before, Grouping, Routing, Matching, AtItem, Looping
<1>9. \A s \in SubIds : Sorted(pending[p][s])' /\ ToCome(p, s)'
  BY <1>6, <1>8, SortedNone DEF ToCome
<1>10. \A s \in SubIds : Older(p, s)'
  BY <1>6, <1>7, <1>8 DEF Older
<1> QED
  BY <1>5, <1>9, <1>10 DEF Ordered

\* After the call there is no batch to be older than.
LEMMA ReturnOrdered ==
    ASSUME CoreInv, NEW p \in Publishers, PublishSteps(p), PublishReturn(p)
    PROVE  Ordered(p)'
<1>1. Own(p) /\ PubTypeOK
  BY OwnFacts
<1>2. ppc[p] = "done" /\ ppc'[p] = "idle" /\ items'[p] = <<>> /\ pending'[p] = pending[p]
  BY <1>1 DEF PublishReturn, PGoto, PubTypeOK
<1>3. ASSUME NEW s \in SubIds
      PROVE  pending'[p][s] = <<>> /\ Collected(p, s)' = {}
  <2>1. pending[p] = NoPending
    BY <1>1, <1>2 DEF Own, Publisher, Stage
  <2>2. pending'[p][s] = <<>>
    BY <1>2, <2>1 DEF NoPending
  <2> QED
    BY <2>2, ElemsNone DEF Collected
<1>4. ppc'[p] \notin Looping /\ ppc'[p] \notin (Before \cup Looping) \ {"idle"}
  BY <1>2 DEF Before, Grouping, Routing, Matching, AtItem, Looping
<1>5. \A s \in SubIds : Sorted(pending[p][s])' /\ ToCome(p, s)' /\ Older(p, s)'
  BY <1>3, <1>4, SortedNone DEF ToCome, Older
<1> QED
  BY <1>2, <1>5, SortedNone DEF Ordered

\* Going past an item: what was collected for it is older than the next.
LEMMA RouteDoneOrdered ==
    ASSUME CoreInv, NEW p \in Publishers, Ordered(p), PublishSteps(p), RouteDone(p)
    PROVE  Ordered(p)'
<1>1. Own(p) /\ PubTypeOK /\ ppc \in [Publishers -> PPC] /\ item \in [Publishers -> Nat]
  BY OwnFacts DEF PubTypeOK
<1>0. PICK i : i = item[p]
  OBVIOUS
<1>2. /\ ppc[p] = "route" /\ ppc'[p] = "next" /\ item'[p] = i + 1 /\ items'[p] = items[p]
      /\ pending'[p] = pending[p] /\ log' = log
  BY <1>0, <1>1 DEF RouteDone, PGoto, outcome
<1>3. i \in Nat /\ i \in 1..Len(items[p]) /\ i \in DOMAIN items[p] /\ items[p][i] \in Nat
  BY <1>0, <1>1, <1>2, ItemInBatch, Numbers DEF AtItem, Routing
<1>4. \A s : (Grouped(s)' <=> Grouped(s)) /\ Collected(p, s)' = Collected(p, s)
  BY <1>2, PublisherFrame DEF drawn, Grouped, Collected
<1>5. ppc[p] \in Looping /\ ppc[p] \in (Before \cup Looping) \ {"idle"} /\ ppc'[p] \in Looping
  BY <1>2 DEF Before, Grouping, Routing, Matching, AtItem, Looping
<1>6. ASSUME NEW j \in DOMAIN items[p], j >= i + 1
      PROVE  j >= i /\ items[p][i] < items[p][j] /\ items[p][j] \in Nat
  <2>1. j \in Nat /\ items[p][j] \in Nat
    BY <1>1, Numbers
  <2>2. j >= i /\ i < j
    BY <1>3, <1>6, <2>1, SMT
  <2> QED
    BY <1>3, <2>1, <2>2 DEF Ordered, Sorted
<1>7. ASSUME NEW s \in SubIds PROVE ToCome(p, s)'
  <2>1. ASSUME NEW j \in DOMAIN items[p], j >= i + 1, NEW m \in Collected(p, s) PROVE m < items[p][j]
    <3>1. m < items[p][i] \/ m = items[p][i]
      <4>1. i >= i
        BY <1>3, SMT
      <4> QED
        BY <1>0, <1>3, <1>5, <2>1, <4>1 DEF Ordered, ToCome
    <3>2. m \in Nat
      BY <1>1, Numbers
    <3> QED
      BY <1>3, <1>6, <2>1, <3>1, <3>2, SMT
  <2> QED
    BY <1>2, <1>4, <2>1 DEF ToCome
<1>8. ASSUME NEW s \in SubIds PROVE Older(p, s)'
  <2>1. ASSUME NEW m \in Elems(log[s]), NEW j \in DOMAIN items[p]
        PROVE  IF Grouped(s) THEN j >= i => m <= items[p][j] ELSE m < items[p][j]
    BY <1>0, <1>5, <2>1 DEF Ordered, Older
  <2>2. \A m \in Elems(log[s]) : \A n \in Collected(p, s) : m < n
    BY DEF Ordered, Older
  <2>3. ASSUME NEW m \in Elems(log[s]), NEW j \in DOMAIN items[p]
        PROVE  IF Grouped(s) THEN j >= i + 1 => m <= items[p][j] ELSE m < items[p][j]
    BY <1>6, <2>1, <2>3
  <2> QED
    BY <1>2, <1>4, <1>5, <2>2, <2>3 DEF Older
<1> QED
  BY <1>2, <1>7, <1>8 DEF Ordered

\* Once the loop is over only what is collected has to be newer than the logs.
LEMMA FlushingOrdered ==
    ASSUME NEW p \in Publishers, Ordered(p), items'[p] = items[p], ppc'[p] \in {"flush", "send"},
           \A s \in SubIds : /\ Sorted(pending'[p][s])
                             /\ \A m \in Elems(log'[s]) : \A n \in Collected(p, s)' : m < n
    PROVE  Ordered(p)'
<1>1. ppc'[p] \notin Looping /\ ppc'[p] \notin (Before \cup Looping) \ {"idle"}
  BY DEF Before, Grouping, Routing, Matching, AtItem, Looping
<1>2. \A s \in SubIds : ToCome(p, s)' /\ Older(p, s)'
  BY <1>1 DEF ToCome, Older
<1> QED
  BY <1>2 DEF Ordered

\* The fast path collects the whole batch, which is newer than the log of its subscriber.
LEMMA FastRefOrdered ==
    ASSUME CoreInv, NEW p \in Publishers, Ordered(p), PublishSteps(p), FastRef(p)
    PROVE  Ordered(p)'
<1>1. /\ Own(p) /\ PubTypeOK /\ ppc \in [Publishers -> PPC]
      /\ pending \in [Publishers -> [SubIds -> Seq(Msgs)]]
  BY OwnFacts DEF PubTypeOK
<1>0. PICK t : t = chosen[p]
  OBVIOUS
<1>2. /\ ppc[p] = "single_ref" /\ item'[p] = item[p] /\ items'[p] = items[p] /\ log' = log
      /\ \/ ppc'[p] = "next" /\ pending'[p] = pending[p]
         \/ ppc'[p] = "send" /\ pending'[p] = [pending[p] EXCEPT ![t] = items[p]]
  BY <1>0, <1>1 DEF FastRef, PGoto, outcome
<1>3. t \in SubIds /\ pending[p] \in [SubIds -> Seq(Msgs)] /\ pending[p] = NoPending
  BY <1>0, <1>1, <1>2 DEF Own, Typed, Publisher, Holding, Stage, Ids, Before
<1>4. CASE ppc'[p] = "next" /\ pending'[p] = pending[p]
  <2>1. Onwards(p)
    BY <1>2 DEF Onwards, Before
  <2> QED
    BY <1>2, <1>4, <2>1, OnwardsOrdered
<1>5. CASE ppc'[p] = "send" /\ pending'[p] = [pending[p] EXCEPT ![t] = items[p]]
  <2>1. pending'[p][t] = items[p] /\ \A s \in SubIds \ {t} : pending'[p][s] = <<>>
    BY <1>3, <1>5 DEF NoPending
  <2>2. Collected(p, t)' = Elems(items[p]) /\ \A s \in SubIds \ {t} : Collected(p, s)' = {}
    BY <2>1, ElemsNone DEF Collected
  <2>3. ppc[p] \in (Before \cup Looping) \ {"idle"} /\ ppc[p] \notin Looping
    BY <1>2 DEF Before, Grouping, Routing, Matching, AtItem, Looping
  <2>4. \A m \in Elems(log[t]) : \A n \in Elems(items[p]) : m < n
    BY <1>3, <2>3 DEF Ordered, Older, Elems
  <2>5. \A s \in SubIds : Sorted(pending'[p][s])
    BY <2>1, SortedNone DEF Ordered
  <2>6. \A s \in SubIds : \A m \in Elems(log'[s]) : \A n \in Collected(p, s)' : m < n
    BY <1>2, <2>2, <2>4
  <2>7. ppc'[p] \in {"flush", "send"}
    BY <1>5
  <2> QED
    BY <1>2, <2>5, <2>6, <2>7, FlushingOrdered
<1> QED
  BY <1>2, <1>4, <1>5

\* An item collected for a subscription that is still to be visited is the newest of its own.
LEMMA RouteOrdered ==
    ASSUME CoreInv, NEW p \in Publishers, Ordered(p), PublishSteps(p), NEW t \in SubIds, Route(p, t)
    PROVE  Ordered(p)'
<1>1. /\ Own(p) /\ PubTypeOK /\ ppc \in [Publishers -> PPC] /\ item \in [Publishers -> Nat]
      /\ pending \in [Publishers -> [SubIds -> Seq(Msgs)]] /\ visit \in [Publishers -> SUBSET SubIds]
  BY OwnFacts DEF PubTypeOK
<1>0. PICK i, m : i = item[p] /\ m = items[p][i]
  OBVIOUS
<1>2. /\ ppc[p] = "route" /\ item'[p] = i /\ t \in visit[p] /\ visit'[p] = visit[p] \ {t}
      /\ items'[p] = items[p] /\ log' = log
  BY <1>0, <1>1 DEF Route, outcome
<1>3. \/ ppc'[p] = "regroup" /\ pending' = pending
      \/ ppc'[p] = "route" /\ pending' = [pending EXCEPT ![p][t] = @]
      \/ /\ ~ Grouped(t) /\ ppc'[p] = "route"
         /\ pending' = [pending EXCEPT ![p][t] = Append(@, m)]
  BY <1>0, <1>1, <1>2 DEF Route, PGoto
<1>4. i \in Nat /\ i \in 1..Len(items[p]) /\ i \in DOMAIN items[p] /\ m \in Msgs /\ m \in Nat
  BY <1>0, <1>1, <1>2, ItemInBatch, Numbers DEF AtItem, Routing
<1>5. /\ ppc[p] \in Routing /\ ppc[p] \in Looping /\ ppc[p] \in (Before \cup Looping) \ {"idle"}
      /\ ppc'[p] \in Routing /\ ppc'[p] \in Looping
  BY <1>2, <1>3 DEF Before, Grouping, Routing, Matching, AtItem, Looping
<1>6. CASE \A s \in SubIds : pending'[p][s] = pending[p][s]
  <2>1. Onwards(p)
    BY <1>0, <1>2, <1>5 DEF Onwards
  <2> QED
    BY <1>2, <1>6, <2>1, OnwardsOrdered
<1>7. CASE ~ Grouped(t) /\ pending' = [pending EXCEPT ![p][t] = Append(@, m)]
  <2>1. /\ pending'[p][t] = Append(pending[p][t], m) /\ pending[p][t] \in Seq(Msgs)
        /\ \A s \in SubIds \ {t} : pending'[p][s] = pending[p][s]
    BY <1>1, <1>7
  <2>2. Collected(p, t)' = Collected(p, t) \cup {m} /\ \A s \in SubIds \ {t} : Collected(p, s)' = Collected(p, s)
    <3>1. Elems(Append(pending[p][t], m)) = Elems(pending[p][t]) \cup {m}
      BY <1>4, <2>1, ElemsAppend, SMT
    <3> QED
      BY <2>1, <3>1 DEF Collected
  <2>3. i >= i
    BY <1>4, SMT
  <2>4. \A n \in Collected(p, t) : n < m
    BY <1>0, <1>2, <1>4, <1>5, <2>3 DEF Ordered, ToCome
  <2>5. \A s \in SubIds : Sorted(pending'[p][s])
    BY <1>4, <2>1, <2>4, SortedAppend DEF Ordered, Collected
  <2>6. \A s : Grouped(s)' <=> Grouped(s)
    BY PublisherFrame DEF drawn, Grouped
  <2>7. ASSUME NEW j \in DOMAIN items[p], j >= i PROVE m < items[p][j] \/ m = items[p][j]
    <3>1. j = i \/ i < j
      <4>1. j \in Nat
        BY <1>1, Numbers
      <4> QED
        BY <1>4, <2>7, <4>1, SMT
    <3> QED
      BY <1>0, <1>4, <3>1 DEF Ordered, Sorted
  <2>8. ASSUME NEW s \in SubIds PROVE ToCome(p, s)'
    <3>1. ASSUME NEW j \in DOMAIN items[p], j >= i, NEW n \in Collected(p, s)'
          PROVE  n < items[p][j] \/ (n = items[p][j] /\ s \notin visit'[p])
      <4>1. CASE n \in Collected(p, s)
        BY <1>0, <1>2, <1>5, <3>1, <4>1 DEF Ordered, ToCome
      <4>2. CASE s = t /\ n = m
        BY <1>2, <2>7, <3>1, <4>2
      <4> QED
        BY <2>2, <3>1, <4>1, <4>2
    <3> QED
      BY <1>2, <1>5, <3>1 DEF ToCome
  <2>9. ASSUME NEW s \in SubIds PROVE Older(p, s)'
    <3>1. ASSUME NEW l \in Elems(log[s]), NEW n \in Collected(p, s)' PROVE l < n
      <4>1. CASE n \in Collected(p, s)
        BY <3>1, <4>1 DEF Ordered, Older
      <4>2. CASE s = t /\ n = m
        BY <1>0, <1>4, <1>5, <1>7, <3>1, <4>2 DEF Ordered, Older
      <4> QED
        BY <2>2, <3>1, <4>1, <4>2
    <3>2. ASSUME NEW l \in Elems(log[s]), NEW j \in DOMAIN items[p]
          PROVE  IF Grouped(s) THEN j >= i => l <= items[p][j] ELSE l < items[p][j]
      BY <1>0, <1>5, <3>2 DEF Ordered, Older
    <3> QED
      BY <1>2, <1>5, <2>6, <3>1, <3>2 DEF Older
  <2> QED
    BY <1>2, <2>5, <2>8, <2>9 DEF Ordered
<1>8. CASE ppc'[p] = "route" /\ pending' = [pending EXCEPT ![p][t] = @]
  <2>1. \A s \in SubIds : pending'[p][s] = pending[p][s]
    BY <1>1, <1>8
  <2> QED
    BY <1>6, <2>1
<1>9. CASE ppc'[p] = "regroup" /\ pending' = pending
  BY <1>6, <1>9
<1> QED
  BY <1>3, <1>7, <1>8, <1>9

\* A member of a group is given the current item: nothing newer is in its channel.
LEMMA OfferOrdered ==
    ASSUME CoreInv, InOrder, NEW p \in Publishers, Ordered(p), PublishSteps(p), Offer(p)
    PROVE  InOrder' /\ Ordered(p)'
<1>1. Own(p) /\ PubTypeOK /\ ppc \in [Publishers -> PPC]
  BY OwnFacts DEF PubTypeOK
<1>0. PICK t, i, m : t = chosen[p] /\ i = item[p] /\ m = items[p][i]
  OBVIOUS
<1>2. /\ ppc[p] = "offer" /\ ppc'[p] = "route" /\ item'[p] = i /\ visit'[p] = visit[p]
      /\ items'[p] = items[p] /\ pending'[p] = pending[p]
      /\ log' = [log EXCEPT ![t] = Append(@, m)] \/ log' = log
  BY <1>0, <1>1 DEF Offer, PGoto, batchVars
<1>3. i \in Nat /\ i \in DOMAIN items[p] /\ m \in Msgs /\ m \in Nat
  BY <1>0, <1>1, <1>2, ItemInBatch, Numbers DEF AtItem, Routing, Grouping
<1>4. /\ ppc[p] \in Routing /\ ppc[p] \in Looping /\ ppc[p] \in (Before \cup Looping) \ {"idle"}
      /\ ppc'[p] \in Routing /\ ppc'[p] \in Looping
  BY <1>2 DEF Before, Grouping, Routing, Matching, AtItem, Looping
<1>5. t \in SubIds /\ Grouped(t)
  BY <1>0, <1>1, <1>2 DEF Own, Publisher, Holding, Grouping, Ids
<1>6. Onwards(p)
  BY <1>0, <1>2, <1>4 DEF Onwards
<1>7. CASE log' = log
  BY <1>2, <1>6, <1>7, OnwardsOrdered, LogsInOrder
<1>8. CASE log' = [log EXCEPT ![t] = Append(@, m)]
  <2>1. i >= i
    BY <1>3, SMT
  <2>2. \A n \in Elems(log[t]) : n <= m
    BY <1>0, <1>3, <1>4, <1>5, <2>1 DEF Ordered, Older
  <2>3. /\ InOrder' /\ Elems(log'[t]) = Elems(log[t]) \cup {m}
        /\ \A s \in SubIds \ {t} : log'[s] = log[s]
    BY <1>1, <1>3, <1>5, <1>8, <2>2, LogGrows
  <2>4. \A s : (Grouped(s)' <=> Grouped(s)) /\ Collected(p, s)' = Collected(p, s)
    BY <1>2, PublisherFrame DEF drawn, Grouped, Collected
  <2>5. ASSUME NEW j \in DOMAIN items[p], j >= i PROVE m <= items[p][j]
    <3>1. j \in Nat /\ items[p][j] \in Nat
      BY <1>1, Numbers
    <3>2. j = i \/ i < j
      BY <1>3, <2>5, <3>1, SMT
    <3>3. m = items[p][j] \/ m < items[p][j]
      BY <1>0, <1>3, <3>2 DEF Ordered, Sorted
    <3> QED
      BY <1>3, <3>1, <3>3, SMT
  <2>6. ASSUME NEW s \in SubIds PROVE ToCome(p, s)'
    BY <1>0, <1>2, <1>4, <2>4 DEF Ordered, ToCome
  <2>7. ASSUME NEW s \in SubIds PROVE Older(p, s)'
    <3>1. ASSUME NEW l \in Elems(log'[s]), NEW j \in DOMAIN items[p]
          PROVE  IF Grouped(s) THEN j >= i => l <= items[p][j] ELSE l < items[p][j]
      <4>1. CASE l \in Elems(log[s])
        BY <1>0, <1>4, <3>1, <4>1 DEF Ordered, Older
      <4>2. CASE s = t /\ l = m
        BY <1>5, <2>5, <3>1, <4>2
      <4> QED
        BY <2>3, <3>1, <4>1, <4>2
    <3>2. ASSUME NEW l \in Elems(log'[s]), NEW n \in Collected(p, s) PROVE l < n
      <4>1. s # t
        BY <1>1, <1>5, <3>2 DEF Own, Publisher, Sound
      <4> QED
        BY <2>3, <3>2, <4>1 DEF Ordered, Older
    <3> QED
      BY <1>2, <1>4, <2>4, <3>1, <3>2 DEF Older
  <2> QED
    BY <1>2, <2>3, <2>6, <2>7 DEF Ordered
<1> QED
  BY <1>2, <1>7, <1>8

\* Dropping what is collected for an id that is gone.
LEMMA FlushOrdered ==
    ASSUME CoreInv, NEW p \in Publishers, Ordered(p), PublishSteps(p), NEW t \in SubIds, Flush(p, t)
    PROVE  Ordered(p)'
<1>1. /\ Own(p) /\ PubTypeOK /\ ppc \in [Publishers -> PPC]
      /\ pending \in [Publishers -> [SubIds -> Seq(Msgs)]]
  BY OwnFacts DEF PubTypeOK
<1>2. /\ ppc[p] = "flush" /\ ppc'[p] \in {"flush", "send"} /\ items'[p] = items[p] /\ log' = log
      /\ pending' = pending \/ pending' = [pending EXCEPT ![p][t] = <<>>]
  BY <1>1 DEF Flush, PGoto, outcome
<1>3. \A s \in SubIds : pending'[p][s] = pending[p][s] \/ pending'[p][s] = <<>>
  BY <1>1, <1>2
<1>4. \A s \in SubIds : Sorted(pending'[p][s]) /\ Collected(p, s)' \subseteq Collected(p, s)
  BY <1>3, SortedNone, ElemsNone DEF Ordered, Collected
<1>5. \A s \in SubIds : \A m \in Elems(log'[s]) : \A n \in Collected(p, s)' : m < n
  BY <1>2, <1>4 DEF Ordered, Older
<1> QED
  BY <1>2, <1>4, <1>5, FlushingOrdered

\* The channel takes the oldest of what is collected.
LEMMA SendOrdered ==
    ASSUME CoreInv, InOrder, NEW p \in Publishers, Ordered(p), PublishSteps(p), Send(p)
    PROVE  InOrder' /\ Ordered(p)'
<1>1. /\ Own(p) /\ PubTypeOK /\ ppc \in [Publishers -> PPC]
      /\ pending \in [Publishers -> [SubIds -> Seq(Msgs)]]
  BY OwnFacts DEF PubTypeOK
<1>0. PICK t, msgs : t = chosen[p] /\ msgs = pending[p][t]
  OBVIOUS
<1>2. ppc[p] = "send" /\ ppc'[p] \in {"flush", "send"} /\ items'[p] = items[p]
  BY <1>1 DEF Send, PGoto
<1>3. t \in SubIds /\ msgs # <<>> /\ msgs \in Seq(Msgs)
  BY <1>0, <1>1, <1>2 DEF Own, Publisher, Holding
<1>4. \/ log' = [log EXCEPT ![t] = Append(@, Head(msgs))] /\ pending' = [pending EXCEPT ![p][t] = Tail(msgs)]
      \/ log' = log /\ pending' = [pending EXCEPT ![p][t] = <<>>]
  <2>1. LET u == pending[p][chosen[p]]
        IN  \/ /\ log' = [log EXCEPT ![chosen[p]] = Append(@, Head(u))]
               /\ pending' = [pending EXCEPT ![p][chosen[p]] = Tail(u)]
            \/ log' = log /\ pending' = [pending EXCEPT ![p][chosen[p]] = <<>>]
    BY DEF Send
  <2>2. msgs = pending[p][chosen[p]]
    BY <1>0
  <2> QED
    BY <1>0, <2>1, <2>2
<1>5. /\ Collected(p, t) = Elems(msgs) /\ Elems(msgs) = {Head(msgs)} \cup Elems(Tail(msgs))
      /\ Tail(msgs) \in Seq(Msgs) /\ Head(msgs) \in Msgs
  BY <1>0, <1>3, ElemsPop DEF Collected
<1>6. Sorted(Tail(msgs)) /\ \A n \in Elems(Tail(msgs)) : Head(msgs) < n
  BY <1>0, <1>3, SortedPop DEF Ordered
<1>7. CASE log' = log /\ pending' = [pending EXCEPT ![p][t] = <<>>]
  <2>1. \A s \in SubIds : pending'[p][s] = pending[p][s] \/ pending'[p][s] = <<>>
    BY <1>1, <1>7
  <2>2. \A s \in SubIds : Sorted(pending'[p][s]) /\ Collected(p, s)' \subseteq Collected(p, s)
    BY <2>1, SortedNone, ElemsNone DEF Ordered, Collected
  <2>3. \A s \in SubIds : \A m \in Elems(log'[s]) : \A n \in Collected(p, s)' : m < n
    BY <1>7, <2>2 DEF Ordered, Older
  <2> QED
    BY <1>2, <1>7, <2>2, <2>3, FlushingOrdered, LogsInOrder
<1>8. CASE /\ log' = [log EXCEPT ![t] = Append(@, Head(msgs))]
           /\ pending' = [pending EXCEPT ![p][t] = Tail(msgs)]
  <2>1. \A n \in Elems(log[t]) : n < Head(msgs)
    BY <1>3, <1>5 DEF Ordered, Older
  <2>2. ~ Grouped(t)
    BY <1>1, <1>3, <1>5 DEF Own, Publisher, Sound
  <2>3. /\ InOrder' /\ Elems(log'[t]) = Elems(log[t]) \cup {Head(msgs)}
        /\ \A s \in SubIds \ {t} : log'[s] = log[s]
    BY <1>1, <1>3, <1>5, <1>8, <2>1, <2>2, LogGrows
  <2>4. pending'[p][t] = Tail(msgs) /\ \A s \in SubIds \ {t} : pending'[p][s] = pending[p][s]
    BY <1>1, <1>3, <1>8
  <2>5. Collected(p, t)' = Elems(Tail(msgs)) /\ \A s \in SubIds \ {t} : Collected(p, s)' = Collected(p, s)
    BY <2>4 DEF Collected
  <2>6. \A s \in SubIds : Sorted(pending'[p][s])
    BY <1>6, <2>4 DEF Ordered
  <2>7. ASSUME NEW s \in SubIds, NEW m \in Elems(log'[s]), NEW n \in Collected(p, s)' PROVE m < n
    <3>1. CASE s = t
      <4>1. n \in Elems(Tail(msgs)) /\ n \in Collected(p, t)
        BY <1>5, <2>5, <2>7, <3>1
      <4>2. CASE m = Head(msgs)
        BY <1>6, <4>1, <4>2
      <4>3. CASE m \in Elems(log[t])
        BY <1>3, <4>1, <4>3 DEF Ordered, Older
      <4> QED
        BY <2>3, <2>7, <3>1, <4>2, <4>3
    <3>2. CASE s # t
      BY <2>3, <2>5, <2>7, <3>2 DEF Ordered, Older
    <3> QED
      BY <3>1, <3>2
  <2> QED
    BY <1>2, <2>3, <2>6, <2>7, FlushingOrdered
<1> QED
  BY <1>4, <1>7, <1>8

\* Every other step only goes onwards.
LEMMA OnwardsStep ==
    ASSUME CoreInv, NEW p \in Publishers, PublishSteps(p),
           \/ ReadFlag(p) \/ FastFlag(p) \/ ExactSingleSubscriber(p) \/ NextItem(p)
           \/ MatchExact(p) \/ MatchFlag(p) \/ MatchTrie(p)
           \/ Regroup(p) \/ Pick(p) \/ Member(p) \/ FlushDone(p)
    PROVE  Onwards(p) /\ log' = log /\ items' = items /\ pending' = pending
<1>1. /\ ppc \in [Publishers -> PPC] /\ visit \in [Publishers -> SUBSET SubIds]
      /\ last_sub_ids \in [Publishers -> SUBSET SubIds]
  BY OwnFacts DEF PubTypeOK
<1>2. CASE ReadFlag(p)
  <2>1. /\ ppc[p] = "no_subs" /\ ppc'[p] \in {"batch", "done"}
        /\ log' = log /\ items' = items /\ pending' = pending
    BY <1>1, <1>2 DEF ReadFlag, PGoto, batchVars, outcome
  <2> QED
    BY <2>1 DEF Onwards, Before, Grouping, Routing, Matching, AtItem, Looping
<1>3. CASE FastFlag(p)
  <2>1. /\ ppc[p] = "batch" /\ ppc'[p] \in {"next", "single"}
        /\ log' = log /\ items' = items /\ pending' = pending
    BY <1>1, <1>3 DEF FastFlag, PGoto, batchVars, outcome
  <2> QED
    BY <2>1 DEF Onwards, Before, Grouping, Routing, Matching, AtItem, Looping
<1>4. CASE ExactSingleSubscriber(p)
  <2>1. /\ ppc[p] = "single" /\ ppc'[p] \in {"single_ref", "next"}
        /\ log' = log /\ items' = items /\ pending' = pending
    BY <1>1, <1>4 DEF ExactSingleSubscriber, PGoto, batchVars, outcome
  <2> QED
    BY <2>1 DEF Onwards, Before, Grouping, Routing, Matching, AtItem, Looping
<1>5. CASE NextItem(p)
  <2>1. /\ ppc[p] = "next" /\ ppc'[p] \in {"flush", "route", "match"}
        /\ log' = log /\ items' = items /\ pending' = pending /\ item' = item
    BY <1>1, <1>5 DEF NextItem, PGoto, batchVars, outcome
  <2> QED
    BY <2>1 DEF Onwards, Before, Grouping, Routing, Matching, AtItem, Looping
<1>6. CASE MatchExact(p)
  <2>1. /\ ppc[p] = "match" /\ ppc'[p] \in {"match_flag"}
        /\ log' = log /\ items' = items /\ pending' = pending /\ item' = item
    BY <1>1, <1>6 DEF MatchExact, PGoto, batchVars, outcome
  <2> QED
    BY <2>1 DEF Onwards, Before, Grouping, Routing, Matching, AtItem, Looping
<1>7. CASE MatchFlag(p)
  <2>1. /\ ppc[p] = "match_flag" /\ ppc'[p] \in {"match_trie", "route"}
        /\ log' = log /\ items' = items /\ pending' = pending /\ item' = item
    BY <1>1, <1>7 DEF MatchFlag, PGoto, batchVars, outcome
  <2> QED
    BY <2>1 DEF Onwards, Before, Grouping, Routing, Matching, AtItem, Looping
<1>8. CASE MatchTrie(p)
  <2>1. /\ ppc[p] = "match_trie" /\ ppc'[p] \in {"route"}
        /\ log' = log /\ items' = items /\ pending' = pending /\ item' = item
    BY <1>1, <1>8 DEF MatchTrie, PGoto, batchVars, outcome
  <2> QED
    BY <2>1 DEF Onwards, Before, Grouping, Routing, Matching, AtItem, Looping
<1>9. CASE Regroup(p)
  <2>1. /\ ppc[p] = "regroup" /\ ppc'[p] \in {"pick", "route"}
        /\ log' = log /\ items' = items /\ pending' = pending /\ item' = item /\ visit' = visit
    BY <1>1, <1>9 DEF Regroup, PGoto, batchVars, outcome
  <2> QED
    BY <2>1 DEF Onwards, Before, Grouping, Routing, Matching, AtItem, Looping
<1>10. CASE Pick(p)
  <2>1. /\ ppc[p] = "pick" /\ ppc'[p] \in {"member", "route"}
        /\ log' = log /\ items' = items /\ pending' = pending /\ item' = item /\ visit' = visit
    BY <1>1, <1>10 DEF Pick, PGoto, batchVars, outcome
  <2> QED
    BY <2>1 DEF Onwards, Before, Grouping, Routing, Matching, AtItem, Looping
<1>11. CASE Member(p)
  <2>1. /\ ppc[p] = "member" /\ ppc'[p] \in {"offer", "route"}
        /\ log' = log /\ items' = items /\ pending' = pending /\ item' = item /\ visit' = visit
    BY <1>1, <1>11 DEF Member, PGoto, batchVars, outcome
  <2> QED
    BY <2>1 DEF Onwards, Before, Grouping, Routing, Matching, AtItem, Looping
<1>12. CASE FlushDone(p)
  <2>1. /\ ppc[p] = "flush" /\ ppc'[p] \in {"done"}
        /\ log' = log /\ items' = items /\ pending' = pending
    BY <1>1, <1>12 DEF FlushDone, PGoto, batchVars, outcome
  <2> QED
    BY <2>1 DEF Onwards, Before, Grouping, Routing, Matching, AtItem, Looping
<1> QED
  BY <1>2, <1>3, <1>4, <1>5, <1>6, <1>7, <1>8, <1>9, <1>10, <1>11, <1>12

\* A step of a publisher keeps the logs in its order.
LEMMA OrderStep ==
    ASSUME CoreInv, InOrder, NEW p \in Publishers, Ordered(p), PublishSteps(p)
    PROVE  InOrder' /\ Ordered(p)'
<1>1. \/ \E n \in BatchSizes : \E subjects \in [1..n -> Subjects] : Publish(p, subjects)
      \/ FastRef(p) \/ (\E s \in SubIds : Route(p, s)) \/ RouteDone(p) \/ Offer(p)
      \/ (\E s \in SubIds : Flush(p, s)) \/ Send(p) \/ PublishReturn(p)
      \/ \/ ReadFlag(p) \/ FastFlag(p) \/ ExactSingleSubscriber(p) \/ NextItem(p)
         \/ MatchExact(p) \/ MatchFlag(p) \/ MatchTrie(p)
         \/ Regroup(p) \/ Pick(p) \/ Member(p) \/ FlushDone(p)
  BY DEF PublishSteps
<1>2. CASE \/ ReadFlag(p) \/ FastFlag(p) \/ ExactSingleSubscriber(p) \/ NextItem(p)
           \/ MatchExact(p) \/ MatchFlag(p) \/ MatchTrie(p)
           \/ Regroup(p) \/ Pick(p) \/ Member(p) \/ FlushDone(p)
  BY <1>2, OnwardsStep, OnwardsOrdered, LogsInOrder
<1>3. CASE \E n \in BatchSizes : \E subjects \in [1..n -> Subjects] : Publish(p, subjects)
  <2>1. log' = log
    BY <1>3 DEF Publish, outcome
  <2> QED
    BY <1>3, <2>1, PublishOrdered, LogsInOrder
<1>4. CASE FastRef(p) \/ (\E s \in SubIds : Route(p, s)) \/ RouteDone(p)
  <2>1. log' = log
    BY <1>4 DEF FastRef, Route, RouteDone, outcome
  <2> QED
    BY <1>4, <2>1, FastRefOrdered, RouteOrdered, RouteDoneOrdered, LogsInOrder
<1>5. CASE (\E s \in SubIds : Flush(p, s)) \/ PublishReturn(p)
  <2>1. log' = log
    BY <1>5 DEF Flush, PublishReturn, outcome
  <2> QED
    BY <1>5, <2>1, FlushOrdered, ReturnOrdered, LogsInOrder
<1>6. CASE Offer(p) \/ Send(p)
  BY <1>6, OfferOrdered, SendOrdered
<1> QED
  BY <1>1, <1>2, <1>3, <1>4, <1>5, <1>6

\* A step of a session, or none, does too: a subscription with a log keeps its group.
LEMMA SilentOrder ==
    ASSUME CoreInv, Relies, UNCHANGED pubVars, InOrder, \A p \in Publishers : Ordered(p)
    PROVE  InOrder' /\ \A p \in Publishers : Ordered(p)'
<1>1. PubTypeOK /\ Published
  BY DEF CoreInv, PubInv
<1>2. UNCHANGED <<ppc, items, item, visit, pending, log>>
  BY DEF pubVars, batchVars, outcome, history
<1>3. ASSUME NEW s \in SubIds, log[s] # <<>> PROVE Grouped(s)' <=> Grouped(s)
  <2>1. Elems(log[s]) # {}
    <3>1. log[s] \in Seq(Msgs)
      BY <1>1 DEF PubTypeOK
    <3>2. 1 \in DOMAIN log[s]
      BY <1>3, <3>1, SMT
    <3> QED
      BY <3>2 DEF Elems
  <2>2. s \in Ids
    BY <1>1, <2>1 DEF Published
  <2> QED
    BY <2>2, FixedByRelies
<1>4. InOrder'
  <2> SUFFICES ASSUME NEW s \in SubIds, NEW i \in DOMAIN log[s], NEW j \in DOMAIN log[s], i < j
               PROVE  (IF Grouped(s) THEN log[s][i] <= log[s][j] ELSE log[s][i] < log[s][j])'
    BY <1>2 DEF InOrder
  <2>1. log[s] # <<>>
    BY SMT
  <2> QED
    BY <1>2, <1>3, <2>1 DEF InOrder
<1>5. ASSUME NEW p \in Publishers PROVE Ordered(p)'
  <2>1. \A s : Collected(p, s)' = Collected(p, s)
    BY <1>2 DEF Collected
  <2>2. ASSUME NEW s \in SubIds PROVE ToCome(p, s)'
    <3>1. ToCome(p, s)
      BY DEF Ordered
    <3> QED
      BY <1>2, <2>1, <3>1 DEF ToCome
  <2>3. ASSUME NEW s \in SubIds PROVE Older(p, s)'
    <3>1. CASE log[s] = <<>>
      BY <1>2, <3>1, ElemsNone DEF Older
    <3>2. CASE log[s] # <<>>
      <4>1. Grouped(s)' <=> Grouped(s)
        BY <1>3, <3>2
      <4> QED
        BY <1>2, <2>1, <4>1 DEF Ordered, Older
    <3> QED
      BY <3>1, <3>2
  <2> QED
    BY <1>2, <2>2, <2>3 DEF Ordered
<1> QED
  BY <1>4, <1>5

\* What holds of the order at the start.
LEMMA InitOrder == CoreInit => InOrder /\ \A p \in Publishers : Ordered(p)
<1> SUFFICES ASSUME CoreInit PROVE InOrder /\ \A p \in Publishers : Ordered(p)
  OBVIOUS
<1>1. \A s \in SubIds : log[s] = <<>>
  BY DEF CoreInit, PubInit
<1>2. \A p \in Publishers : ppc[p] = "idle" /\ items[p] = <<>> /\ \A s \in SubIds : pending[p][s] = <<>>
  BY DEF CoreInit, PubInit, NoPending
<1>3. InOrder
  BY <1>1, SMT DEF InOrder
<1>4. "idle" \notin Looping
  BY DEF Before, Grouping, Routing, Matching, AtItem, Looping
<1>5. \A p \in Publishers : Ordered(p)
  BY <1>1, <1>2, <1>4, SortedNone, ElemsNone DEF Ordered, ToCome, Older
<1> QED
  BY <1>3, <1>5

-----------------------------------------------------------------------------
(* Queue groups *)

\* A queue group a publisher finds in the router and in the registry at every step.
Playing(p, subj, group) ==
    /\ group # {}
    /\ group \subseteq expected[p] /\ group \subseteq SubIds
    /\ \A s \in group : s \in subscriptions /\ s \in exact /\ Grouped(s) /\ sub[s].pattern = subj

\* What a group has been offered stays true while others run.
LEMMA SparedGroup ==
    ASSUME PubTypeOK, Published, Grows, NEW p \in Publishers, Spared(p), Stage(p),
           NEW subj, NEW group \in SUBSET SubIds, GroupServed(p, subj, group)
    PROVE  GroupServed(p, subj, group)'
<1>1. /\ ppc'[p] = ppc[p] /\ items'[p] = items[p] /\ item'[p] = item[p]
      /\ last_sub_ids'[p] = last_sub_ids[p] /\ visit'[p] = visit[p] /\ chosen'[p] = chosen[p]
  BY DEF Spared
<1>2. items[p] \in Seq(Msgs) /\ item[p] \in Nat
  BY DEF PubTypeOK
<1>3. \A i \in 1..Len(items[p]) : SubjectAt(p, i)' = SubjectAt(p, i)
  BY <1>1, SubjectsStay
<1>4. \A m : Offered(group, m) => Offered(group, m)'
  BY DEF Offered, Grows
<1>5. /\ ppc[p] = "single_ref" => 1 \in 1..Len(items[p])
      /\ ppc[p] \in Looping => \A j \in 1..(item[p] - 1) : j \in 1..Len(items[p])
      /\ ppc[p] \in Matching \cup Routing => item[p] \in 1..Len(items[p])
      /\ ppc[p] = "next" /\ item[p] > 1 => item[p] - 1 \in 1..Len(items[p])
  <2>1. ppc[p] = "single_ref" => items[p] # <<>>
    BY DEF Stage
  <2>2. ppc[p] \in Matching \cup Routing => item[p] \in 1..Len(items[p])
    BY DEF Stage, AtItem
  <2>3. ppc[p] = "next" => item[p] \in 1..(Len(items[p]) + 1)
    BY DEF Stage
  <2>4. ppc[p] \in Looping => item[p] \in 1..(Len(items[p]) + 1)
    <3>1. ppc[p] \in AtItem => item[p] \in 1..Len(items[p])
      BY DEF Stage
    <3>2. ppc[p] \in Looping => ppc[p] = "next" \/ ppc[p] \in AtItem
      BY DEF Looping
    <3> QED
      BY <1>2, <2>3, <3>1, <3>2, SMT
  <2> QED
    BY <1>2, <2>1, <2>2, <2>3, <2>4, SMT
<1> QED
  BY <1>1, <1>3, <1>4, <1>5 DEF GroupServed

\* Before the routing loop nothing is asked of a group but that the single subscriber is of it.
LEMMA GroupBefore ==
    ASSUME NEW p \in Publishers, NEW subj, NEW group,
           \/ ppc'[p] \in {"idle", "no_subs", "batch", "single"}
           \/ ppc'[p] = "next" /\ item'[p] = 1
    PROVE  GroupServed(p, subj, group)'
<1>1. /\ ppc'[p] \notin Matching \cup Routing /\ ppc'[p] \notin {"single_ref", "flush", "send", "done"}
      /\ ppc'[p] \in Looping => item'[p] = 1
      /\ ppc'[p] = "next" => item'[p] = 1
  BY DEF Grouping, Routing, Matching, AtItem, Looping
<1>2. item'[p] = 1 => ~ (item'[p] > 1) /\ \A j : j \notin 1..(item'[p] - 1)
  BY SMT
<1> QED
  BY <1>1, <1>2 DEF GroupServed

\* ReadFlag ends the call only when nobody was registered; FastFlag starts the loop.
LEMMA GroupFastFlag ==
    ASSUME CoreInv, NEW p \in Publishers, PublishSteps(p), ReadFlag(p) \/ FastFlag(p),
           NEW subj, NEW group, Playing(p, subj, group)
    PROVE  GroupServed(p, subj, group)'
<1>1. Own(p) /\ ppc \in [Publishers -> PPC] /\ item \in [Publishers -> Nat]
  BY OwnFacts DEF PubTypeOK
<1>2. CASE ReadFlag(p)
  <2>1. ppc[p] = "no_subs"
    BY <1>2 DEF ReadFlag
  <2>2. expected[p] = {}
    BY <1>1, <2>1 DEF Own, Publisher, Served
  <2> QED
    BY <2>2 DEF Playing
<1>3. CASE FastFlag(p)
  <2>1. ppc'[p] \in {"next", "single"} /\ item'[p] = 1
    BY <1>1, <1>3 DEF FastFlag, PGoto
  <2> QED
    BY <2>1, GroupBefore
<1> QED
  BY <1>2, <1>3

\* The single subscriber of the subject of a group is its only member.
LEMMA GroupExactSingle ==
    ASSUME CoreInv, NEW p \in Publishers, PublishSteps(p), ExactSingleSubscriber(p),
           NEW subj, NEW group, Playing(p, subj, group)
    PROVE  GroupServed(p, subj, group)'
<1>1. /\ Own(p) /\ ppc \in [Publishers -> PPC] /\ chosen \in [Publishers -> 0..MaxSubs]
      /\ ppc[p] = "single" /\ item' = item
  BY OwnFacts DEF PubTypeOK, ExactSingleSubscriber
<1>2. item'[p] = 1
  BY <1>1 DEF Own, Publisher, Stage
<1>3. CASE ppc'[p] = "next"
  BY <1>2, <1>3, GroupBefore
<1>4. CASE ppc'[p] # "next"
  <2>1. /\ ppc'[p] = "single_ref"
        /\ ExactIds(SubjectAt(p, 1)) = {chosen'[p]}
    BY <1>1, <1>4 DEF ExactSingleSubscriber, PGoto
  <2>2. SubjectAt(p, 1)' = SubjectAt(p, 1)
    BY DEF ExactSingleSubscriber, SubjectAt, history
  <2>3. SubjectAt(p, 1) = subj => chosen'[p] \in group
    <3> SUFFICES ASSUME SubjectAt(p, 1) = subj PROVE chosen'[p] \in group
      OBVIOUS
    <3>1. group # {} /\ \A s \in group : s \in ExactIds(SubjectAt(p, 1))
      BY DEF Playing, ExactIds
    <3> QED
      BY <2>1, <3>1
  <2>4. ppc'[p] \notin Looping /\ ppc'[p] \notin Matching \cup Routing
        /\ ppc'[p] \notin {"next", "flush", "send", "done"}
    BY <2>1 DEF Grouping, Routing, Matching, AtItem, Looping
  <2> QED
    BY <2>2, <2>3, <2>4 DEF GroupServed
<1> QED
  BY <1>3, <1>4

\* The fast path is not taken for a member of a group, so a batch it hands over has no item on
\* the group's subject.
LEMMA GroupFastRef ==
    ASSUME CoreInv, NEW p \in Publishers, PublishSteps(p), FastRef(p),
           NEW subj, NEW group, Playing(p, subj, group), GroupServed(p, subj, group)
    PROVE  GroupServed(p, subj, group)'
<1>1. /\ Own(p) /\ ppc \in [Publishers -> PPC] /\ ppc[p] = "single_ref" /\ item' = item
      /\ items' = items /\ UNCHANGED history /\ items[p] \in Seq(Msgs)
  BY OwnFacts DEF PubTypeOK, FastRef
<1>2. item'[p] = 1
  BY <1>1 DEF Own, Publisher, Stage
<1>3. CASE ppc'[p] = "next"
  BY <1>2, <1>3, GroupBefore
<1>4. CASE ppc'[p] # "next"
  <2>1. /\ ppc'[p] = "send" /\ ~ Grouped(chosen[p])
        /\ \A i \in DOMAIN items[p] : SubjectAt(p, i) = SubjectAt(p, 1)
    BY <1>1, <1>4 DEF FastRef, PGoto
  <2>2. \A i : SubjectAt(p, i)' = SubjectAt(p, i)
    BY <1>1 DEF SubjectAt, history
  <2>3. SubjectAt(p, 1) # subj
    BY <1>1, <2>1 DEF GroupServed, Playing
  <2>4. \A i \in 1..Len(items'[p]) : SubjectAt(p, i) # subj
    <3>1. DOMAIN items[p] = 1..Len(items'[p])
      BY <1>1, SMT
    <3> QED
      BY <2>1, <2>3, <3>1
  <2>5. ppc'[p] \notin Looping /\ ppc'[p] \notin Matching \cup Routing
        /\ ppc'[p] \notin {"next", "single_ref"}
    BY <2>1 DEF Grouping, Routing, Matching, AtItem, Looping
  <2> QED
    BY <2>2, <2>4, <2>5 DEF GroupServed
<1> QED
  BY <1>3, <1>4

\* In the routing loop the items behind are offered already: only the one at hand matters.
LEMMA GroupLoops ==
    ASSUME CoreInv, NEW p \in Publishers, PublishSteps(p),
           NEW subj, NEW group \in SUBSET SubIds, GroupServed(p, subj, group),
           UNCHANGED <<history, items, item>>,
           ppc[p] \in Looping, ppc'[p] \in AtItem,
           ppc'[p] \in Matching \cup Routing /\ SubjectAt(p, item[p]) = subj =>
               group \subseteq last_sub_ids'[p],
           ppc'[p] \in Routing /\ SubjectAt(p, item[p]) = subj =>
               \/ group \cap visit'[p] # {}
               \/ ppc'[p] \in Grouping /\ chosen'[p] \in group
               \/ Offered(group, items[p][item[p]])'
    PROVE  GroupServed(p, subj, group)'
<1>1. \A i : SubjectAt(p, i)' = SubjectAt(p, i)
  BY DEF SubjectAt, history
<1>2. \A m : Offered(group, m) => Offered(group, m)'
  BY StaysSettled DEF Offered
<1>3. ppc'[p] \notin {"single_ref", "next", "flush", "send", "done"}
  BY DEF Grouping, Routing, Matching, AtItem
<1> QED
  BY <1>1, <1>2, <1>3 DEF GroupServed

\* The match result of a subject holds its groups, and is used again with all of them in it.
LEMMA GroupNextItem ==
    ASSUME CoreInv, NEW p \in Publishers, PublishSteps(p), NextItem(p),
           NEW subj, NEW group, Playing(p, subj, group), GroupServed(p, subj, group)
    PROVE  GroupServed(p, subj, group)'
<1>1. /\ Own(p) /\ PubTypeOK /\ ppc[p] = "next" /\ UNCHANGED <<history, items, item>>
      /\ group \in SUBSET SubIds /\ group # {}
  BY OwnFacts DEF NextItem, Playing
<1>2. items[p] \in Seq(Msgs) /\ item[p] \in 1..(Len(items[p]) + 1)
  BY <1>1 DEF Own, Typed, Publisher, Stage
<1>3. "next" \in Looping
  BY DEF Looping
<1>4. CASE item[p] > Len(items[p])
  <2>1. ppc'[p] = "flush"
    BY <1>1, <1>4 DEF NextItem, PGoto, PubTypeOK
  <2>2. \A j \in 1..Len(items[p]) : j \in 1..(item[p] - 1)
    BY <1>2, <1>4, SMT
  <2>3. \A i : SubjectAt(p, i)' = SubjectAt(p, i)
    BY <1>1 DEF SubjectAt, history
  <2>4. \A m : Offered(group, m) => Offered(group, m)'
    BY <1>1, StaysSettled DEF Offered
  <2>5. ppc'[p] \notin Looping /\ ppc'[p] \notin Matching \cup Routing
        /\ ppc'[p] \notin {"next", "single_ref"}
    BY <2>1 DEF Grouping, Routing, Matching, AtItem, Looping
  <2> QED
    BY <1>1, <1>3, <2>2, <2>3, <2>4, <2>5 DEF GroupServed
<1>5. CASE ~ (item[p] > Len(items[p])) /\ ~ (item[p] > 1 /\ SubjectAt(p, item[p]) = SubjectAt(p, item[p] - 1))
  <2>1. ppc'[p] = "match"
    BY <1>1, <1>5 DEF NextItem, PGoto, PubTypeOK
  <2>2. ppc'[p] \in AtItem /\ ppc'[p] \notin Matching \cup Routing
    BY <2>1 DEF AtItem, Matching, Routing, Grouping
  <2> QED
    BY <1>1, <1>3, <2>2, GroupLoops
<1>6. CASE ~ (item[p] > Len(items[p])) /\ item[p] > 1 /\ SubjectAt(p, item[p]) = SubjectAt(p, item[p] - 1)
  <2>1. item[p] <= Len(items[p])
    BY <1>2, <1>6, SMT
  <2>2. ppc'[p] = "route" /\ visit'[p] = last_sub_ids[p] /\ last_sub_ids'[p] = last_sub_ids[p]
    BY <1>1, <1>6, <2>1 DEF NextItem, PGoto, PubTypeOK
  <2>3. SubjectAt(p, item[p]) = subj => group \subseteq last_sub_ids[p] /\ group \cap visit'[p] # {}
    BY <1>1, <1>6, <2>2 DEF GroupServed
  <2>4. ppc'[p] \in AtItem
    BY <2>2 DEF AtItem, Routing
  <2> QED
    BY <1>1, <1>3, <2>2, <2>3, <2>4, GroupLoops
<1> QED
  BY <1>4, <1>5, <1>6

\* Whatever the list of the literal pattern holds, the whole group is in it.
LEMMA GroupMatch ==
    ASSUME CoreInv, NEW p \in Publishers, PublishSteps(p), MatchExact(p) \/ MatchFlag(p) \/ MatchTrie(p),
           NEW subj, NEW group, Playing(p, subj, group), GroupServed(p, subj, group)
    PROVE  GroupServed(p, subj, group)'
<1>1. /\ Own(p) /\ PubTypeOK /\ ppc[p] \in {"match", "match_flag", "match_trie"}
      /\ UNCHANGED <<history, items, item>> /\ group \in SUBSET SubIds /\ group # {}
  BY OwnFacts DEF MatchExact, MatchFlag, MatchTrie, Playing, batchVars
<1>2. ppc[p] \in Looping
  BY <1>1 DEF Looping, AtItem, Matching
<1>3. ppc[p] \in {"match_flag", "match_trie"} =>
        /\ visit[p] = last_sub_ids[p]
        /\ SubjectAt(p, item[p]) = subj => group \subseteq last_sub_ids[p]
  BY <1>1 DEF Own, Publisher, Stage, Matching, GroupServed
<1>4. /\ ppc'[p] \in {"match_flag", "match_trie", "route"}
      /\ SubjectAt(p, item[p]) = subj => group \subseteq last_sub_ids'[p] /\ group \subseteq visit'[p]
  <2>1. CASE MatchExact(p)
    <3>1. /\ ppc'[p] = "match_flag"
          /\ last_sub_ids'[p] = ExactIds(SubjectAt(p, item[p]))
          /\ visit'[p] = ExactIds(SubjectAt(p, item[p]))
      BY <1>1, <2>1 DEF MatchExact, PGoto, PubTypeOK
    <3>2. SubjectAt(p, item[p]) = subj => group \subseteq ExactIds(SubjectAt(p, item[p]))
      BY DEF Playing, ExactIds
    <3> QED
      BY <3>1, <3>2
  <2>2. CASE MatchFlag(p)
    <3>1. /\ ppc[p] = "match_flag" /\ ppc'[p] \in {"match_trie", "route"}
          /\ last_sub_ids'[p] = last_sub_ids[p] /\ visit'[p] = visit[p]
      BY <1>1, <2>2 DEF MatchFlag, PGoto, PubTypeOK, batchVars
    <3> QED
      BY <1>3, <3>1
  <2>3. CASE MatchTrie(p)
    <3>1. /\ ppc[p] = "match_trie" /\ ppc'[p] = "route"
          /\ last_sub_ids[p] \subseteq last_sub_ids'[p] /\ last_sub_ids[p] \subseteq visit'[p]
      BY <1>1, <2>3 DEF MatchTrie, PGoto, PubTypeOK
    <3> QED
      BY <1>3, <3>1
  <2> QED
    BY <2>1, <2>2, <2>3
<1>5. ppc'[p] \in AtItem
  BY <1>4 DEF AtItem, Matching, Routing
<1>6. SubjectAt(p, item[p]) = subj => group \cap visit'[p] # {}
  BY <1>1, <1>4
<1> QED
  BY <1>1, <1>2, <1>4, <1>5, <1>6, GroupLoops

\* A member the loop takes out of the match result is registered, so its delivery begins.
LEMMA GroupRoute ==
    ASSUME CoreInv, NEW p \in Publishers, PublishSteps(p), NEW t \in SubIds, Route(p, t),
           NEW subj, NEW group, Playing(p, subj, group), GroupServed(p, subj, group)
    PROVE  GroupServed(p, subj, group)'
<1>1. /\ Own(p) /\ PubTypeOK /\ ppc[p] = "route"
      /\ UNCHANGED <<history, items, item, last_sub_ids>> /\ group \in SUBSET SubIds
  BY OwnFacts DEF Route, Playing
<1>2. ppc[p] \in Looping /\ ppc[p] \in Routing /\ ppc[p] \notin Grouping
  BY <1>1 DEF Looping, AtItem, Routing, Grouping
<1>3. /\ visit'[p] = visit[p] \ {t}
      /\ ppc'[p] \in {"route", "regroup"}
      /\ t \in group => ppc'[p] = "regroup" /\ chosen'[p] = t
  <2>1. visit'[p] = visit[p] \ {t}
    BY <1>1 DEF Route, PubTypeOK
  <2>2. CASE (t \in sub_cache[p] \/ t \in subscriptions) /\ Grouped(t)
    BY <1>1, <2>1, <2>2 DEF Route, PGoto, PubTypeOK
  <2>3. CASE ~ ((t \in sub_cache[p] \/ t \in subscriptions) /\ Grouped(t))
    <3>1. ppc'[p] = "route"
      BY <1>1, <2>3 DEF Route
    <3> QED
      BY <2>1, <2>3, <3>1 DEF Playing
  <2> QED
    BY <2>2, <2>3
<1>4. ppc'[p] \in AtItem
  BY <1>3 DEF AtItem, Routing, Grouping
<1>5. SubjectAt(p, item[p]) = subj => group \subseteq last_sub_ids'[p]
  BY <1>1, <1>2 DEF GroupServed
<1>6. SubjectAt(p, item[p]) = subj =>
        \/ group \cap visit'[p] # {}
        \/ ppc'[p] \in Grouping /\ chosen'[p] \in group
        \/ Offered(group, items[p][item[p]])'
  <2> SUFFICES ASSUME SubjectAt(p, item[p]) = subj, t \notin group
               PROVE  group \cap visit'[p] # {} \/ Offered(group, items[p][item[p]])'
    BY <1>3 DEF Grouping
  <2>1. group \cap visit[p] # {} \/ Offered(group, items[p][item[p]])
    BY <1>2 DEF GroupServed
  <2>2. group \cap visit[p] # {} => group \cap visit'[p] # {}
    BY <1>3
  <2>3. Offered(group, items[p][item[p]]) => Offered(group, items[p][item[p]])'
    BY <1>1, StaysSettled DEF Offered
  <2> QED
    BY <2>1, <2>2, <2>3
<1> QED
  BY <1>1, <1>2, <1>4, <1>5, <1>6, GroupLoops

\* When the match result is used up the item has been offered.
LEMMA GroupRouteDone ==
    ASSUME CoreInv, NEW p \in Publishers, PublishSteps(p), RouteDone(p),
           NEW subj, NEW group, Playing(p, subj, group), GroupServed(p, subj, group)
    PROVE  GroupServed(p, subj, group)'
<1>1. /\ Own(p) /\ PubTypeOK /\ ppc[p] = "route" /\ visit[p] = {}
      /\ UNCHANGED <<history, items, last_sub_ids>> /\ group \in SUBSET SubIds
  BY OwnFacts DEF RouteDone, Playing
<1>2. ppc[p] \in Looping /\ ppc[p] \in Routing /\ ppc[p] \notin Grouping
  BY <1>1 DEF Looping, AtItem, Routing, Grouping
<1>3. ppc'[p] = "next" /\ item'[p] = item[p] + 1 /\ item[p] \in Nat
  BY <1>1 DEF RouteDone, PGoto, PubTypeOK
<1>4. \A i : SubjectAt(p, i)' = SubjectAt(p, i)
  BY <1>1 DEF SubjectAt, history
<1>5. \A m : Offered(group, m) => Offered(group, m)'
  BY <1>1, StaysSettled DEF Offered
<1>6. SubjectAt(p, item[p]) = subj => group \subseteq last_sub_ids[p] /\ Offered(group, items[p][item[p]])
  <2>1. SubjectAt(p, item[p]) = subj => group \subseteq last_sub_ids[p]
    BY <1>2 DEF GroupServed
  <2>2. SubjectAt(p, item[p]) = subj => group \cap visit[p] # {} \/ Offered(group, items[p][item[p]])
    BY <1>2 DEF GroupServed
  <2> QED
    BY <1>1, <2>1, <2>2
<1>7. /\ item'[p] - 1 = item[p]
      /\ \A j \in 1..(item'[p] - 1) : j = item[p] \/ j \in 1..(item[p] - 1)
  BY <1>3, SMT
<1>8. \A j \in 1..(item'[p] - 1) : SubjectAt(p, j) = subj => Offered(group, items[p][j])
  BY <1>2, <1>6, <1>7 DEF GroupServed
<1>9. ppc'[p] \notin Matching \cup Routing /\ ppc'[p] \notin {"single_ref", "flush", "send", "done"}
  BY <1>3 DEF Matching, Routing, Grouping
<1> QED
  BY <1>1, <1>4, <1>5, <1>6, <1>7, <1>8, <1>9 DEF GroupServed

\* A member is looked up, twice, and found; the offer is made.
LEMMA GroupDelivers ==
    ASSUME CoreInv, NEW p \in Publishers, PublishSteps(p), Regroup(p) \/ Member(p) \/ Offer(p),
           NEW subj, NEW group, Playing(p, subj, group), GroupServed(p, subj, group)
    PROVE  GroupServed(p, subj, group)'
<1>1. /\ Own(p) /\ PubTypeOK /\ ppc[p] \in {"regroup", "member", "offer"}
      /\ UNCHANGED <<history, items, item, last_sub_ids, visit, chosen>> /\ group \in SUBSET SubIds
  BY OwnFacts DEF Regroup, Member, Offer, Playing, batchVars
<1>2. ppc[p] \in Looping /\ ppc[p] \in Routing /\ ppc[p] \in Grouping
  BY <1>1 DEF Looping, AtItem, Routing, Grouping
<1>3. /\ ppc'[p] \in {"pick", "offer", "route"}
      /\ chosen[p] \in group => ppc'[p] \in Grouping \/ Offered(group, items[p][item[p]])'
  <2>1. CASE Regroup(p)
    <3>1. ppc'[p] = (IF chosen[p] \in subscriptions THEN "pick" ELSE "route")
      BY <1>1, <2>1 DEF Regroup, PGoto, PubTypeOK
    <3> QED
      BY <3>1 DEF Playing, Grouping
  <2>2. CASE Member(p)
    <3>1. ppc'[p] = (IF chosen[p] \in subscriptions THEN "offer" ELSE "route")
      BY <1>1, <2>2 DEF Member, PGoto, PubTypeOK
    <3> QED
      BY <3>1 DEF Playing, Grouping
  <2>3. CASE Offer(p)
    <3>1. ppc'[p] = "route"
      BY <1>1, <2>3 DEF Offer, PGoto, PubTypeOK
    <3>2. chosen[p] \in group => Settled(chosen[p], items[p][item[p]])'
      <4> SUFFICES ASSUME chosen[p] \in group PROVE Settled(chosen[p], items[p][item[p]])'
        OBVIOUS
      <4>1. chosen[p] \in SubIds /\ log \in [SubIds -> Seq(Msgs)]
        BY <1>1 DEF PubTypeOK
      <4>2. CASE dropped' = dropped \cup {<<chosen[p], items[p][item[p]]>>}
        BY <1>1, <4>2 DEF Settled
      <4>3. CASE log' = [log EXCEPT ![chosen[p]] = Append(@, items[p][item[p]])]
        <5>1. log'[chosen[p]] = Append(log[chosen[p]], items[p][item[p]])
          BY <4>1, <4>3
        <5>2. log[chosen[p]] \in Seq(Msgs)
          BY <4>1
        <5>3. \E i \in DOMAIN log'[chosen[p]] : log'[chosen[p]][i] = items[p][item[p]]
          <6>1. PICK q, m : q = log[chosen[p]] /\ m = items[p][item[p]]
            OBVIOUS
          <6>2. Len(q) + 1 \in DOMAIN Append(q, m) /\ Append(q, m)[Len(q) + 1] = m
            BY <5>2, <6>1, SMT
          <6> QED
            BY <5>1, <6>1, <6>2
        <5> QED
          BY <1>1, <5>3 DEF Settled
      <4> QED
        BY <2>3, <4>2, <4>3 DEF Offer
    <3> QED
      BY <1>1, <3>1, <3>2 DEF Offered
  <2> QED
    BY <2>1, <2>2, <2>3
<1>4. ppc'[p] \in AtItem
  BY <1>3 DEF AtItem, Routing, Grouping
<1>5. SubjectAt(p, item[p]) = subj => group \subseteq last_sub_ids'[p]
  BY <1>1, <1>2 DEF GroupServed
<1>6. SubjectAt(p, item[p]) = subj =>
        \/ group \cap visit'[p] # {}
        \/ ppc'[p] \in Grouping /\ chosen'[p] \in group
        \/ Offered(group, items[p][item[p]])'
  <2>1. SubjectAt(p, item[p]) = subj =>
          group \cap visit[p] # {} \/ chosen[p] \in group \/ Offered(group, items[p][item[p]])
    BY <1>2 DEF GroupServed
  <2>2. Offered(group, items[p][item[p]]) => Offered(group, items[p][item[p]])'
    BY <1>1, StaysSettled DEF Offered
  <2> QED
    BY <1>1, <1>3, <2>1, <2>2
<1> QED
  BY <1>1, <1>2, <1>4, <1>5, <1>6, GroupLoops

\* The second stage leaves the groups alone.
LEMMA GroupFlush ==
    ASSUME CoreInv, NEW p \in Publishers, PublishSteps(p),
           (\E s \in SubIds : Flush(p, s)) \/ Send(p) \/ FlushDone(p),
           NEW subj, NEW group, Playing(p, subj, group), GroupServed(p, subj, group)
    PROVE  GroupServed(p, subj, group)'
<1>1. /\ PubTypeOK /\ ppc[p] \in {"flush", "send"} /\ UNCHANGED <<history, items>>
      /\ group \in SUBSET SubIds
  BY OwnFacts DEF Flush, Send, FlushDone, Playing, batchVars
<1>2. ppc'[p] \in {"flush", "send", "done"}
  BY <1>1 DEF Flush, Send, FlushDone, PGoto, PubTypeOK
<1>3. \A i : SubjectAt(p, i)' = SubjectAt(p, i)
  BY <1>1 DEF SubjectAt, history
<1>4. \A m : Offered(group, m) => Offered(group, m)'
  BY <1>1, StaysSettled DEF Offered
<1>5. ppc'[p] \notin Looping /\ ppc'[p] \notin Matching \cup Routing
      /\ ppc'[p] \notin {"next", "single_ref"}
  BY <1>2 DEF Grouping, Routing, Matching, AtItem, Looping
<1> QED
  BY <1>1, <1>3, <1>4, <1>5 DEF GroupServed

===============================================================================

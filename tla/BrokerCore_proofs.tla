---------------------------- MODULE BrokerCore_proofs --------------------------
(***************************************************************************)
(* Publishing keeps its promises while sessions subscribe, unsubscribe and *)
(* disconnect, for every set of connections, publishers, patterns and      *)
(* groups, every matching relation and all bounds.                         *)
(***************************************************************************)
EXTENDS BrokerCore_publish, SubscriptionTable_proofs

USE Zenon

-----------------------------------------------------------------------------
(* A publisher and the tables *)

\* The index round robin computes is in range, so the Vec has an element there.
LEMMA MemberIsOne ==
    ASSUME TableInv, NEW k \in Keys, members[k] # {}
    PROVE  MemberAt(k, current_index[k] % Cardinality(members[k])) \in members[k]
<1> DEFINE M == members[k]
           i == current_index[k] % Cardinality(M)
<1>1. M \subseteq Joined /\ joined \in [SubIds -> Nat] /\ current_index[k] \in Nat
  BY SMT DEF TableInv, IInv, TypeOK, JoinedOrder
<1>2. IsFiniteSet(M) /\ Cardinality(M) \in Nat \ {0}
  <2>1. IsFiniteSet(1..MaxSubs)
    BY FS_Interval, TableAssumption, SMT
  <2>2. M \in SUBSET (1..MaxSubs)
    BY <1>1, SMT DEF Joined, SubIds
  <2>3. IsFiniteSet(M)
    BY <2>1, <2>2, FS_Subset
  <2>4. Cardinality(M) \in Nat
    BY <2>3, FS_CardinalityType
  <2>5. Cardinality(M) # 0
    BY <2>3, FS_EmptySet, SMTT(30)
  <2> QED
    BY <2>3, <2>4, <2>5, SMT
<1>3. i \in 0..(Cardinality(M) - 1)
  BY <1>1, <1>2, SMT
<1>4. \A s \in M : joined[s] \in Nat
  BY <1>1, SMT DEF Joined
<1>5. \A s, t \in M : joined[s] = joined[t] => s = t
  BY <1>1 DEF TableInv, JoinedOrder
<1>6. \E s \in M : Rank(M, joined, s) = i
  <2> HIDE DEF M, i
  <2> QED
    BY <1>2, <1>3, <1>4, <1>5, RankExists
<1> QED
  BY <1>6 DEF MemberAt, Rank

\* A step of a publisher keeps the invariant of the tables, and another one can rely on them.
LEMMA PublisherTableInv ==
    ASSUME TableInv, NEW p \in Publishers, PublishSteps(p), Holding(p)
    PROVE  TableInv' /\ Relies
<1> USE PublisherFrame
<1>1. current_index' \in [Keys -> Nat]
  <2>1. current_index \in [Keys -> Nat]
    BY SMT DEF TableInv, IInv, TypeOK
  <2>2. ppc[p] = "pick" => KeyOf(chosen[p]) \in Keys
    BY DrawnFields, SMT DEF TableInv, Holding, Grouping, Fields, Ids
  <2> QED
    BY <2>1, <2>2, SMT
<1>2. IInv'
  BY <1>1, IndexIInv DEF TableInv
<1>3. JoinedOrder'
  <2>1. UNCHANGED <<joined, members, sub_id_gen, pc, cur>>
    BY DEF drawn, locals
  <2>2. Joined' = Joined
    BY <2>1 DEF Joined
  <2> QED
    BY <2>1, <2>2 DEF TableInv, JoinedOrder
<1>4. FlagHolds'
  BY DEF TableInv, FlagHolds, WildsStay, IsWild, drawn, registry, routes, locals
<1> QED
  BY <1>2, <1>3, <1>4, PublisherRelies, SMT DEF TableInv

\* deliver_queue_group: the member at the index is one of the group, so the message is for it too.
LEMMA PickStep ==
    ASSUME CoreInv, NEW p \in Publishers, PublishSteps(p), Pick(p)
    PROVE  Own(p)'
<1>1. Own(p) /\ TableInv /\ IInv /\ ppc \in [Publishers -> PPC] /\ chosen \in [Publishers -> 0..MaxSubs]
  BY OwnFacts, SMT DEF PubTypeOK
<1>2. Steady(p)
  BY StaysSteady DEF Pick, history, outcome
<1>0. PICK t, k : t = chosen[p] /\ k = KeyOf(t)
  OBVIOUS
<1>3. /\ ppc[p] = "pick" /\ item'[p] = item[p]
      /\ pending'[p] = pending[p] /\ visit'[p] = visit[p]
      /\ last_sub_ids'[p] = last_sub_ids[p] /\ sub_cache'[p] = sub_cache[p]
  BY <1>1 DEF Pick
<1>4. \/ ppc'[p] = "route" /\ chosen'[p] = t
      \/ /\ Cardinality(members[k]) # 0 /\ ppc'[p] = "member"
         /\ chosen'[p] = MemberAt(k, current_index[k] % Cardinality(members[k]))
  BY <1>0, <1>1 DEF Pick, PGoto
<1>5. t \in Ids /\ Grouped(t) /\ Matches(t, SubjectAt(p, item[p])) /\ t \in 0..MaxSubs
  BY <1>0, <1>1, <1>3 DEF Own, Publisher, Holding, Typed, Grouping
<1>6. k \in Keys
  BY <1>0, <1>1, <1>5, DrawnFields DEF Fields, Ids
<1>7. CASE ppc'[p] = "route" /\ chosen'[p] = t
  <2>1. ppc[p] \in Routing /\ ppc'[p] \in Routing /\ ppc'[p] \notin Grouping /\ ppc'[p] # "offer"
    BY <1>3, <1>7, SMT DEF Routing, Grouping
  <2> QED
    BY <1>1, <1>2, <1>3, <1>5, <1>7, <2>1, RoutingStays
<1>8. CASE /\ Cardinality(members[k]) # 0 /\ ppc'[p] = "member"
           /\ chosen'[p] = MemberAt(k, current_index[k] % Cardinality(members[k]))
  <2>0. PICK u : u = chosen'[p]
    OBVIOUS
  <2>1. members[k] # {}
    BY <1>8, FS_EmptySet
  <2>2. u \in members[k]
    BY <1>1, <1>6, <1>8, <2>0, <2>1, MemberIsOne
  <2>3. u \in Ids /\ Grouped(u) /\ KeyOf(u) = k
    BY <1>1, <1>6, <2>2 DEF IInv, TypeOK, Drawn, Ids, MembersHoldTheirKey
  <2>4. sub[u].pattern = sub[t].pattern
    BY <1>0, <2>3, SMT DEF KeyOf
  <2>5. Matches(u, SubjectAt(p, item[p]))
    BY <1>5, <2>4 DEF Matches
  <2>6. ppc[p] \in Routing /\ ppc'[p] \in Routing /\ ppc'[p] # "offer"
    BY <1>3, <1>8, SMT DEF Routing, Grouping
  <2>7. u \in 0..MaxSubs
    BY <2>3, SMT DEF Ids, SubIds
  <2> QED
    BY <1>1, <1>2, <1>3, <2>0, <2>3, <2>5, <2>6, <2>7, RoutingStays
<1> QED
  BY <1>4, <1>7, <1>8, SMT

\* A batch is read: who is acknowledged and registered is counted, so when the counter is zero
\* nobody is owed anything.
LEMMA PublishStep ==
    ASSUME CoreInv, NEW p \in Publishers, PublishSteps(p), NEW n \in BatchSizes,
           NEW subjects \in [1..n -> Subjects], Publish(p, subjects)
    PROVE  Own(p)'
<1>1. Own(p) /\ PubTypeOK /\ IInv
  BY OwnFacts, SMT
<1>2. /\ ppc[p] = "idle" /\ ppc'[p] = (IF active_subscriptions # 0 THEN "batch" ELSE "no_subs")
      /\ item'[p] = item[p] /\ chosen'[p] = chosen[p] /\ pending'[p] = pending[p]
      /\ expected'[p] = Live /\ gone'[p] = acked \ subscriptions
      /\ last_sub_ids'[p] = last_sub_ids[p] /\ visit'[p] = visit[p] /\ sub_cache'[p] = sub_cache[p]
  BY <1>1 DEF Publish, PGoto, PubTypeOK
<1>3. pending[p] = NoPending /\ last_sub_ids[p] = {} /\ sub_cache[p] = {} /\ visit[p] = {}
  BY <1>1, <1>2, SMT DEF Own, Publisher, Stage, Before, Grouping, Routing, Matching, AtItem,
     Looping
<1>4. items'[p] \in Seq(Msgs) /\ items'[p] # <<>>
  <2>1. items'[p] \in Seq(Msgs) /\ Len(items'[p]) = n /\ n >= 1 /\ n \in Nat
    BY <1>1, PublishEffect
  <2> QED
    BY <2>1, SMT
<1>5. UNCHANGED <<acked, subscriptions>> /\ acked \subseteq SubIds
  BY <1>1, ZenonT(40) DEF Publish, tableVars, registry, IInv, TypeOK
<1>6. Live \subseteq acked /\ Live \subseteq SubIds
  BY <1>1, SMT DEF Live, IInv, TypeOK
<1>7. active_subscriptions = 0 => Live = {}
  <2>1. IsFiniteSet(Live \cup Removing)
    <3>1. IsFiniteSet(SubIds)
      BY TableAssumption, FS_Interval, SMTT(30) DEF SubIds
    <3>2. Removing \subseteq SubIds
      BY <1>1, SMT DEF Removing, IInv, TypeOK
    <3>3. Live \cup Removing \subseteq SubIds
      BY <1>6, <3>2
    <3> QED
      BY <3>1, <3>3, FS_Subset
  <2>2. active_subscriptions = Cardinality(Live \cup Removing)
    BY <1>1 DEF IInv, CountAgrees
  <2>3. active_subscriptions = 0 => Live \cup Removing = {}
    BY <2>1, <2>2, FS_EmptySet
  <2> QED
    BY <2>3
<1>8. Typed(p)'
  BY <1>1, <1>2, <1>4, <1>5, <1>6, SMT DEF Own, Typed, PPC
<1>9. Stage(p)' /\ Holding(p)' /\ Silent(p)'
  BY <1>2, <1>3, <1>4, <1>5, SMT DEF Stage, Holding, Silent, NoPending, Before, Grouping, Routing,
     Matching, AtItem, Looping
<1>10. Sound(p)'
  <2>1. \A s \in SubIds : pending'[p][s] = <<>>
    BY <1>2, <1>3, SMT DEF NoPending
  <2>2. \A s \in SubIds : Collected(p, s)' = {}
    BY <2>1, ElemsNone DEF Collected
  <2> QED
    BY <1>2, <1>3, <2>2, SMT DEF Sound, Before, Grouping, Routing, Matching, AtItem, Looping
<1>11. Served(p)'
  BY <1>2, <1>5, <1>6, <1>7, SMT DEF Served, Before, Grouping, Routing, Matching, AtItem, Looping
<1> QED
  BY <1>8, <1>9, <1>10, <1>11, SMT DEF Own, Publisher

\* A step of a publisher keeps what it keeps about itself.
LEMMA OwnStep ==
    ASSUME CoreInv, NEW p \in Publishers, PublishSteps(p)
    PROVE  Own(p)'
<1>1. \/ \E n \in BatchSizes : \E subjects \in [1..n -> Subjects] : Publish(p, subjects)
      \/ ReadFlag(p) \/ FastFlag(p) \/ ExactSingleSubscriber(p) \/ FastRef(p)
      \/ NextItem(p) \/ MatchExact(p) \/ MatchFlag(p) \/ MatchTrie(p)
      \/ (\E s \in SubIds : Route(p, s)) \/ RouteDone(p)
      \/ Regroup(p) \/ Pick(p) \/ Member(p) \/ Offer(p)
      \/ (\E s \in SubIds : Flush(p, s)) \/ Send(p) \/ FlushDone(p) \/ PublishReturn(p)
  BY DEF PublishSteps
<1> QED
  BY <1>1, PublishStep, ReadFlagStep, FastFlagStep, ExactSingleStep, FastRefStep, NextItemStep,
     MatchExactStep, MatchFlagStep, MatchTrieStep, RouteStep, RouteDoneStep, RegroupStep,
     PickStep, MemberStep, OfferStep, FlushStep, SendStep, FlushDoneStep, PublishReturnStep

-----------------------------------------------------------------------------
(* The invariant of the whole *)

\* A step of a publisher keeps the invariant of the whole.
LEMMA PublisherCoreInv ==
    ASSUME CoreInv, NEW p \in Publishers, PublishSteps(p)
    PROVE  CoreInv'
<1>1. /\ IInv /\ TableInv /\ PubTypeOK /\ Published /\ Publisher(p) /\ Holding(p)
      /\ \A q \in Publishers : Publisher(q)
  BY DEF CoreInv, PubInv, TableInv, Publisher
<1>2. TableInv' /\ Relies
  BY <1>1, PublisherTableInv, SMT
<1>3. Typed(p)' /\ Publisher(p)'
  BY OwnStep, SMT DEF Own
<1>4. PubTypeOK'
  BY <1>1, <1>3, TypesStep, SMT
<1>5. ASSUME NEW q \in Publishers \ {p} PROVE Publisher(q)'
  BY <1>1, <1>2, OthersSpared, PublishGrows, SparedKeeps
<1>6. \A q \in Publishers : Publisher(q)'
  BY <1>3, <1>5
<1> QED
  BY <1>2, <1>4, <1>6, SharedStep DEF CoreInv, PubInv

\* The invariant holds at the start.
LEMMA InitCoreInv == CoreInit => CoreInv
<1> SUFFICES ASSUME CoreInit PROVE CoreInv
  OBVIOUS
<1>1. Init /\ PubInit /\ IInv
  BY InitIInv, SMT DEF CoreInit
<1>2. JoinedOrder /\ FlagHolds
  BY <1>1, SMT DEF Init, Joined, JoinedOrder, FlagHolds
<1>3. PubTypeOK
  BY <1>1, TableAssumption, CoreAssumption, SMT DEF PubInit, PubTypeOK, NoPending, PPC
<1>4. \A p \in Publishers : Batch(p) = {}
  <2>1. \A p \in Publishers : items[p] = <<>>
    BY <1>1, SMT DEF PubInit
  <2> QED
    BY <2>1, ElemsNone DEF Batch
<1>5. Published
  <2>1. \A s \in SubIds : Elems(log[s]) = {}
    BY <1>1, ElemsNone, SMT DEF PubInit
  <2>2. dropped = {}
    BY <1>1 DEF PubInit
  <2> QED
    BY <1>4, <2>1, <2>2 DEF Published
<1>6. ASSUME NEW p \in Publishers PROVE Publisher(p)
  <2>0. /\ ppc[p] = "idle" /\ items[p] = <<>> /\ last_sub_ids[p] = {} /\ visit[p] = {}
        /\ sub_cache[p] = {} /\ pending[p] = NoPending /\ expected[p] = {} /\ gone[p] = {}
    BY <1>1, SMT DEF PubInit
  <2>1. Stage(p) /\ Holding(p) /\ Silent(p)
    BY <2>0, SMT DEF Stage, Holding, Silent, NoPending, Before, Grouping, Routing, Matching,
       AtItem, Looping
  <2>2. \A s \in SubIds : Collected(p, s) = {}
    <3>1. \A s \in SubIds : pending[p][s] = <<>>
      BY <2>0, SMT DEF NoPending
    <3> QED
      BY <3>1, ElemsNone DEF Collected
  <2>3. Sound(p)
    BY <2>0, <2>2, SMTT(30) DEF Sound, Before, Grouping, Routing, Matching, AtItem, Looping
  <2>4. Served(p)
    BY <2>0, SMT DEF Served, Owed, Before, Grouping, Routing, Matching, AtItem, Looping
  <2> QED
    BY <2>1, <2>3, <2>4, SMT DEF Publisher
<1>7. OnlyMatching
  BY <1>1, SMT DEF PubInit, OnlyMatching
<1>8. NoDeliveryAfterRemoval
  BY <1>1, SMT DEF PubInit, NoDeliveryAfterRemoval
<1> QED
  BY <1>1, <1>2, <1>3, <1>5, <1>6, <1>7, <1>8 DEF CoreInv, TableInv, PubInv

\* Every step of the core, a session's or a publisher's, keeps the invariant.
LEMMA CoreNextInv ==
    ASSUME CoreInv, [CoreNext]_coreVars
    PROVE  CoreInv'
<1>1. CASE UNCHANGED coreVars
  <2>1. UNCHANGED tableVars /\ UNCHANGED pubVars
    BY <1>1 DEF coreVars
  <2>2. UNCHANGED <<sub, sub_id_gen, acked, subscriptions, has_wildcards, joined, members, pc, cur>>
    BY <2>1 DEF tableVars, drawn, registry, routes, groups, locals
  <2>3. Relies
    BY <2>2 DEF Relies, Ids
  <2>4. IInv'
    BY <2>1, StutterIInv DEF CoreInv, TableInv
  <2>5. JoinedOrder' /\ FlagHolds'
    BY <2>2 DEF CoreInv, TableInv, JoinedOrder, Joined, FlagHolds, WildsStay, IsWild
  <2> QED
    BY <2>1, <2>3, <2>4, <2>5, SilentPubInv, SMT DEF CoreInv, TableInv
<1>2. ASSUME NEW c \in Conns, Session(c), UNCHANGED pubVars PROVE CoreInv'
  BY <1>2, SessionTableInv, SilentPubInv DEF CoreInv
<1>3. ASSUME NEW p \in Publishers, PublishSteps(p) PROVE CoreInv'
  BY <1>3, PublisherCoreInv, SMT
<1> QED
  BY <1>1, <1>2, <1>3 DEF CoreNext

\* The tables and the publishers keep their invariant in every behaviour of the core: sessions
\* that subscribe, unsubscribe and disconnect, and publishers that route batches, in any
\* interleaving of their critical sections.
THEOREM CoreInvariant == CoreSpec => []CoreInv
<1>1. CoreInit => CoreInv
  BY InitCoreInv, SMT
<1>2. CoreInv /\ [CoreNext]_coreVars => CoreInv'
  BY CoreNextInv, SMT
<1> QED
  BY <1>1, <1>2, PTL DEF CoreSpec

-----------------------------------------------------------------------------
(* What follows from it *)

\* The tables keep their invariant when publishers run, too: what SubscriptionTable_proofs says
\* of Spec holds of CoreSpec.
THEOREM CoreTables == CoreSpec => [](IInv /\ TypeOK /\ RegisteredIsReachable /\ CountAgrees /\ MembersHoldTheirKey)
<1>1. CoreInv => IInv /\ TypeOK /\ RegisteredIsReachable /\ CountAgrees /\ MembersHoldTheirKey
  BY DEF CoreInv, TableInv, IInv
<1> QED
  BY <1>1, CoreInvariant, PTL

\* A message reaches only subscriptions whose pattern matches its subject: the match result, the
\* cached one and the round robin of a queue group pick no other.
THEOREM DeliversOnlyMatching == CoreSpec => []OnlyMatching
<1>1. CoreInv => OnlyMatching
  BY DEF CoreInv, PubInv
<1> QED
  BY <1>1, CoreInvariant, PTL

\* Nothing of a batch reaches a subscription that had left the registry when the batch was read.
THEOREM RemovedGetsNothing == CoreSpec => []NoDeliveryAfterRemoval
<1>1. CoreInv => NoDeliveryAfterRemoval
  BY ZenonT(40) DEF CoreInv, PubInv
<1> QED
  BY <1>1, CoreInvariant, PTL

\* A plain literal subscription acknowledged before the batch was read and registered when the
\* call returns was offered every message of the batch on its subject.
THEOREM PublishLosesNothing == CoreSpec => []NothingLost
<1>1. CoreInv => NothingLost
  <2> SUFFICES ASSUME CoreInv, NEW p \in Publishers, ppc[p] = "done", NEW s \in expected[p] \cap subscriptions,
                      ~ Grouped(s), ~ IsWild(s), NEW m \in Due(p, s)
               PROVE  Settled(s, m)
    BY DEF NothingLost
  <2>1. s \in Owed(p)
    BY DEF Owed
  <2> QED
    BY <2>1, DoneSettles, SMT
<1> QED
  BY <1>1, CoreInvariant, PTL

\* So was a wildcard subscription, as long as no wildcard subscription has ever been removed.
THEOREM WildcardLosesNothing == CoreSpec => []NothingLostOnWildcard
<1>1. CoreInv => NothingLostOnWildcard
  <2> SUFFICES ASSUME CoreInv, NEW p \in Publishers, ppc[p] = "done",
                      \A t \in acked : IsWild(t) => t \in subscriptions,
                      NEW s \in expected[p], ~ Grouped(s), IsWild(s), NEW m \in Due(p, s)
               PROVE  Settled(s, m)
    BY DEF NothingLostOnWildcard
  <2>1. WildsStay
    BY DEF WildsStay
  <2>2. s \in acked
    BY OwnFacts DEF Own, Publisher, Served
  <2>3. s \in Owed(p)
    BY <2>1, <2>2 DEF Owed
  <2> QED
    BY <2>3, DoneSettles, SMT
<1> QED
  BY <1>1, CoreInvariant, PTL

\* With one publisher every subscription gets its messages in the order they were published, a
\* plain one each at most once, whatever the sessions do meanwhile.
THEOREM DeliversInOrder == ASSUME OnePublisher PROVE CoreSpec => []InOrder
<1> DEFINE I == CoreInv /\ InOrder /\ \A p \in Publishers : Ordered(p)
<1>1. CoreInit => I
  BY InitCoreInv, InitOrder, SMT
<1>2. I /\ [CoreNext]_coreVars => I'
  <2> SUFFICES ASSUME I, [CoreNext]_coreVars PROVE I'
    OBVIOUS
  <2>0. CoreInv /\ CoreInv' /\ InOrder /\ \A p \in Publishers : Ordered(p)
    BY CoreNextInv, SMT
  <2>1. CASE UNCHANGED coreVars
    <3>1. UNCHANGED <<sub, sub_id_gen, acked, subscriptions>> /\ UNCHANGED pubVars
      BY <2>1 DEF coreVars, tableVars, drawn, registry
    <3>2. Relies
      BY <3>1 DEF Relies, Ids
    <3> QED
      BY <2>0, <3>1, <3>2, SilentOrder
  <2>2. ASSUME NEW c \in Conns, Session(c), UNCHANGED pubVars PROVE I'
    <3>1. Relies
      BY <2>0, <2>2, SessionTableInv DEF CoreInv
    <3> QED
      BY <2>0, <2>2, <3>1, SilentOrder, ZenonT(40)
  <2>3. ASSUME NEW p \in Publishers, PublishSteps(p) PROVE I'
    <3>1. InOrder' /\ Ordered(p)'
      BY <2>0, <2>3, OrderStep, SMT
    <3>2. \A q \in Publishers : q = p
      BY DEF OnePublisher
    <3> QED
      BY <2>0, <3>1, <3>2
  <2> QED
    BY <2>1, <2>2, <2>3 DEF CoreNext
<1>3. I => InOrder
  OBVIOUS
<1> QED
  BY <1>1, <1>2, <1>3, PTL DEF CoreSpec

-----------------------------------------------------------------------------
(* Queue groups *)

\* A key nobody has left was left by nobody before.
LEMMA GroupStayed ==
    ASSUME IInv, Relies, NEW k, GroupStays(k)'
    PROVE  GroupStays(k)
BY KnownIds, FixedByRelies DEF GroupStays, Relies

\* A session takes ids off the list of a group whose key is that of an id it has removed, and no
\* other; joining puts its own id on the list before it inserts the route.
LEMMA SessionLists ==
    ASSUME IInv, NEW c \in Conns, Session(c)
    PROVE  /\ \A k \in Keys : members[k] \subseteq members'[k] \/ ~ GroupStays(k)
           /\ pc'[c] \in {"insert", "set_flag", "register"} =>
                 \/ pc[c] \in {"insert", "set_flag", "register"} /\ cur'[c] = cur[c]
                 \/ pc[c] = "join" /\ cur'[c] = cur[c] /\ \A k \in Keys : KeyOf(cur[c]) = k => cur[c] \in members'[k]
                 \/ pc[c] = "idle" /\ ~ Grouped(cur[c])'
           /\ subscriptions' \subseteq subscriptions \/ Register(c)
<1>1. /\ members \in [Keys -> SUBSET SubIds] /\ pc \in [Conns -> PC] /\ cur \in [Conns -> 0..MaxSubs]
      /\ sub \in [SubIds -> Subscription \cup {Unused}]
  BY DEF IInv, TypeOK
<1>2. \A k \in Keys : members[k] \subseteq members'[k] \/ ~ GroupStays(k)
  <2>1. \/ UNCHANGED members
        \/ JoinGroup(c) \/ LeaveGroup(c) \/ (\E s \in SubIds : LeaveAll(c, s)) \/ DropGroup(c)
    BY DEF Session, SubscribeSteps, UnsubscribeSteps, RemoveSteps, Subscribe, InternKey,
       InsertRoute, SetFlag, Register, IndexByConnection, CountSubscription, Unroute, CheckEmpty,
       ResetFlag, Unsubscribe, Unindex, Uncount, RemoveConnection, Purge, PurgeDone, DropKey,
       LeaveAllDone, groups
  <2>2. ASSUME NEW s \in removed[c], NEW k \in Keys, KeyOf(s) = k PROVE ~ GroupStays(k)
    <3>1. s \in acked \ subscriptions
      BY <2>2 DEF IInv, Sessions, Remover
    <3>2. Grouped(s)
      BY <2>2, TableAssumption, SMT DEF KeyOf, Keys, Grouped
    <3> QED
      BY <2>2, <3>1, <3>2 DEF GroupStays
  <2>3. CASE JoinGroup(c)
    BY <1>1, <2>3 DEF JoinGroup
  <2>4. CASE LeaveGroup(c)
    <3>1. cur[c] \in removed[c]
      BY <2>4 DEF LeaveGroup, IInv, Sessions, Remover, HoldsRemoved
    <3>2. \A k \in Keys : k # KeyOf(cur[c]) => members'[k] = members[k]
      BY <1>1, <2>4 DEF LeaveGroup
    <3> QED
      BY <2>2, <3>1, <3>2
  <2>5. ASSUME NEW s \in SubIds, LeaveAll(c, s)
        PROVE  \A k \in Keys : members[k] \subseteq members'[k] \/ ~ GroupStays(k)
    <3>1. s \in removed[c]
      BY <2>5 DEF LeaveAll, IInv, Sessions, Loops
    <3>2. \A k \in Keys : k # KeyOf(s) => members'[k] = members[k]
      BY <1>1, <2>5 DEF LeaveAll
    <3> QED
      BY <2>2, <3>1, <3>2, ZenonT(40)
  <2>6. CASE DropGroup(c)
    <3>1. cur[c] \in removed[c]
      BY <2>6 DEF DropGroup, IInv, Sessions, Remover, HoldsRemoved
    <3>2. \A k \in Keys : k # KeyOf(cur[c]) => members'[k] = members[k]
      BY <1>1, <2>6 DEF DropGroup
    <3> QED
      BY <2>2, <3>1, <3>2
  <2> QED
    BY <2>1, <2>3, <2>4, <2>5, <2>6
<1>3. pc'[c] \in {"insert", "set_flag", "register"} =>
                 \/ pc[c] \in {"insert", "set_flag", "register"} /\ cur'[c] = cur[c]
                 \/ pc[c] = "join" /\ cur'[c] = cur[c] /\ \A k \in Keys : KeyOf(cur[c]) = k => cur[c] \in members'[k]
                 \/ pc[c] = "idle" /\ ~ Grouped(cur[c])'
  <2> SUFFICES ASSUME pc'[c] \in {"insert", "set_flag", "register"}
               PROVE  \/ pc[c] \in {"insert", "set_flag", "register"} /\ cur'[c] = cur[c]
                      \/ pc[c] = "join" /\ cur'[c] = cur[c] /\ \A k \in Keys : KeyOf(cur[c]) = k => cur[c] \in members'[k]
                      \/ pc[c] = "idle" /\ ~ Grouped(cur[c])'
    OBVIOUS
  <2>1. \/ \E p \in Patterns, g \in Groups \cup {NoGroup} : Subscribe(c, p, g)
        \/ JoinGroup(c) \/ InsertRoute(c) \/ SetFlag(c)
        \/ UNCHANGED <<pc, cur>> 
        \/ \E label : label \notin {"insert", "set_flag", "register"} /\ pc' = [pc EXCEPT ![c] = label]
    BY DEF Session, SubscribeSteps, UnsubscribeSteps, RemoveSteps, Goto, Return, AfterUnroute,
       InternKey, Register, IndexByConnection, CountSubscription, Unroute, CheckEmpty, ResetFlag,
       Unsubscribe, Unindex, LeaveGroup, Uncount, RemoveConnection, Purge, PurgeDone, LeaveAll,
       DropGroup, DropKey, LeaveAllDone
  <2>2. CASE \E p \in Patterns, g \in Groups \cup {NoGroup} : Subscribe(c, p, g)
    <3>1. PICK p \in Patterns, g \in Groups \cup {NoGroup} : Subscribe(c, p, g)
      BY <2>2
    <3>2. pc[c] = "idle" /\ cur'[c] = sub_id_gen /\ g = NoGroup
      <4>1. pc'[c] = IF g = NoGroup THEN "insert" ELSE "intern"
        BY <1>1, <3>1, ZenonT(40) DEF Subscribe, Goto
      <4> QED
        BY <1>1, <3>1, <4>1 DEF Subscribe
    <3>3. sub_id_gen \in SubIds
      BY <3>1, TableAssumption, SMT DEF Subscribe, SubIds, IInv, TypeOK
    <3>4. sub'[sub_id_gen].group = NoGroup
      <4>1. sub'[sub_id_gen] = [conn |-> c, pattern |-> p, group |-> g, arc |-> 0]
        BY <1>1, <3>1, <3>3 DEF Subscribe
      <4> QED
        BY <3>2, <4>1, SMT
    <3> QED
      BY <3>2, <3>4 DEF Grouped
  <2>3. CASE JoinGroup(c)
    <3>1. pc[c] = "join" /\ cur' = cur /\ members' = [members EXCEPT ![KeyOf(cur[c])] = @ \cup {cur[c]}]
      BY <2>3 DEF JoinGroup
    <3> QED
      BY <1>1, <3>1
  <2>4. CASE InsertRoute(c) \/ SetFlag(c)
    BY <2>4 DEF InsertRoute, SetFlag
  <2>5. CASE UNCHANGED <<pc, cur>>
    BY <2>5
  <2>6. CASE \E label : label \notin {"insert", "set_flag", "register"} /\ pc' = [pc EXCEPT ![c] = label]
    BY <1>1, <2>6
  <2> QED
    BY <2>1, <2>2, <2>3, <2>4, <2>5, <2>6
<1> QED
  BY <1>2, <1>3, SessionFrame, ZenonT(40)

\* A session keeps the lists of the groups nobody has left.
LEMMA SessionGroups ==
    ASSUME IInv, GroupsHold, NEW c \in Conns, Session(c)
    PROVE  GroupsHold'
<1>1. Relies /\ pc \in [Conns -> PC] /\ cur \in [Conns -> 0..MaxSubs]
  BY SessionRelies DEF IInv, TypeOK
<1>2. \A d \in Conns : pc[d] \in Subscribing => cur[d] \in Ids
  BY CurDrawn DEF Ids
<1>3. \A d \in Conns \ {c} : pc'[d] = pc[d] /\ cur'[d] = cur[d]
  <2>1. /\ UNCHANGED pc \/ \E label : pc' = [pc EXCEPT ![c] = label]
        /\ UNCHANGED cur \/ \E s : cur' = [cur EXCEPT ![c] = s]
    BY DEF Session, SubscribeSteps, UnsubscribeSteps, RemoveSteps, Goto, Return, Subscribe,
       InternKey, JoinGroup, InsertRoute, SetFlag, Register, IndexByConnection, CountSubscription,
       Unroute, CheckEmpty, ResetFlag, Unsubscribe, Unindex, LeaveGroup, Uncount,
       RemoveConnection, Purge, PurgeDone, LeaveAll, DropGroup, DropKey, LeaveAllDone
  <2> QED
    BY <1>1, <2>1, ZenonT(40)
<1> SUFFICES ASSUME NEW k \in Keys, GroupStays(k)'
             PROVE  /\ GroupOf(k, subscriptions)' \subseteq members'[k]
                    /\ \A d \in Conns : pc'[d] \in {"insert", "set_flag", "register"} =>
                          GroupOf(k, {cur[d]})' \subseteq members'[k]
  BY DEF GroupsHold
<1>4. /\ GroupStays(k) /\ members[k] \subseteq members'[k]
  BY <1>1, GroupStayed, SessionLists
<1>5. \A s \in Ids : Grouped(s)' /\ KeyOf(s)' = k => Grouped(s) /\ KeyOf(s) = k
  BY <1>1, FixedByRelies
<1>6. /\ \A s \in subscriptions : Grouped(s) /\ KeyOf(s) = k => s \in members[k]
      /\ \A d \in Conns : pc[d] \in {"insert", "set_flag", "register"} /\ Grouped(cur[d]) /\ KeyOf(cur[d]) = k
            => cur[d] \in members[k]
  BY <1>4 DEF GroupsHold, GroupOf
<1>7. ASSUME NEW s \in subscriptions', Grouped(s)', KeyOf(s)' = k PROVE s \in members'[k]
  <2>1. CASE s \in subscriptions
    <3>1. s \in Ids
      BY <2>1, KnownIds
    <3> QED
      BY <1>4, <1>5, <1>6, <1>7, <2>1, <3>1
  <2>2. CASE Register(c) /\ s = cur[c]
    <3>1. pc[c] = "register" /\ s \in Ids
      BY <1>2, <2>2 DEF Register, Subscribing
    <3> QED
      BY <1>4, <1>5, <1>6, <1>7, <2>2, <3>1
  <2> QED
    BY <1>7, <2>1, <2>2, SessionFrame DEF Register
<1>8. ASSUME NEW d \in Conns, pc'[d] \in {"insert", "set_flag", "register"}, Grouped(cur[d])', KeyOf(cur[d])' = k
      PROVE  cur'[d] \in members'[k]
  <2>1. \/ pc[d] \in {"insert", "set_flag", "register"} /\ cur'[d] = cur[d]
        \/ pc[d] = "join" /\ cur'[d] = cur[d] /\ (KeyOf(cur[d]) = k => cur[d] \in members'[k])
    BY <1>3, <1>8, SessionLists
  <2>2. cur[d] \in Ids /\ cur'[d] = cur[d]
    BY <1>2, <2>1 DEF Subscribing
  <2>3. Grouped(cur[d]) /\ KeyOf(cur[d]) = k
    BY <1>5, <1>8, <2>2 DEF Grouped, KeyOf
  <2> QED
    BY <1>4, <1>6, <2>1, <2>2, <2>3
<1> QED
  BY <1>7, <1>8 DEF GroupOf

\* A group that nobody joins or leaves stays one, and stays the same.
LEMMA StaysStable ==
    ASSUME IInv, Relies, NEW p \in Publishers, expected'[p] = expected[p], expected[p] \subseteq acked,
           NEW k, Stable(p, k)'
    PROVE  Stable(p, k) /\ GroupOf(k, Ids)' = GroupOf(k, Ids)
<1>1. \A s \in GroupOf(k, Ids)' : s \in expected[p] /\ s \in subscriptions' /\ Grouped(s)' /\ KeyOf(s)' = k
  BY DEF Stable, GroupOf
<1>2. \A s \in GroupOf(k, Ids)' : s \in Ids /\ s \in subscriptions
  BY <1>1, KnownIds DEF Relies
<1>3. \A s \in GroupOf(k, Ids)' : s \in GroupOf(k, Ids)
  BY <1>1, <1>2, FixedByRelies DEF GroupOf
<1>4. \A s \in GroupOf(k, Ids) : s \in GroupOf(k, Ids)'
  <2> SUFFICES ASSUME NEW s \in GroupOf(k, Ids) PROVE s \in GroupOf(k, Ids)'
    OBVIOUS
  <2>1. s \in Ids /\ Grouped(s) /\ KeyOf(s) = k
    BY DEF GroupOf
  <2>2. s \in Ids' /\ Grouped(s)' /\ KeyOf(s)' = k
    BY <2>1, FixedByRelies DEF Relies
  <2> QED
    BY <2>2 DEF GroupOf
<1>5. GroupOf(k, Ids)' = GroupOf(k, Ids)
  BY <1>3, <1>4
<1> QED
  BY <1>1, <1>2, <1>5 DEF Stable

\* All of such a group is registered and routed by its subject, and nobody has left it.
LEMMA StablePlays ==
    ASSUME IInv, NEW p \in Publishers, NEW k \in Keys, Stable(p, k)
    PROVE  Playing(p, k[1], GroupOf(k, Ids)) /\ GroupStays(k)
<1>1. GroupOf(k, Ids) # {} /\ GroupOf(k, Ids) \subseteq expected[p] /\ GroupOf(k, Ids) \subseteq SubIds
  BY DEF Stable, GroupOf, Ids
<1>2. ASSUME NEW s \in GroupOf(k, Ids)
      PROVE  s \in subscriptions /\ s \in exact /\ Grouped(s) /\ sub[s].pattern = k[1]
  <2>1. s \in subscriptions /\ Grouped(s) /\ KeyOf(s) = k
    BY DEF Stable, GroupOf
  <2>2. sub[s].pattern = k[1]
    BY <2>1, SMT DEF KeyOf
  <2>3. k[1] \in Subjects /\ k[1] \notin Wilds
    BY TableAssumption DEF Stable
  <2>4. ~ IsWild(s)
    BY <2>2, <2>3 DEF IsWild
  <2>5. s \in exact
    BY <2>1, <2>4 DEF IInv, RegisteredIsReachable, Routed
  <2> QED
    BY <2>1, <2>2, <2>5
<1>3. GroupStays(k)
  BY KnownIds DEF GroupStays, Stable, GroupOf
<1> QED
  BY <1>1, <1>2, <1>3 DEF Playing

\* Round robin over the list of a stable group picks one of it.
LEMMA GroupPick ==
    ASSUME CoreInv, GroupsHold, NEW p \in Publishers, PublishSteps(p), Pick(p),
           NEW k \in Keys, Stable(p, k), GroupServed(p, k[1], GroupOf(k, Ids)),
           NEW group, group = GroupOf(k, Ids)
    PROVE  GroupServed(p, k[1], group)'
<1>1. /\ TableInv /\ IInv /\ PubTypeOK /\ ppc[p] = "pick"
      /\ UNCHANGED <<history, items, item, last_sub_ids, visit>> /\ group \in SUBSET SubIds
  BY OwnFacts DEF Pick, GroupOf, Ids
<1>2. ppc[p] \in Looping /\ ppc[p] \in Routing /\ ppc[p] \in Grouping
  BY <1>1 DEF Looping, AtItem, Routing, Grouping
<1>3. ppc'[p] \in {"route", "member"}
  BY <1>1 DEF Pick, PGoto, PubTypeOK
<1>4. ASSUME chosen[p] \in group PROVE ppc'[p] \in Grouping /\ chosen'[p] \in group
  <2>1. chosen[p] \in subscriptions /\ Grouped(chosen[p]) /\ KeyOf(chosen[p]) = k
    BY <1>4 DEF Stable, GroupOf
  <2>2. chosen[p] \in members[k]
    BY <1>1, <2>1, StablePlays DEF GroupsHold, GroupOf
  <2>3. Cardinality(members[k]) # 0
    <3>1. IsFiniteSet(1..MaxSubs)
      BY FS_Interval, TableAssumption, SMTT(30)
    <3>2. members[k] \in SUBSET (1..MaxSubs)
      BY <1>1 DEF IInv, TypeOK, SubIds
    <3> QED
      BY <2>2, <3>1, <3>2, FS_Subset, FS_EmptySet
  <2>4. /\ ppc'[p] = "member"
        /\ chosen'[p] = MemberAt(k, current_index[k] % Cardinality(members[k]))
    BY <1>1, <2>1, <2>3 DEF Pick, PGoto, PubTypeOK
  <2>5. chosen'[p] \in members[k]
    BY <1>1, <2>2, <2>4, MemberIsOne
  <2>6. chosen'[p] \in group
    BY <1>1, <2>5, ZenonT(40) DEF IInv, TypeOK, Drawn, Ids, MembersHoldTheirKey, GroupOf
  <2> QED
    BY <2>4, <2>6 DEF Grouping
<1>5. ppc'[p] \in AtItem
  BY <1>3 DEF AtItem, Routing, Grouping
<1>6. SubjectAt(p, item[p]) = k[1] => group \subseteq last_sub_ids'[p]
  BY <1>1, <1>2 DEF GroupServed
<1>7. SubjectAt(p, item[p]) = k[1] =>
        \/ group \cap visit'[p] # {}
        \/ ppc'[p] \in Grouping /\ chosen'[p] \in group
        \/ Offered(group, items[p][item[p]])'
  <2>1. SubjectAt(p, item[p]) = k[1] =>
          group \cap visit[p] # {} \/ chosen[p] \in group \/ Offered(group, items[p][item[p]])
    BY <1>2 DEF GroupServed
  <2>2. Offered(group, items[p][item[p]]) => Offered(group, items[p][item[p]])'
    BY <1>1, StaysSettled DEF Offered
  <2> QED
    BY <1>1, <1>4, <2>1, <2>2
<1>8. GroupServed(p, k[1], group)
  OBVIOUS
<1> QED
  BY <1>1, <1>2, <1>5, <1>6, <1>7, <1>8, GroupLoops

\* A step of a publisher goes on serving the groups.
LEMMA GroupOwnStep ==
    ASSUME CoreInv, GroupInv, NEW p \in Publishers, PublishSteps(p), NEW k \in Keys, Stable(p, k)'
    PROVE  GroupServed(p, k[1], GroupOf(k, Ids))'
<1>1. /\ IInv /\ PubTypeOK /\ Relies /\ expected[p] \subseteq acked
      /\ GroupsHold /\ (Stable(p, k) => GroupServed(p, k[1], GroupOf(k, Ids)))
  BY OwnFacts, PublisherRelies DEF GroupInv, Own, Publisher, Served
<1>2. CASE \/ \E n \in BatchSizes : \E subjects \in [1..n -> Subjects] : Publish(p, subjects)
           \/ PublishReturn(p)
  <2>1. ppc'[p] \in {"batch", "no_subs", "idle"}
    BY <1>1, <1>2 DEF Publish, PublishReturn, PGoto, PubTypeOK
  <2>2. PICK group : group = GroupOf(k, Ids)'
    OBVIOUS
  <2>3. GroupServed(p, k[1], group)'
    BY <2>1, GroupBefore
  <2> QED
    BY <2>2, <2>3 DEF GroupServed
<1>3. CASE ~ \/ \E n \in BatchSizes : \E subjects \in [1..n -> Subjects] : Publish(p, subjects)
             \/ PublishReturn(p)
  <2>1. \/ ReadFlag(p) \/ FastFlag(p) \/ ExactSingleSubscriber(p) \/ FastRef(p)
        \/ NextItem(p) \/ MatchExact(p) \/ MatchFlag(p) \/ MatchTrie(p)
        \/ (\E s \in SubIds : Route(p, s)) \/ RouteDone(p)
        \/ Regroup(p) \/ Pick(p) \/ Member(p) \/ Offer(p)
        \/ (\E s \in SubIds : Flush(p, s)) \/ Send(p) \/ FlushDone(p)
    BY <1>3 DEF PublishSteps
  <2>2. expected' = expected
    BY <2>1 DEF history, ReadFlag, FastFlag, ExactSingleSubscriber, FastRef, NextItem, MatchExact,
       MatchFlag, MatchTrie, Route, RouteDone, Regroup, Pick, Member, Offer, Flush, Send,
       FlushDone
  <2>3. PICK group : group = GroupOf(k, Ids)
    OBVIOUS
  <2>4. Stable(p, k) /\ GroupOf(k, Ids)' = group
    BY <1>1, <2>2, <2>3, StaysStable
  <2>5. Playing(p, k[1], group) /\ GroupServed(p, k[1], group)
    BY <1>1, <2>3, <2>4, StablePlays
  <2>6. GroupServed(p, k[1], group)'
    <3>1. CASE Pick(p)
      BY <1>1, <2>3, <2>4, <2>5, <3>1, GroupPick
    <3>2. CASE ReadFlag(p) \/ FastFlag(p) \/ ExactSingleSubscriber(p) \/ FastRef(p)
      BY <2>5, <3>2, GroupFastFlag, GroupExactSingle, GroupFastRef
    <3>3. CASE NextItem(p) \/ MatchExact(p) \/ MatchFlag(p) \/ MatchTrie(p)
      BY <2>5, <3>3, GroupNextItem, GroupMatch
    <3>4. CASE (\E s \in SubIds : Route(p, s)) \/ RouteDone(p)
      BY <2>5, <3>4, GroupRoute, GroupRouteDone
    <3>5. CASE Regroup(p) \/ Member(p) \/ Offer(p)
      BY <2>5, <3>5, GroupDelivers
    <3>6. CASE (\E s \in SubIds : Flush(p, s)) \/ Send(p) \/ FlushDone(p)
      BY <2>5, <3>6, GroupFlush, ZenonT(40)
    <3> QED
      BY <2>1, <3>1, <3>2, <3>3, <3>4, <3>5, <3>6
  <2> QED
    BY <2>4, <2>6 DEF GroupServed
<1> QED
  BY <1>2, <1>3

\* So does a step of anyone else.
LEMMA GroupOtherStep ==
    ASSUME CoreInv, GroupInv, Relies, Grows, NEW p \in Publishers, Spared(p), NEW k \in Keys, Stable(p, k)'
    PROVE  GroupServed(p, k[1], GroupOf(k, Ids))'
<1>1. /\ IInv /\ PubTypeOK /\ Published /\ Stage(p) /\ expected[p] \subseteq acked
      /\ (Stable(p, k) => GroupServed(p, k[1], GroupOf(k, Ids)))
  BY OwnFacts DEF GroupInv, Own, Publisher, Served
<1>2. PICK group : group = GroupOf(k, Ids)
  OBVIOUS
<1>3. Stable(p, k) /\ GroupOf(k, Ids)' = group
  BY <1>1, <1>2, StaysStable DEF Spared
<1>4. GroupServed(p, k[1], group) /\ group \in SUBSET SubIds
  BY <1>1, <1>2, <1>3 DEF GroupOf, Ids
<1>5. GroupServed(p, k[1], group)'
  BY <1>1, <1>4, SparedGroup
<1> QED
  BY <1>3, <1>5 DEF GroupServed

\* Every step of the core keeps the groups served.
LEMMA GroupNext ==
    ASSUME CoreInv, GroupInv, [CoreNext]_coreVars
    PROVE  GroupInv'
<1>0. GroupsHold /\ IInv /\ TableInv /\ PubTypeOK
  BY DEF GroupInv, CoreInv, PubInv, TableInv
<1>1. ASSUME UNCHANGED <<members, acked, subscriptions, sub, pc, cur>> PROVE GroupsHold'
  BY <1>0, <1>1 DEF GroupsHold, GroupStays, GroupOf, Grouped, KeyOf
<1>2. ASSUME UNCHANGED pubVars PROVE Grows /\ \A p \in Publishers : Spared(p)
  <2>1. UNCHANGED <<subject, log, dropped>> /\ \A p \in Publishers : Spared(p)
    BY <1>2 DEF pubVars, batchVars, outcome, history, Spared
  <2>2. Len(subject) <= Len(subject')
    BY <1>0, <2>1, SMT DEF PubTypeOK
  <2> QED
    BY <2>1, <2>2 DEF Grows, Settled
<1>3. CASE UNCHANGED coreVars
  <2>1. UNCHANGED <<members, acked, subscriptions, sub, sub_id_gen, pc, cur>> /\ UNCHANGED pubVars
    BY <1>3 DEF coreVars, tableVars, drawn, registry, groups, locals
  <2>2. Relies
    BY <2>1 DEF Relies, Ids
  <2> QED
    BY <1>1, <1>2, <2>1, <2>2, GroupOtherStep DEF GroupInv
<1>4. ASSUME NEW c \in Conns, Session(c), UNCHANGED pubVars PROVE GroupInv'
  <2>1. GroupsHold' /\ Relies
    BY <1>0, <1>4, SessionGroups, SessionRelies
  <2> QED
    BY <1>2, <1>4, <2>1, GroupOtherStep DEF GroupInv
<1>5. ASSUME NEW p \in Publishers, PublishSteps(p) PROVE GroupInv'
  <2>1. GroupsHold'
    BY <1>1, <1>5, PublisherFrame DEF drawn, registry, locals
  <2>2. Relies /\ Grows
    BY <1>0, <1>5, PublisherRelies, PublishGrows DEF CoreInv, PubInv
  <2>3. ASSUME NEW q \in Publishers \ {p}, NEW k \in Keys, Stable(q, k)'
        PROVE  GroupServed(q, k[1], GroupOf(k, Ids))'
    BY <1>0, <1>5, <2>2, <2>3, OthersSpared, GroupOtherStep
  <2>4. ASSUME NEW k \in Keys, Stable(p, k)' PROVE GroupServed(p, k[1], GroupOf(k, Ids))'
    BY <1>5, <2>4, GroupOwnStep
  <2>5. \A q \in Publishers, k \in Keys : Stable(q, k)' => GroupServed(q, k[1], GroupOf(k, Ids))'
    BY <2>3, <2>4
  <2> QED
    BY <2>1, <2>5 DEF GroupInv
<1> QED
  BY <1>3, <1>4, <1>5 DEF CoreNext

\* A queue group nobody joined or left since the batch was read, all of it acknowledged by then,
\* is offered every message of the batch on its subject: the round robin finds a member whatever
\* the other sessions and publishers do, and the registry lookups behind it find that member.
THEOREM GroupLosesNothing == CoreSpec => []StableGroupServed
<1>1. CoreInit => CoreInv /\ GroupInv
  <2> SUFFICES ASSUME CoreInit PROVE GroupInv
    BY InitCoreInv
  <2>1. /\ subscriptions = {} /\ \A c \in Conns : pc[c] = "idle"
        /\ \A p \in Publishers : ppc[p] = "idle" /\ expected[p] = {}
    BY DEF CoreInit, Init, PubInit
  <2>2. GroupsHold
    BY <2>1, SMT DEF GroupsHold, GroupOf
  <2>3. \A p \in Publishers, k \in Keys : ~ Stable(p, k)
    BY <2>1 DEF Stable
  <2> QED
    BY <2>2, <2>3 DEF GroupInv
<1>2. CoreInv /\ GroupInv /\ [CoreNext]_coreVars => (CoreInv /\ GroupInv)'
  BY CoreNextInv, GroupNext
<1>3. CoreInv /\ GroupInv => StableGroupServed
  <2> SUFFICES ASSUME CoreInv, GroupInv, NEW p \in Publishers, NEW k \in Keys, ppc[p] = "done",
                      GroupOf(k, 1..(sub_id_gen - 1)) # {}, k[1] \in Subjects,
                      GroupOf(k, 1..(sub_id_gen - 1)) \subseteq expected[p] \cap subscriptions,
                      NEW m \in {items[p][i] : i \in DOMAIN items[p]}, subject[m] = k[1]
               PROVE  \E s \in GroupOf(k, 1..(sub_id_gen - 1)) : Settled(s, m)
    BY DEF StableGroupServed
  <2>1. 1..(sub_id_gen - 1) = Ids
    <3>1. IInv
      BY OwnFacts
    <3>2. sub_id_gen \in 1..(MaxSubs + 1) /\ MaxSubs \in Nat
      BY <3>1, TableAssumption DEF IInv, TypeOK
    <3> QED
      BY <3>2, SMT DEF Ids, SubIds
  <2>2. GroupServed(p, k[1], GroupOf(k, Ids))
    BY <2>1 DEF GroupInv, Stable
  <2>3. DOMAIN items[p] = 1..Len(items[p])
    BY OwnFacts, SMT DEF PubTypeOK
  <2>4. PICK i \in 1..Len(items[p]) : m = items[p][i]
    BY <2>3
  <2> QED
    BY <2>1, <2>2, <2>4 DEF GroupServed, Offered, SubjectAt
<1> QED
  BY <1>1, <1>2, <1>3, PTL DEF CoreSpec

================================================================================

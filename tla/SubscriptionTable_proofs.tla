----------------------- MODULE SubscriptionTable_proofs ---------------------
(***************************************************************************)
(* Every step of subscribe, unsubscribe and remove_connection keeps the    *)
(* inductive invariant, so the invariants of SubscriptionTable hold for    *)
(* every set of connections, patterns and groups and every bound on the    *)
(* ids.                                                                    *)
(***************************************************************************)
EXTENDS SubscriptionTable_inv, FiniteSetTheorems, TLAPS

USE Zenon

-----------------------------------------------------------------------------
(* Facts about ids *)

\* The fields of the records that the invariant speaks of are typed: every id that was drawn
\* has a subscription with a connection, a pattern and a key.
LEMMA DrawnFields == IInv => Fields
BY DEF Fields, IInv, TypeOK, Subscription, Grouped, KeyOf, Keys

\* The id a session works on was drawn.
LEMMA CurDrawn ==
    ASSUME IInv, NEW c \in Conns, pc[c] \in Subscribing \cup HoldsRemoved
    PROVE  cur[c] \in SubIds /\ cur[c] < sub_id_gen
BY DEF IInv, Sessions, Subscriber, Remover, Drawn, TypeOK, SubIds

\* The local variables are typed: the part of the type invariant that the steps of a session need.
LEMMA LocalTypes == IInv => Locals
BY DEF IInv, TypeOK, Locals

\* The connection of a registered subscription is one.
LEMMA RegisteredOwner == IInv => \A s \in subscriptions : sub[s].conn \in Conns
BY DrawnFields DEF IInv, Fields, Drawn, TypeOK

\* What CountAgrees counts is finite, and a set of ids is.
LEMMA CountedFinite ==
    ASSUME TypeOK
    PROVE  IsFiniteSet(Live \cup Removing)
<1>0. removed \in [Conns -> SUBSET SubIds] /\ acked \subseteq SubIds
  BY DEF TypeOK
<1>1. Live \cup Removing \subseteq 1..MaxSubs
  BY <1>0 DEF Live, Removing, SubIds
<1>2. IsFiniteSet(1..MaxSubs)
  BY FS_Interval, TableAssumption, SMT
<1> QED
  BY <1>1, <1>2, FS_Subset

-----------------------------------------------------------------------------
(* Every step of subscribe keeps the invariant *)

\* Entering BrokerCore::subscribe, which draws an id, preserves the invariant.
LEMMA SubscribeStep ==
    ASSUME IInv, NEW c \in Conns, NEW p \in Patterns, NEW g \in Groups \cup {NoGroup}, Subscribe(c, p, g)
    PROVE  IInv'
<1>a. Locals
  BY LocalTypes
<1>b. \A t \in subscriptions : sub[t].conn \in Conns
  BY RegisteredOwner
<1> USE DEF IInv, Goto, drawn, registry, routes, groups
<1>3. TypeOK'
  <2>1. [conn |-> c, pattern |-> p, group |-> g, arc |-> 0] \in Subscription
    BY TableAssumption, SMT DEF Subscription
  <2>2. sub_id_gen \in SubIds
    BY SMT DEF Subscribe, TypeOK, SubIds
  <2>3. sub' \in [SubIds -> Subscription \cup {Unused}]
    BY <2>1 DEF Subscribe, TypeOK
  <2>4. \A s \in SubIds : s < sub_id_gen' => sub'[s] \in Subscription
    BY <2>1, <2>2, SMT DEF Subscribe, TypeOK, SubIds
  <2>5. sub_id_gen' \in 1..(MaxSubs + 1)
    BY TableAssumption, SMT DEF Subscribe, TypeOK
  <2>6. pc' \in [Conns -> PC] /\ cur' \in [Conns -> 0..MaxSubs]
    BY <1>a, <2>2, TableAssumption, SMT DEF Subscribe, Locals, PC, SubIds
  <2> QED
    BY <2>3, <2>4, <2>5, <2>6 DEF Subscribe, TypeOK
<1>c. sub_id_gen \in SubIds /\ sub_id_gen \notin acked
  BY SMT DEF Subscribe, TypeOK, SubIds, Drawn
<1>d. \A t \in SubIds : t < sub_id_gen => sub'[t] = sub[t]
  BY <1>c, SMT DEF Subscribe, TypeOK, SubIds
<1>e. \A t \in subscriptions \cup exact \cup wildcard_trie : sub'[t] = sub[t]
  BY <1>d DEF Drawn, TypeOK
<1>4. Sessions'
  <2>1. sub'[sub_id_gen].conn = c /\ sub'[sub_id_gen].group = g
    BY <1>c DEF Subscribe, TypeOK
  <2>2. Subscriber(c)'
    <3>1. pc'[c] \in {"insert", "intern"} /\ (pc'[c] = "intern" => g # NoGroup) /\ cur'[c] = sub_id_gen
      BY <1>a DEF Subscribe, Locals
    <3>2. acked' = acked /\ sub_id_gen < sub_id_gen'
      BY SMT DEF Subscribe, TypeOK
    <3> QED
      BY <1>c, <2>1, <3>1, <3>2 DEF Subscriber, Grouped
  <2>3. ASSUME NEW d \in Conns, d # c PROVE Subscriber(d)'
    <3>1. pc'[d] = pc[d] /\ cur'[d] = cur[d]
      BY <1>a, <2>3 DEF Subscribe, Locals
    <3>2. Subscriber(d) /\ sub_id_gen < sub_id_gen' /\ sub_id_gen \in Nat /\ sub_id_gen' \in Nat
      BY SMT DEF Subscribe, Sessions, TypeOK
    <3>3. UNCHANGED <<subscriptions, exact, wildcard_trie, acked>>
      BY DEF Subscribe
    <3> QED
      BY <1>d, <3>1, <3>2, <3>3, SMT DEF Subscriber, Subscribing, SubIds, Routed, IsWild, Grouped
  <2>4. ASSUME NEW d \in Conns PROVE Remover(d)'
    BY <1>a DEF Subscribe, Sessions, Remover, Subscribing, HoldsRemoved, Locals
  <2>5. ASSUME NEW d \in Conns PROVE Loops(d)'
    BY <1>a DEF Subscribe, Sessions, Loops, Subscribing, Locals
  <2>6. ASSUME NEW d \in Conns PROVE Caller(d)'
    BY <1>a DEF Subscribe, Sessions, Caller, Subscribing, Locals
  <2> QED
    BY <2>2, <2>3, <2>4, <2>5, <2>6 DEF Sessions
<1>5. Drawn' /\ RouteKind' /\ MembersHoldTheirKey'
  <2>1. Drawn'
    <3>1. \A t \in SubIds : t < sub_id_gen => t < sub_id_gen'
      BY SMT DEF Subscribe, TypeOK, SubIds
    <3>2. acked \cup subscriptions \cup exact \cup wildcard_trie \subseteq SubIds
      BY DEF TypeOK
    <3>3. \A k \in Keys : members[k] \subseteq SubIds
      BY DEF TypeOK
    <3> QED
      BY <3>1, <3>2, <3>3 DEF Subscribe, Drawn
  <2>2. RouteKind'
    BY <1>e DEF Subscribe, RouteKind, IsWild
  <2>3. \A k \in Keys : \A t \in members[k] : sub'[t] = sub[t]
    BY <1>d DEF Drawn, TypeOK
  <2>4. MembersHoldTheirKey'
    BY <2>3 DEF Subscribe, MembersHoldTheirKey, Grouped, KeyOf
  <2> QED
    BY <2>1, <2>2, <2>4
<1>6. RegisteredIsReachable'
  BY <1>a, <1>b, <1>e, SMT DEF Subscribe, RegisteredIsReachable, Locals, Routed, IsWild
<1>7. RouteIsOwned'
  BY <1>a DEF Subscribe, RouteIsOwned, Locals
<1>8. MemberIsOwned'
  BY <1>a, SMT DEF Subscribe, MemberIsOwned, Locals
<1>9. CountAgrees'
  BY DEF Subscribe, CountAgrees, Live, Removing
<1> QED
  BY <1>3, <1>4, <1>5, <1>6, <1>7, <1>8, <1>9

\* Interning the queue group's key in queue_group_keys preserves the invariant.
LEMMA InternKeyStep ==
    ASSUME IInv, NEW c \in Conns, InternKey(c)
    PROVE  IInv'
<1>1. pc[c] \in Subscribing \cup HoldsRemoved => cur[c] \in SubIds /\ cur[c] < sub_id_gen
  BY CurDrawn
<1>2. Fields
  BY DrawnFields
<1>a. Locals
  BY LocalTypes
<1>b. \A t \in subscriptions : sub[t].conn \in Conns
  BY RegisteredOwner
<1> USE DEF IInv, Goto, drawn, registry, routes, groups
<1>3. TypeOK'
  <2> DEFINE s == cur[c]
             arc == IF queue_group_keys[KeyOf(s)] = 0 THEN s ELSE queue_group_keys[KeyOf(s)]
  <2>1. s \in SubIds /\ s < sub_id_gen /\ KeyOf(s) \in Keys
    BY <1>1, <1>2 DEF InternKey, Fields, Sessions, Subscriber, Subscribing
  <2>2. arc \in 0..MaxSubs
    BY <2>1, TableAssumption DEF TypeOK, SubIds
  <2>3. sub[s] \in Subscription /\ sub' = [sub EXCEPT ![s] = [sub[s] EXCEPT !.arc = arc]]
    BY <2>1 DEF InternKey, TypeOK
  <2>4. [sub[s] EXCEPT !.arc = arc] \in Subscription
    BY <2>2, <2>3 DEF Subscription
  <2> DEFINE rec == [sub[s] EXCEPT !.arc = arc]
  <2> HIDE DEF s, arc, rec
  <2>5. /\ sub' \in [SubIds -> Subscription \cup {Unused}]
        /\ \A t \in SubIds : t < sub_id_gen' => sub'[t] \in Subscription
    <3>1. rec \in Subscription /\ sub' = [sub EXCEPT ![s] = rec]
      BY <2>3, <2>4 DEF rec
    <3>2. sub_id_gen' = sub_id_gen
      BY DEF InternKey
    <3> QED
      BY <2>1, <3>1, <3>2 DEF TypeOK
  <2>6. queue_group_keys' \in [Keys -> 0..MaxSubs]
    BY <2>2 DEF InternKey, TypeOK, s, arc
  <2> QED
    BY <2>5, <2>6 DEF InternKey, TypeOK, PC
<1>4. Sessions'
  <2>1. ASSUME NEW d \in Conns PROVE Subscriber(d)'
    BY <1>1, <1>a, SMT DEF InternKey, Sessions, Subscriber, Subscribing, Locals, Routed, IsWild,
       Grouped
  <2>2. ASSUME NEW d \in Conns PROVE Remover(d)'
    BY <1>a DEF InternKey, Sessions, Remover, Subscribing, HoldsRemoved, Locals
  <2>3. ASSUME NEW d \in Conns PROVE Loops(d)'
    BY <1>a DEF InternKey, Sessions, Loops, Subscribing, Locals
  <2>4. ASSUME NEW d \in Conns PROVE Caller(d)'
    BY <1>a DEF InternKey, Sessions, Caller, Subscribing, Locals
  <2> QED
    BY <2>1, <2>2, <2>3, <2>4 DEF Sessions
<1>5. Drawn' /\ RouteKind' /\ MembersHoldTheirKey'
  BY SMT DEF InternKey, Drawn, RouteKind, MembersHoldTheirKey, IsWild, Grouped, KeyOf
<1>6. RegisteredIsReachable'
  BY <1>a, <1>b, SMT DEF InternKey, RegisteredIsReachable, Locals, Routed, IsWild
<1>7. RouteIsOwned'
  BY <1>a DEF InternKey, RouteIsOwned, Locals
<1>8. MemberIsOwned'
  BY <1>a, SMT DEF InternKey, MemberIsOwned, Locals
<1>9. CountAgrees'
  BY DEF InternKey, CountAgrees, Live, Removing
<1> QED
  BY <1>3, <1>4, <1>5, <1>6, <1>7, <1>8, <1>9

\* Adding the id to the members of its queue group preserves the invariant.
LEMMA JoinGroupStep ==
    ASSUME IInv, NEW c \in Conns, JoinGroup(c)
    PROVE  IInv'
<1>1. pc[c] \in Subscribing \cup HoldsRemoved => cur[c] \in SubIds /\ cur[c] < sub_id_gen
  BY CurDrawn
<1>2. Fields
  BY DrawnFields
<1>a. Locals
  BY LocalTypes
<1>b. \A t \in subscriptions : sub[t].conn \in Conns
  BY RegisteredOwner
<1> USE DEF IInv, Goto, drawn, registry, routes, groups
<1>3. TypeOK'
  <2>1. cur[c] \in SubIds /\ KeyOf(cur[c]) \in Keys
    BY <1>1, <1>2 DEF JoinGroup, Fields, Sessions, Subscriber, Subscribing
  <2>2. 1 + Cardinality({t \in SubIds : joined[t] # 0}) \in Nat
    <3>1. IsFiniteSet(SubIds)
      BY FS_Interval, TableAssumption, SMT DEF SubIds
    <3>2. IsFiniteSet({t \in SubIds : joined[t] # 0})
      BY <3>1, FS_Subset
    <3> QED
      BY <3>2, FS_CardinalityType, SMT
  <2>3. joined' \in [SubIds -> Nat]
    BY <2>2 DEF JoinGroup, TypeOK
  <2> QED
    BY <2>1, <2>3 DEF JoinGroup, TypeOK, PC
<1>4. Sessions'
  <2>1. ASSUME NEW d \in Conns PROVE Subscriber(d)'
    BY <1>1, <1>a DEF JoinGroup, Sessions, Subscriber, Subscribing, Locals, Routed, IsWild,
       Grouped
  <2>2. ASSUME NEW d \in Conns PROVE Remover(d)'
    BY <1>a DEF JoinGroup, Sessions, Remover, Subscribing, HoldsRemoved, Locals
  <2>3. ASSUME NEW d \in Conns PROVE Loops(d)'
    <3>1. cur[c] \notin removed[d]
      BY SMT DEF JoinGroup, Sessions, Subscriber, Remover, Subscribing
    <3>2. \A k \in Keys : members'[k] \subseteq members[k] \cup {cur[c]}
      BY DEF JoinGroup, TypeOK
    <3> QED
      BY <1>a, <3>1, <3>2, SMT DEF JoinGroup, Sessions, Loops, Subscribing, Locals
  <2>4. ASSUME NEW d \in Conns PROVE Caller(d)'
    BY <1>a DEF JoinGroup, Sessions, Caller, Subscribing, Locals
  <2> QED
    BY <2>1, <2>2, <2>3, <2>4 DEF Sessions
<1>5. Drawn' /\ RouteKind' /\ MembersHoldTheirKey'
  <2>1. cur[c] < sub_id_gen /\ Grouped(cur[c])
    BY <1>1 DEF JoinGroup, Sessions, Subscriber, Subscribing
  <2>2. \A k \in Keys : \A t \in members'[k] : t \in members[k] \/ (t = cur[c] /\ k = KeyOf(cur[c]))
    <3>1. members \in [Keys -> SUBSET SubIds]
      BY DEF TypeOK
    <3>2. members' = [members EXCEPT ![KeyOf(cur[c])] = @ \cup {cur[c]}]
      BY DEF JoinGroup
    <3> QED
      BY <3>1, <3>2
  <2>3. Drawn' /\ RouteKind'
    BY <2>1, <2>2 DEF JoinGroup, Drawn, RouteKind, IsWild
  <2>4. MembersHoldTheirKey'
    <3>1. sub' = sub /\ queue_groups' = queue_groups \cup {KeyOf(cur[c])}
      BY DEF JoinGroup
    <3> QED
      BY <2>1, <2>2, <3>1 DEF MembersHoldTheirKey, Grouped, KeyOf
  <2> QED
    BY <2>3, <2>4
<1>6. RegisteredIsReachable'
  BY <1>a, <1>b DEF JoinGroup, RegisteredIsReachable, Locals, Routed, IsWild
<1>7. RouteIsOwned'
  BY <1>a DEF JoinGroup, RouteIsOwned, Locals
<1>8. MemberIsOwned'
  BY <1>a, SMT DEF JoinGroup, MemberIsOwned, Locals
<1>9. CountAgrees'
  BY DEF JoinGroup, CountAgrees, Live, Removing
<1> QED
  BY <1>3, <1>4, <1>5, <1>6, <1>7, <1>8, <1>9

\* RoutingEngine::insert, into the exact map or the trie, preserves the invariant: the route
\* belongs to the subscription being made.
LEMMA InsertRouteStep ==
    ASSUME IInv, NEW c \in Conns, InsertRoute(c)
    PROVE  IInv'
<1>1. pc[c] \in Subscribing \cup HoldsRemoved => cur[c] \in SubIds /\ cur[c] < sub_id_gen
  BY CurDrawn
<1>2. Fields
  BY DrawnFields
<1>a. Locals
  BY LocalTypes
<1> USE DEF IInv, Goto, drawn, registry, routes, groups
<1>3. TypeOK'
  <2>1. cur[c] \in SubIds
    BY <1>1 DEF InsertRoute, Subscribing
  <2>2. exact' \subseteq SubIds /\ wildcard_trie' \subseteq SubIds
    BY <2>1 DEF InsertRoute, TypeOK
  <2>3. pc' \in [Conns -> PC]
    BY <1>a DEF InsertRoute, Locals, PC
  <2> QED
    BY <2>2, <2>3 DEF InsertRoute, TypeOK
<1>4. Sessions'
  <2>1. ASSUME NEW d \in Conns PROVE Subscriber(d)'
    BY <1>1, <1>a, SMT DEF InsertRoute, Sessions, Subscriber, Subscribing, Locals, Routed, IsWild,
       Grouped
  <2>2. ASSUME NEW d \in Conns PROVE Remover(d)'
    BY <1>a, SMT DEF InsertRoute, Sessions, Remover, Subscribing, HoldsRemoved, Locals
  <2>3. ASSUME NEW d \in Conns PROVE Loops(d)'
    BY <1>a DEF InsertRoute, Sessions, Loops, Subscribing, Locals
  <2>4. ASSUME NEW d \in Conns PROVE Caller(d)'
    BY <1>a, ZenonT(40) DEF InsertRoute, Sessions, Caller, Subscribing, Locals
  <2> QED
    BY <2>1, <2>2, <2>3, <2>4 DEF Sessions
<1>5. Drawn' /\ RouteKind' /\ MembersHoldTheirKey'
  <2>1. Drawn'
    BY <1>1 DEF InsertRoute, Drawn, TypeOK, SubIds, Subscribing
  <2>2. RouteKind'
    BY DEF InsertRoute, RouteKind, IsWild
  <2>3. MembersHoldTheirKey'
    BY DEF InsertRoute, MembersHoldTheirKey, KeyOf, Grouped
  <2> QED
    BY <2>1, <2>2, <2>3
<1>6. RegisteredIsReachable'
  <2>1. \A s \in subscriptions : Routed(s)'
    BY DEF InsertRoute, RegisteredIsReachable, Routed, IsWild
  <2>2. \A d \in Conns : pc[d] = "index" => pc'[d] = "index"
    BY DEF InsertRoute, TypeOK
  <2>3. \A s \in subscriptions : sub[s].conn \in Conns
    BY <1>2 DEF Fields, Drawn, TypeOK
  <2> QED
    BY <2>1, <2>2, <2>3 DEF InsertRoute, RegisteredIsReachable
<1>7. RouteIsOwned'
  BY <1>a, SMT DEF InsertRoute, RouteIsOwned, Locals
<1>8. MemberIsOwned'
  BY <1>a, SMT DEF InsertRoute, MemberIsOwned, Locals
<1>9. CountAgrees'
  BY DEF InsertRoute, CountAgrees, Live, Removing
<1> QED
  BY <1>3, <1>4, <1>5, <1>6, <1>7, <1>8, <1>9

\* Setting has_wildcards after the insertion into the trie preserves the invariant.
LEMMA SetFlagStep ==
    ASSUME IInv, NEW c \in Conns, SetFlag(c)
    PROVE  IInv'
<1>1. pc[c] \in Subscribing \cup HoldsRemoved => cur[c] \in SubIds /\ cur[c] < sub_id_gen
  BY CurDrawn
<1>a. Locals
  BY LocalTypes
<1>b. \A t \in subscriptions : sub[t].conn \in Conns
  BY RegisteredOwner
<1> USE DEF IInv, Goto, drawn, registry, routes, groups
<1>3. TypeOK'
  BY DEF SetFlag, TypeOK, PC
<1>4. Sessions'
  <2>1. ASSUME NEW d \in Conns PROVE Subscriber(d)'
    BY <1>1, <1>a DEF SetFlag, Sessions, Subscriber, Subscribing, Locals, Routed, IsWild, Grouped
  <2>2. ASSUME NEW d \in Conns PROVE Remover(d)'
    BY <1>a DEF SetFlag, Sessions, Remover, Subscribing, HoldsRemoved, Locals
  <2>3. ASSUME NEW d \in Conns PROVE Loops(d)'
    BY <1>a DEF SetFlag, Sessions, Loops, Subscribing, Locals
  <2>4. ASSUME NEW d \in Conns PROVE Caller(d)'
    BY <1>a DEF SetFlag, Sessions, Caller, Subscribing, Locals
  <2> QED
    BY <2>1, <2>2, <2>3, <2>4 DEF Sessions
<1>5. Drawn' /\ RouteKind' /\ MembersHoldTheirKey'
  BY DEF SetFlag, Drawn, RouteKind, MembersHoldTheirKey, IsWild, Grouped, KeyOf
<1>6. RegisteredIsReachable'
  BY <1>a, <1>b DEF SetFlag, RegisteredIsReachable, Locals, Routed, IsWild
<1>7. RouteIsOwned'
  BY <1>a DEF SetFlag, RouteIsOwned, Locals
<1>8. MemberIsOwned'
  BY <1>a, SMT DEF SetFlag, MemberIsOwned, Locals
<1>9. CountAgrees'
  BY DEF SetFlag, CountAgrees, Live, Removing
<1> QED
  BY <1>3, <1>4, <1>5, <1>6, <1>7, <1>8, <1>9

\* Inserting the subscription into the registry's map preserves the invariant.
LEMMA RegisterStep ==
    ASSUME IInv, NEW c \in Conns, Register(c)
    PROVE  IInv'
<1>1. pc[c] \in Subscribing \cup HoldsRemoved => cur[c] \in SubIds /\ cur[c] < sub_id_gen
  BY CurDrawn
<1>a. Locals
  BY LocalTypes
<1>b. \A t \in subscriptions : sub[t].conn \in Conns
  BY RegisteredOwner
<1> USE DEF IInv, Goto, drawn, registry, routes, groups
<1>3. TypeOK'
  BY <1>1 DEF Register, TypeOK, PC, Subscribing
<1>4. Sessions'
  <2>1. ASSUME NEW d \in Conns PROVE Subscriber(d)'
    BY <1>1, <1>a DEF Register, Sessions, Subscriber, Subscribing, Locals, Routed, IsWild, Grouped
  <2>2. ASSUME NEW d \in Conns PROVE Remover(d)'
    <3>1. cur[c] \notin acked
      BY DEF Register, Sessions, Subscriber, Subscribing
    <3>2. Remover(c) /\ Remover(d)
      BY DEF Sessions
    <3> QED
      BY <1>a, <3>1, <3>2 DEF Register, Remover, Subscribing, HoldsRemoved, Locals
  <2>3. ASSUME NEW d \in Conns PROVE Loops(d)'
    BY <1>a DEF Register, Sessions, Loops, Subscribing, Locals
  <2>4. ASSUME NEW d \in Conns PROVE Caller(d)'
    BY <1>a DEF Register, Sessions, Caller, Subscribing, Locals
  <2> QED
    BY <2>1, <2>2, <2>3, <2>4 DEF Sessions
<1>5. Drawn' /\ RouteKind' /\ MembersHoldTheirKey'
  <2>1. cur[c] < sub_id_gen
    BY <1>1 DEF Register, Subscribing
  <2> QED
    BY <2>1 DEF Register, Drawn, RouteKind, MembersHoldTheirKey, IsWild, Grouped, KeyOf
<1>6. RegisteredIsReachable'
  <2>1. Routed(cur[c]) /\ sub[cur[c]].conn = c
    BY DEF Register, Sessions, Subscriber, Subscribing
  <2> QED
    BY <1>a, <1>b, <2>1, SMT DEF Register, RegisteredIsReachable, Locals, Routed, IsWild
<1>7. RouteIsOwned'
  BY <1>a DEF Register, RouteIsOwned, Locals
<1>8. MemberIsOwned'
  BY <1>a DEF Register, MemberIsOwned, Locals
<1>9. CountAgrees'
  <2>1. Live' = Live
    BY <1>1 DEF Register, Live, Sessions, Subscriber, Subscribing
  <2> QED
    BY <2>1 DEF Register, CountAgrees, Removing
<1> QED
  BY <1>3, <1>4, <1>5, <1>6, <1>7, <1>8, <1>9

\* Pushing the id to by_connection preserves the invariant: from here remove_connection finds it.
LEMMA IndexByConnectionStep ==
    ASSUME IInv, NEW c \in Conns, IndexByConnection(c)
    PROVE  IInv'
<1>1. pc[c] \in Subscribing \cup HoldsRemoved => cur[c] \in SubIds /\ cur[c] < sub_id_gen
  BY CurDrawn
<1>a. Locals
  BY LocalTypes
<1>b. \A t \in subscriptions : sub[t].conn \in Conns
  BY RegisteredOwner
<1> USE DEF IInv, Goto, drawn, registry, routes, groups
<1>3. TypeOK'
  BY <1>1 DEF IndexByConnection, TypeOK, PC, Subscribing
<1>4. Sessions'
  <2>1. ASSUME NEW d \in Conns PROVE Subscriber(d)'
    BY <1>1, <1>a DEF IndexByConnection, Sessions, Subscriber, Subscribing, Locals, Routed,
       IsWild, Grouped
  <2>2. ASSUME NEW d \in Conns PROVE Remover(d)'
    BY <1>a DEF IndexByConnection, Sessions, Remover, Subscribing, HoldsRemoved, Locals
  <2>3. ASSUME NEW d \in Conns PROVE Loops(d)'
    BY <1>a DEF IndexByConnection, Sessions, Loops, Subscribing, Locals
  <2>4. ASSUME NEW d \in Conns PROVE Caller(d)'
    BY <1>a, SMT DEF IndexByConnection, Sessions, Caller, Subscribing, Locals
  <2> QED
    BY <2>1, <2>2, <2>3, <2>4 DEF Sessions
<1>5. Drawn' /\ RouteKind' /\ MembersHoldTheirKey'
  BY DEF IndexByConnection, Drawn, RouteKind, MembersHoldTheirKey, IsWild, Grouped, KeyOf
<1>6. RegisteredIsReachable'
  <2>1. sub[cur[c]].conn = c
    BY DEF IndexByConnection, Sessions, Subscriber, Subscribing
  <2>2. by_connection \in [Conns -> SUBSET SubIds]
    BY DEF TypeOK
  <2> QED
    BY <1>a, <1>b, <2>1, <2>2 DEF IndexByConnection, RegisteredIsReachable, Locals, Routed, IsWild
<1>7. RouteIsOwned'
  BY <1>a DEF IndexByConnection, RouteIsOwned, Locals
<1>8. MemberIsOwned'
  BY <1>a, SMT DEF IndexByConnection, MemberIsOwned, Locals
<1>9. CountAgrees'
  BY DEF IndexByConnection, CountAgrees, Live, Removing
<1> QED
  BY <1>3, <1>4, <1>5, <1>6, <1>7, <1>8, <1>9

\* inc_subscriptions at the end of subscribe preserves the invariant, the count included.
LEMMA CountSubscriptionStep ==
    ASSUME IInv, NEW c \in Conns, CountSubscription(c)
    PROVE  IInv'
<1>1. pc[c] \in Subscribing \cup HoldsRemoved => cur[c] \in SubIds /\ cur[c] < sub_id_gen
  BY CurDrawn
<1>a. Locals
  BY LocalTypes
<1>b. \A t \in subscriptions : sub[t].conn \in Conns
  BY RegisteredOwner
<1> USE DEF IInv, Goto, drawn, registry, routes, groups, Return
<1>3. TypeOK'
  <2>1. cur' \in [Conns -> 0..MaxSubs]
    BY TableAssumption, SMT DEF CountSubscription, TypeOK
  <2>2. acked' \subseteq SubIds
    BY <1>1 DEF CountSubscription, TypeOK, Subscribing
  <2> QED
    BY <2>1, <2>2, SMT DEF CountSubscription, TypeOK, PC
<1>4. Sessions'
  <2>1. ASSUME NEW d \in Conns PROVE Subscriber(d)'
    BY <1>1, <1>a DEF CountSubscription, Sessions, Subscriber, Subscribing, Locals, Routed,
       IsWild, Grouped
  <2>2. ASSUME NEW d \in Conns PROVE Remover(d)'
    BY <1>a DEF CountSubscription, Sessions, Remover, Subscribing, HoldsRemoved, Locals
  <2>3. ASSUME NEW d \in Conns PROVE Loops(d)'
    BY <1>a DEF CountSubscription, Sessions, Loops, Subscribing, Locals
  <2>4. ASSUME NEW d \in Conns PROVE Caller(d)'
    BY <1>a DEF CountSubscription, Sessions, Caller, Subscribing, Locals
  <2> QED
    BY <2>1, <2>2, <2>3, <2>4 DEF Sessions
<1>5. Drawn' /\ RouteKind' /\ MembersHoldTheirKey'
  <2>1. cur[c] < sub_id_gen
    BY <1>1 DEF CountSubscription, Subscribing
  <2> QED
    BY <2>1 DEF CountSubscription, Drawn, RouteKind, MembersHoldTheirKey, IsWild, Grouped, KeyOf
<1>6. RegisteredIsReachable'
  <2>1. op[c] = "none"
    BY DEF CountSubscription, Sessions, Caller, Subscribing
  <2> QED
    BY <1>a, <1>b, <2>1 DEF CountSubscription, RegisteredIsReachable, Locals, Routed, IsWild
<1>7. RouteIsOwned'
  BY <1>a DEF CountSubscription, RouteIsOwned, Locals
<1>8. MemberIsOwned'
  BY <1>a, SMT DEF CountSubscription, MemberIsOwned, Locals
<1>9. CountAgrees'
  <2>1. cur[c] \in subscriptions /\ cur[c] \notin acked
    BY DEF CountSubscription, Sessions, Subscriber, Subscribing
  <2>2. cur[c] \notin Live \cup Removing
    <3>1. ASSUME NEW d \in Conns PROVE removed[d] \subseteq acked \ subscriptions
      BY DEF Sessions, Remover
    <3> HIDE DEF IInv, Goto, drawn, registry, routes, groups, Return
    <3> QED
      BY <2>1, <3>1 DEF Live, Removing
  <2>3. (Live \cup Removing)' = (Live \cup Removing) \cup {cur[c]}
    <3>1. Live' = Live \cup {cur[c]}
      BY <2>1 DEF CountSubscription, Live
    <3>2. Removing' = Removing
      BY DEF CountSubscription, Removing
    <3> QED
      BY <3>1, <3>2
  <2> QED
    BY <2>2, <2>3, CountedFinite, FS_AddElement DEF CountSubscription, CountAgrees
<1> QED
  BY <1>3, <1>4, <1>5, <1>6, <1>7, <1>8, <1>9

-----------------------------------------------------------------------------
(* BrokerCore::unsubscribe, and the steps remove_connection shares with it *)

\* RoutingEngine::remove, for unsubscribe and for remove_connection, preserves the invariant.
LEMMA UnrouteStep ==
    ASSUME IInv, NEW c \in Conns, Unroute(c)
    PROVE  IInv'
<1>2. Fields
  BY DrawnFields
<1>a. Locals
  BY LocalTypes
<1> USE DEF IInv, Goto, drawn, registry, routes, groups, AfterUnroute
<1>3. TypeOK'
  BY DEF Unroute, TypeOK, PC
<1>4. Sessions'
  <2>1. ASSUME NEW d \in Conns PROVE Subscriber(d)'
    <3>1. cur[c] \in acked
      BY DEF Unroute, Sessions, Remover, HoldsRemoved
    <3> QED
      BY <1>a, <3>1, SMT DEF Unroute, Sessions, Subscriber, Subscribing, Locals, Routed, IsWild,
         Grouped
  <2>2. ASSUME NEW d \in Conns PROVE Remover(d)'
    BY <1>a, SMT DEF Unroute, Sessions, Remover, Subscribing, HoldsRemoved, Locals
  <2>3. ASSUME NEW d \in Conns PROVE Loops(d)'
    <3>1. op[c] = "unsub" => todo[c] = {}
      BY DEF Sessions, Caller
    <3> QED
      BY <1>a, <3>1, ZenonT(40) DEF Unroute, Sessions, Loops, Subscribing, Locals
  <2>4. ASSUME NEW d \in Conns PROVE Caller(d)'
    <3>1. UNCHANGED <<op, removed, cur, todo, by_connection, acked>>
      BY DEF Unroute
    <3>2. CASE d # c
      <4>1. pc'[d] = pc[d]
        BY <1>a, <3>2 DEF Unroute, Locals
      <4> QED
        BY <3>1, <4>1 DEF Sessions, Caller
    <3>3. CASE d = c
      <4>1. /\ pc[c] = "unroute"
            /\ pc'[c] \in {"check_empty", "unindex", "purge"}
            /\ pc'[c] = "unindex" => op[c] = "unsub"
            /\ pc'[c] = "purge" => op[c] # "unsub"
        BY <1>a DEF Unroute, Locals
      <4> QED
        BY <3>1, <3>3, <4>1 DEF Sessions, Caller, Subscribing
    <3> QED
      BY <3>2, <3>3
  <2> QED
    BY <2>1, <2>2, <2>3, <2>4 DEF Sessions
<1>5. Drawn' /\ RouteKind' /\ MembersHoldTheirKey'
  BY DEF Unroute, Drawn, RouteKind, MembersHoldTheirKey, IsWild, Grouped, KeyOf
<1>6. RegisteredIsReachable'
  <2>1. cur[c] \notin subscriptions
    BY DEF Unroute, Sessions, Remover, HoldsRemoved
  <2>2. \A s \in subscriptions : Routed(s)'
    BY <2>1 DEF Unroute, RegisteredIsReachable, Routed, IsWild
  <2>3. \A d \in Conns : pc[d] = "index" => pc'[d] = "index"
    BY DEF Unroute, TypeOK
  <2>4. \A s \in subscriptions : sub[s].conn \in Conns
    BY <1>2 DEF Fields, Drawn, TypeOK
  <2> QED
    BY <2>2, <2>3, <2>4 DEF Unroute, RegisteredIsReachable
<1>7. RouteIsOwned'
  BY <1>a, SMT DEF Unroute, RouteIsOwned, RouteKind, IsWild, Locals
<1>8. MemberIsOwned'
  BY <1>a, SMT DEF Unroute, MemberIsOwned, Locals
<1>9. CountAgrees'
  BY DEF Unroute, CountAgrees, Live, Removing
<1> QED
  BY <1>3, <1>4, <1>5, <1>6, <1>7, <1>8, <1>9

\* The test whether the trie is empty preserves the invariant.
LEMMA CheckEmptyStep ==
    ASSUME IInv, NEW c \in Conns, CheckEmpty(c)
    PROVE  IInv'
<1>1. pc[c] \in Subscribing \cup HoldsRemoved => cur[c] \in SubIds /\ cur[c] < sub_id_gen
  BY CurDrawn
<1>a. Locals
  BY LocalTypes
<1>b. \A t \in subscriptions : sub[t].conn \in Conns
  BY RegisteredOwner
<1> USE DEF IInv, Goto, drawn, registry, routes, groups, AfterUnroute
<1>3. TypeOK'
  BY DEF CheckEmpty, TypeOK, PC
<1>4. Sessions'
  <2>1. ASSUME NEW d \in Conns PROVE Subscriber(d)'
    BY <1>1, <1>a DEF CheckEmpty, Sessions, Subscriber, Subscribing, Locals, Routed, IsWild,
       Grouped
  <2>2. ASSUME NEW d \in Conns PROVE Remover(d)'
    BY <1>a DEF CheckEmpty, Sessions, Remover, Subscribing, HoldsRemoved, Locals
  <2>3. ASSUME NEW d \in Conns PROVE Loops(d)'
    <3>1. op[c] = "unsub" => todo[c] = {}
      BY DEF Sessions, Caller
    <3> QED
      BY <1>a, <3>1 DEF CheckEmpty, Sessions, Loops, Subscribing, Locals
  <2>4. ASSUME NEW d \in Conns PROVE Caller(d)'
    BY <1>a DEF CheckEmpty, Sessions, Caller, Subscribing, Locals
  <2> QED
    BY <2>1, <2>2, <2>3, <2>4 DEF Sessions
<1>5. Drawn' /\ RouteKind' /\ MembersHoldTheirKey'
  BY DEF CheckEmpty, Drawn, RouteKind, MembersHoldTheirKey, IsWild, Grouped, KeyOf
<1>6. RegisteredIsReachable'
  BY <1>a, <1>b DEF CheckEmpty, RegisteredIsReachable, Locals, Routed, IsWild
<1>7. RouteIsOwned'
  BY <1>a DEF CheckEmpty, RouteIsOwned, Locals
<1>8. MemberIsOwned'
  BY <1>a, SMT DEF CheckEmpty, MemberIsOwned, Locals
<1>9. CountAgrees'
  BY DEF CheckEmpty, CountAgrees, Live, Removing
<1> QED
  BY <1>3, <1>4, <1>5, <1>6, <1>7, <1>8, <1>9

\* Clearing has_wildcards after that test preserves the invariant, although the trie may have
\* been filled meanwhile: the invariant says nothing about the flag.
LEMMA ResetFlagStep ==
    ASSUME IInv, NEW c \in Conns, ResetFlag(c)
    PROVE  IInv'
<1>1. pc[c] \in Subscribing \cup HoldsRemoved => cur[c] \in SubIds /\ cur[c] < sub_id_gen
  BY CurDrawn
<1>a. Locals
  BY LocalTypes
<1>b. \A t \in subscriptions : sub[t].conn \in Conns
  BY RegisteredOwner
<1> USE DEF IInv, Goto, drawn, registry, routes, groups, AfterUnroute
<1>3. TypeOK'
  BY DEF ResetFlag, TypeOK, PC
<1>4. Sessions'
  <2>1. ASSUME NEW d \in Conns PROVE Subscriber(d)'
    BY <1>1, <1>a DEF ResetFlag, Sessions, Subscriber, Subscribing, Locals, Routed, IsWild,
       Grouped
  <2>2. ASSUME NEW d \in Conns PROVE Remover(d)'
    BY <1>a DEF ResetFlag, Sessions, Remover, Subscribing, HoldsRemoved, Locals
  <2>3. ASSUME NEW d \in Conns PROVE Loops(d)'
    <3>1. op[c] = "unsub" => todo[c] = {}
      BY DEF Sessions, Caller
    <3> QED
      BY <1>a, <3>1 DEF ResetFlag, Sessions, Loops, Subscribing, Locals
  <2>4. ASSUME NEW d \in Conns PROVE Caller(d)'
    BY <1>a DEF ResetFlag, Sessions, Caller, Subscribing, Locals
  <2> QED
    BY <2>1, <2>2, <2>3, <2>4 DEF Sessions
<1>5. Drawn' /\ RouteKind' /\ MembersHoldTheirKey'
  BY DEF ResetFlag, Drawn, RouteKind, MembersHoldTheirKey, IsWild, Grouped, KeyOf
<1>6. RegisteredIsReachable'
  BY <1>a, <1>b DEF ResetFlag, RegisteredIsReachable, Locals, Routed, IsWild
<1>7. RouteIsOwned'
  BY <1>a DEF ResetFlag, RouteIsOwned, Locals
<1>8. MemberIsOwned'
  BY <1>a, SMT DEF ResetFlag, MemberIsOwned, Locals
<1>9. CountAgrees'
  BY DEF ResetFlag, CountAgrees, Live, Removing
<1> QED
  BY <1>3, <1>4, <1>5, <1>6, <1>7, <1>8, <1>9

-----------------------------------------------------------------------------
(* BrokerCore::unsubscribe *)

\* Taking the subscription out of the registry's map, the first step of unsubscribe,
\* preserves the invariant.
LEMMA UnsubscribeStep ==
    ASSUME IInv, NEW c \in Conns, NEW s \in acked, Unsubscribe(c, s)
    PROVE  IInv'
<1>1. pc[c] \in Subscribing \cup HoldsRemoved => cur[c] \in SubIds /\ cur[c] < sub_id_gen
  BY CurDrawn
<1>a. Locals
  BY LocalTypes
<1>b. \A t \in subscriptions : sub[t].conn \in Conns
  BY RegisteredOwner
<1> USE DEF IInv, Goto, drawn, registry, routes, groups
<1>3. TypeOK'
  <2>1. s \in SubIds
    BY DEF TypeOK
  <2>2. removed' \in [Conns -> SUBSET SubIds] /\ cur' \in [Conns -> 0..MaxSubs]
    BY <2>1, TableAssumption, SMT DEF Unsubscribe, TypeOK, SubIds
  <2> QED
    BY <2>2 DEF Unsubscribe, TypeOK, PC
<1>4. Sessions'
  <2>1. ASSUME NEW d \in Conns PROVE Subscriber(d)'
    BY <1>1, <1>a DEF Unsubscribe, Sessions, Subscriber, Subscribing, Locals, Routed, IsWild,
       Grouped
  <2>2. ASSUME NEW d \in Conns PROVE Remover(d)'
    <3>1. /\ removed'[c] = {s} /\ pc'[c] = "unroute" /\ cur'[c] = s /\ s \in subscriptions
          /\ subscriptions' = subscriptions \ {s} /\ acked' = acked
          /\ \A e \in Conns \ {c} : removed'[e] = removed[e] /\ pc'[e] = pc[e] /\ cur'[e] = cur[e]
      BY <1>a DEF Unsubscribe, Locals
    <3>2. \A e \in Conns : Remover(e)
      BY DEF Sessions
    <3> QED
      BY <3>1, <3>2, SMT DEF Remover, Subscribing, HoldsRemoved
  <2>3. ASSUME NEW d \in Conns PROVE Loops(d)'
    BY <1>a DEF Unsubscribe, Sessions, Loops, Subscribing, Locals
  <2>4. ASSUME NEW d \in Conns PROVE Caller(d)'
    <3>1. todo[c] = {}
      BY DEF Unsubscribe, Sessions, Loops
    <3> QED
      BY <1>a, <3>1 DEF Unsubscribe, Sessions, Caller, Subscribing, Locals
  <2> QED
    BY <2>1, <2>2, <2>3, <2>4 DEF Sessions
<1>5. Drawn' /\ RouteKind' /\ MembersHoldTheirKey'
  BY DEF Unsubscribe, Drawn, RouteKind, MembersHoldTheirKey, IsWild, Grouped, KeyOf
<1>6. RegisteredIsReachable'
  <2>1. op[c] = "none"
    BY DEF Unsubscribe, Sessions, Caller, Subscribing
  <2> QED
    BY <1>a, <1>b, <2>1 DEF Unsubscribe, RegisteredIsReachable, Locals, Routed, IsWild
<1>7. RouteIsOwned'
  BY <1>a, SMT DEF Unsubscribe, RouteIsOwned, Locals
<1>8. MemberIsOwned'
  <2>1. removed[c] = {}
    BY DEF Unsubscribe, Sessions, Remover
  <2> QED
    BY <1>a, <2>1, SMT DEF Unsubscribe, MemberIsOwned, Locals
<1>9. CountAgrees'
  <2>1. removed[c] = {}
    BY DEF Unsubscribe, Sessions, Remover
  <2>2. Removing' = Removing \cup {s}
    BY <2>1, SMT DEF Unsubscribe, Removing, TypeOK
  <2>3. (Live \cup Removing)' = Live \cup Removing
    BY <2>2 DEF Unsubscribe, Live
  <2> QED
    BY <2>3 DEF Unsubscribe, CountAgrees
<1> QED
  BY <1>3, <1>4, <1>5, <1>6, <1>7, <1>8, <1>9

\* Removing the id from by_connection preserves the invariant.
LEMMA UnindexStep ==
    ASSUME IInv, NEW c \in Conns, Unindex(c)
    PROVE  IInv'
<1>1. pc[c] \in Subscribing \cup HoldsRemoved => cur[c] \in SubIds /\ cur[c] < sub_id_gen
  BY CurDrawn
<1>a. Locals
  BY LocalTypes
<1>b. \A t \in subscriptions : sub[t].conn \in Conns
  BY RegisteredOwner
<1> USE DEF IInv, Goto, drawn, registry, routes, groups
<1>3. TypeOK'
  BY DEF Unindex, TypeOK, PC
<1>4. Sessions'
  <2>1. ASSUME NEW d \in Conns PROVE Subscriber(d)'
    BY <1>1, <1>a DEF Unindex, Sessions, Subscriber, Subscribing, Locals, Routed, IsWild, Grouped
  <2>2. ASSUME NEW d \in Conns PROVE Remover(d)'
    BY <1>a DEF Unindex, Sessions, Remover, Subscribing, HoldsRemoved, Locals
  <2>3. ASSUME NEW d \in Conns PROVE Loops(d)'
    <3>1. removed[c] = {cur[c]} /\ todo[c] = {}
      BY DEF Unindex, Sessions, Caller
    <3>2. ~ Grouped(cur[c]) => \A k \in Keys : cur[c] \notin members[k]
      BY DEF MembersHoldTheirKey
    <3> QED
      BY <1>a, <3>1, <3>2 DEF Unindex, Sessions, Loops, Subscribing, Locals
  <2>4. ASSUME NEW d \in Conns PROVE Caller(d)'
    BY <1>a, SMT DEF Unindex, Sessions, Caller, Subscribing, Locals
  <2> QED
    BY <2>1, <2>2, <2>3, <2>4 DEF Sessions
<1>5. Drawn' /\ RouteKind' /\ MembersHoldTheirKey'
  BY DEF Unindex, Drawn, RouteKind, MembersHoldTheirKey, IsWild, Grouped, KeyOf
<1>6. RegisteredIsReachable'
  <2>1. cur[c] \notin subscriptions
    BY DEF Unindex, Sessions, Remover, HoldsRemoved
  <2>2. by_connection \in [Conns -> SUBSET SubIds]
    BY DEF TypeOK
  <2> QED
    BY <1>a, <1>b, <2>1, <2>2 DEF Unindex, RegisteredIsReachable, Locals, Routed, IsWild
<1>7. RouteIsOwned'
  BY <1>a DEF Unindex, RouteIsOwned, Locals
<1>8. MemberIsOwned'
  BY <1>a, SMT DEF Unindex, MemberIsOwned, Locals
<1>9. CountAgrees'
  BY DEF Unindex, CountAgrees, Live, Removing
<1> QED
  BY <1>3, <1>4, <1>5, <1>6, <1>7, <1>8, <1>9

\* Removing the id from the members of its group preserves the invariant.
LEMMA LeaveGroupStep ==
    ASSUME IInv, NEW c \in Conns, LeaveGroup(c)
    PROVE  IInv'
<1>1. pc[c] \in Subscribing \cup HoldsRemoved => cur[c] \in SubIds /\ cur[c] < sub_id_gen
  BY CurDrawn
<1>a. Locals
  BY LocalTypes
<1>b. \A t \in subscriptions : sub[t].conn \in Conns
  BY RegisteredOwner
<1> USE DEF IInv, Goto, drawn, registry, routes, groups
<1>3. TypeOK'
  BY DEF LeaveGroup, TypeOK, PC
<1>4. Sessions'
  <2>1. ASSUME NEW d \in Conns PROVE Subscriber(d)'
    BY <1>1, <1>a DEF LeaveGroup, Sessions, Subscriber, Subscribing, Locals, Routed, IsWild,
       Grouped
  <2>2. ASSUME NEW d \in Conns PROVE Remover(d)'
    BY <1>a DEF LeaveGroup, Sessions, Remover, Subscribing, HoldsRemoved, Locals
  <2>3. ASSUME NEW d \in Conns PROVE Loops(d)'
    <3>1. removed[c] = {cur[c]} /\ todo[c] = {}
      BY DEF LeaveGroup, Sessions, Caller
    <3>2. \A k \in Keys : members'[k] \subseteq members[k] \ {cur[c]}
      BY DEF LeaveGroup, TypeOK, MembersHoldTheirKey
    <3> QED
      BY <1>a, <3>1, <3>2, SMT DEF LeaveGroup, Sessions, Loops, Subscribing, Locals
  <2>4. ASSUME NEW d \in Conns PROVE Caller(d)'
    BY <1>a DEF LeaveGroup, Sessions, Caller, Subscribing, Locals
  <2> QED
    BY <2>1, <2>2, <2>3, <2>4 DEF Sessions
<1>5. Drawn' /\ RouteKind' /\ MembersHoldTheirKey'
  <2>1. \A k \in Keys : members'[k] \subseteq members[k]
    BY DEF LeaveGroup, TypeOK
  <2>2. Drawn' /\ RouteKind'
    BY <2>1 DEF LeaveGroup, Drawn, RouteKind, IsWild
  <2>3. MembersHoldTheirKey'
    BY <2>1 DEF LeaveGroup, MembersHoldTheirKey, Grouped, KeyOf
  <2> QED
    BY <2>2, <2>3
<1>6. RegisteredIsReachable'
  BY <1>a, <1>b DEF LeaveGroup, RegisteredIsReachable, Locals, Routed, IsWild
<1>7. RouteIsOwned'
  BY <1>a DEF LeaveGroup, RouteIsOwned, Locals
<1>8. MemberIsOwned'
  BY <1>a, SMT DEF LeaveGroup, MemberIsOwned, Locals
<1>9. CountAgrees'
  BY DEF LeaveGroup, CountAgrees, Live, Removing
<1> QED
  BY <1>3, <1>4, <1>5, <1>6, <1>7, <1>8, <1>9

\* dec_subscriptions for one removed subscription preserves the invariant, the count included:
\* only the call that took the subscription out of the map gets there.
LEMMA UncountStep ==
    ASSUME IInv, NEW c \in Conns, NEW s \in SubIds, Uncount(c, s)
    PROVE  IInv'
<1>1. pc[c] \in Subscribing \cup HoldsRemoved => cur[c] \in SubIds /\ cur[c] < sub_id_gen
  BY CurDrawn
<1>a. Locals
  BY LocalTypes
<1>b. \A t \in subscriptions : sub[t].conn \in Conns
  BY RegisteredOwner
<1> USE DEF IInv, Goto, drawn, registry, routes, groups, Return
<1>3. TypeOK'
  <2>1. s \in Live \cup Removing
    BY DEF Uncount, Removing
  <2>2. active_subscriptions # 0
    BY <2>1, CountedFinite, FS_EmptySet DEF CountAgrees
  <2>3. active_subscriptions' \in Nat
    BY <2>2, SMT DEF Uncount, TypeOK
  <2> QED
    BY <2>3, TableAssumption, SMT DEF Uncount, TypeOK, PC
<1>4. Sessions'
  <2>1. ASSUME NEW d \in Conns PROVE Subscriber(d)'
    BY <1>1, <1>a, SMT DEF Uncount, Sessions, Subscriber, Subscribing, Locals, Routed, IsWild,
       Grouped
  <2>2. ASSUME NEW d \in Conns PROVE Remover(d)'
    BY <1>a, SMT DEF Uncount, Sessions, Remover, Subscribing, HoldsRemoved, Locals
  <2>3. ASSUME NEW d \in Conns PROVE Loops(d)'
    BY <1>a DEF Uncount, Sessions, Loops, Subscribing, Locals
  <2>4. ASSUME NEW d \in Conns PROVE Caller(d)'
    <3>1. Caller(c) /\ Caller(d)
      BY DEF Sessions
    <3> QED
      BY <1>a, <3>1, SMT DEF Uncount, Caller, Subscribing, Locals
  <2> QED
    BY <2>1, <2>2, <2>3, <2>4 DEF Sessions
<1>5. Drawn' /\ RouteKind' /\ MembersHoldTheirKey'
  BY DEF Uncount, Drawn, RouteKind, MembersHoldTheirKey, IsWild, Grouped, KeyOf
<1>6. RegisteredIsReachable'
  <2>1. todo[c] = {}
    BY DEF Uncount, Sessions, Loops
  <2> QED
    BY <1>a, <1>b, <2>1, SMT DEF Uncount, RegisteredIsReachable, Locals, Routed, IsWild
<1>7. RouteIsOwned'
  BY <1>a, SMT DEF Uncount, RouteIsOwned, Locals
<1>8. MemberIsOwned'
  <2>1. \A k \in Keys : s \notin members[k]
    BY DEF Uncount, Sessions, Loops
  <2> QED
    BY <2>1, SMT DEF Uncount, MemberIsOwned, TypeOK
<1>9. CountAgrees'
  <2>1. s \notin Live
    BY DEF Uncount, Live, Sessions, Remover
  <2>2. Removing' = Removing \ {s}
    BY SMT DEF Uncount, Removing, Sessions, Remover, TypeOK
  <2>3. (Live \cup Removing)' = (Live \cup Removing) \ {s}
    BY <2>1, <2>2 DEF Uncount, Live
  <2>4. s \in Live \cup Removing
    BY DEF Uncount, Removing
  <2> QED
    BY <2>3, <2>4, CountedFinite, FS_RemoveElement, SMT DEF Uncount, CountAgrees
<1> QED
  BY <1>3, <1>4, <1>5, <1>6, <1>7, <1>8, <1>9

-----------------------------------------------------------------------------
(* BrokerCore::remove_connection *)

\* Taking the connection's ids out of by_connection, the first step of
\* remove_all_for_connection, preserves the invariant.
LEMMA RemoveConnectionStep ==
    ASSUME IInv, NEW c \in Conns, RemoveConnection(c)
    PROVE  IInv'
<1>1. pc[c] \in Subscribing \cup HoldsRemoved => cur[c] \in SubIds /\ cur[c] < sub_id_gen
  BY CurDrawn
<1>a. Locals
  BY LocalTypes
<1>b. \A t \in subscriptions : sub[t].conn \in Conns
  BY RegisteredOwner
<1> USE DEF IInv, Goto, drawn, registry, routes, groups
<1>3. TypeOK'
  BY DEF RemoveConnection, TypeOK, PC
<1>4. Sessions'
  <2>1. ASSUME NEW d \in Conns PROVE Subscriber(d)'
    BY <1>1, <1>a DEF RemoveConnection, Sessions, Subscriber, Subscribing, Locals, Routed, IsWild,
       Grouped
  <2>2. ASSUME NEW d \in Conns PROVE Remover(d)'
    BY <1>a DEF RemoveConnection, Sessions, Remover, Subscribing, HoldsRemoved, Locals
  <2>3. ASSUME NEW d \in Conns PROVE Loops(d)'
    <3>1. by_connection[c] \subseteq acked
      BY DEF RemoveConnection, Sessions, Caller
    <3> QED
      BY <1>a, <3>1 DEF RemoveConnection, Sessions, Loops, Subscribing, Locals
  <2>4. ASSUME NEW d \in Conns PROVE Caller(d)'
    <3>1. by_connection \in [Conns -> SUBSET SubIds]
      BY DEF TypeOK
    <3> QED
      BY <1>a, <3>1 DEF RemoveConnection, Sessions, Caller, Subscribing, Locals
  <2> QED
    BY <2>1, <2>2, <2>3, <2>4 DEF Sessions
<1>5. Drawn' /\ RouteKind' /\ MembersHoldTheirKey'
  BY DEF RemoveConnection, Drawn, RouteKind, MembersHoldTheirKey, IsWild, Grouped, KeyOf
<1>6. RegisteredIsReachable'
  <2>1. op[c] = "none"
    BY DEF RemoveConnection, Sessions, Caller, Subscribing
  <2>2. by_connection \in [Conns -> SUBSET SubIds]
    BY DEF TypeOK
  <2> QED
    BY <1>a, <1>b, <2>1, <2>2 DEF RemoveConnection, RegisteredIsReachable, Locals, Routed, IsWild
<1>7. RouteIsOwned'
  BY <1>a DEF RemoveConnection, RouteIsOwned, Locals
<1>8. MemberIsOwned'
  BY <1>a, SMT DEF RemoveConnection, MemberIsOwned, Locals
<1>9. CountAgrees'
  BY DEF RemoveConnection, CountAgrees, Live, Removing
<1> QED
  BY <1>3, <1>4, <1>5, <1>6, <1>7, <1>8, <1>9

\* One round of remove_all_for_connection's loop preserves the invariant, whether the id is still
\* registered or was unsubscribed meanwhile.
LEMMA PurgeStep ==
    ASSUME IInv, NEW c \in Conns, NEW s \in SubIds, Purge(c, s)
    PROVE  IInv'
<1>2. Fields
  BY DrawnFields
<1>a. Locals
  BY LocalTypes
<1> USE DEF IInv, Goto, drawn, registry, routes, groups
<1>0. s \in acked
  BY DEF Purge, Sessions, Loops, TypeOK
<1>3. TypeOK'
  <2>1. todo' \in [Conns -> SUBSET SubIds] /\ removed' \in [Conns -> SUBSET SubIds]
    BY <1>0, SMT DEF Purge, TypeOK
  <2>0. s \in 0..MaxSubs
    BY SMT DEF SubIds
  <2>2. cur' \in [Conns -> 0..MaxSubs]
    BY <2>0 DEF Purge, TypeOK
  <2> QED
    BY <2>1, <2>2 DEF Purge, TypeOK, PC
<1>4. Sessions'
  <2>1. ASSUME NEW d \in Conns PROVE Subscriber(d)'
    BY <1>0, <1>a, SMT DEF Purge, Sessions, Subscriber, Subscribing, Locals, Routed, IsWild,
       Grouped
  <2>2. ASSUME NEW d \in Conns PROVE Remover(d)'
    BY <1>0, <1>a, SMT DEF Purge, Sessions, Remover, Subscribing, HoldsRemoved, Locals
  <2>3. ASSUME NEW d \in Conns PROVE Loops(d)'
    BY <1>a, ZenonT(40) DEF Purge, Sessions, Loops, Subscribing, Locals
  <2>4. ASSUME NEW d \in Conns PROVE Caller(d)'
    BY <1>a, SMT DEF Purge, Sessions, Caller, Subscribing, Locals
  <2> QED
    BY <2>1, <2>2, <2>3, <2>4 DEF Sessions
<1>5. Drawn' /\ RouteKind' /\ MembersHoldTheirKey'
  BY DEF Purge, Drawn, RouteKind, MembersHoldTheirKey, IsWild, Grouped, KeyOf
<1>6. RegisteredIsReachable'
  <2>1. \A t \in subscriptions' : t \in subscriptions /\ t # s /\ sub[t].conn \in Conns
    BY <1>2, SMT DEF Purge, Fields, Drawn, TypeOK
  <2>2. \A d \in Conns : pc[d] = "index" => pc'[d] = "index" /\ cur'[d] = cur[d]
    BY DEF Purge, TypeOK
  <2>3. \A d \in Conns : todo[d] \ {s} \subseteq todo'[d]
    BY DEF Purge, TypeOK
  <2> QED
    BY <2>1, <2>2, <2>3 DEF Purge, RegisteredIsReachable, Routed, IsWild
<1>7. RouteIsOwned'
  BY <1>a, SMT DEF Purge, RouteIsOwned, Locals
<1>8. MemberIsOwned'
  <2>1. \A d \in Conns : removed[d] \subseteq removed'[d]
    BY SMT DEF Purge, TypeOK
  <2>2. s \in subscriptions => s \in removed'[c]
    BY SMT DEF Purge, TypeOK
  <2>3. \A t \in subscriptions : t # s => t \in subscriptions'
    BY DEF Purge
  <2>4. \A d \in Conns : pc[d] \in {"insert", "set_flag", "register"} => pc'[d] = pc[d] /\ cur'[d] = cur[d]
    BY DEF Purge, TypeOK
  <2> QED
    BY <2>1, <2>2, <2>3, <2>4, SMT DEF Purge, MemberIsOwned
<1>9. CountAgrees'
  <2>1. CASE s \in subscriptions
    <3>1. Removing' = Removing \cup {s}
      BY <2>1, SMT DEF Purge, Removing, TypeOK
    <3>2. (Live \cup Removing)' = Live \cup Removing
      BY <1>0, <2>1, <3>1 DEF Purge, Live
    <3> QED
      BY <3>2 DEF Purge, CountAgrees
  <2>2. CASE s \notin subscriptions
    BY <2>2 DEF Purge, CountAgrees, Live, Removing
  <2> QED
    BY <2>1, <2>2
<1> QED
  BY <1>3, <1>4, <1>5, <1>6, <1>7, <1>8, <1>9

\* The end of that loop preserves the invariant.
LEMMA PurgeDoneStep ==
    ASSUME IInv, NEW c \in Conns, PurgeDone(c)
    PROVE  IInv'
<1>1. pc[c] \in Subscribing \cup HoldsRemoved => cur[c] \in SubIds /\ cur[c] < sub_id_gen
  BY CurDrawn
<1>a. Locals
  BY LocalTypes
<1>b. \A t \in subscriptions : sub[t].conn \in Conns
  BY RegisteredOwner
<1> USE DEF IInv, Goto, drawn, registry, routes, groups
<1>3. TypeOK'
  BY DEF PurgeDone, TypeOK, PC
<1>4. Sessions'
  <2>1. ASSUME NEW d \in Conns PROVE Subscriber(d)'
    BY <1>1, <1>a DEF PurgeDone, Sessions, Subscriber, Subscribing, Locals, Routed, IsWild,
       Grouped
  <2>2. ASSUME NEW d \in Conns PROVE Remover(d)'
    BY <1>a DEF PurgeDone, Sessions, Remover, Subscribing, HoldsRemoved, Locals
  <2>3. ASSUME NEW d \in Conns PROVE Loops(d)'
    <3>1. \A k \in Keys : members[k] \cap removed[c] \subseteq {s \in removed[c] : Grouped(s)}
      BY DEF MembersHoldTheirKey
    <3>2. removed[c] \subseteq acked
      BY DEF Sessions, Remover
    <3> QED
      BY <1>a, <3>1, <3>2 DEF PurgeDone, Sessions, Loops, Subscribing, Locals
  <2>4. ASSUME NEW d \in Conns PROVE Caller(d)'
    BY <1>a DEF PurgeDone, Sessions, Caller, Subscribing, Locals
  <2> QED
    BY <2>1, <2>2, <2>3, <2>4 DEF Sessions
<1>5. Drawn' /\ RouteKind' /\ MembersHoldTheirKey'
  BY DEF PurgeDone, Drawn, RouteKind, MembersHoldTheirKey, IsWild, Grouped, KeyOf
<1>6. RegisteredIsReachable'
  BY <1>a, <1>b DEF PurgeDone, RegisteredIsReachable, Locals, Routed, IsWild
<1>7. RouteIsOwned'
  BY <1>a DEF PurgeDone, RouteIsOwned, Locals
<1>8. MemberIsOwned'
  BY <1>a, SMT DEF PurgeDone, MemberIsOwned, Locals
<1>9. CountAgrees'
  BY DEF PurgeDone, CountAgrees, Live, Removing
<1> QED
  BY <1>3, <1>4, <1>5, <1>6, <1>7, <1>8, <1>9

\* One round of remove_connection's loop over the queue groups preserves the invariant.
LEMMA LeaveAllStep ==
    ASSUME IInv, NEW c \in Conns, NEW s \in SubIds, LeaveAll(c, s)
    PROVE  IInv'
<1>a. Locals
  BY LocalTypes
<1>b. \A t \in subscriptions : sub[t].conn \in Conns
  BY RegisteredOwner
<1> USE DEF IInv, Goto, drawn, registry, routes, groups
<1>0. s \in removed[c] /\ s < sub_id_gen
  BY DEF LeaveAll, Sessions, Loops, Remover, Drawn, TypeOK
<1>3. TypeOK'
  <2>1. members' \in [Keys -> SUBSET SubIds]
    BY DEF LeaveAll, TypeOK
  <2>2. todo' \in [Conns -> SUBSET SubIds] /\ cur' \in [Conns -> 0..MaxSubs]
    BY <1>0, TableAssumption, SMT DEF LeaveAll, TypeOK, SubIds
  <2> QED
    BY <2>1, <2>2 DEF LeaveAll, TypeOK, PC
<1>4. Sessions'
  <2>1. KeyOf(s) \in Keys => \A t \in removed[c] : t \notin members'[KeyOf(s)]
    BY DEF LeaveAll, TypeOK
  <2>2. \A k \in Keys : k # KeyOf(s) => members'[k] = members[k] /\ s \notin members[k]
    BY DEF LeaveAll, TypeOK, MembersHoldTheirKey
  <2>3. \A k \in Keys : members'[k] \subseteq members[k]
    BY DEF LeaveAll, TypeOK
  <2>4. ASSUME NEW d \in Conns PROVE Subscriber(d)'
    BY <1>a DEF LeaveAll, Sessions, Subscriber, Subscribing, Locals, Routed, IsWild, Grouped
  <2>5. ASSUME NEW d \in Conns PROVE Remover(d)'
    BY <1>0, <1>a DEF LeaveAll, Sessions, Remover, Subscribing, HoldsRemoved, Locals
  <2>6. ASSUME NEW d \in Conns PROVE Caller(d)'
    BY <1>a DEF LeaveAll, Sessions, Caller, Subscribing, Locals
  <2>7. ASSUME NEW d \in Conns PROVE Loops(d)'
    BY <1>0, <1>a, <2>1, <2>2, <2>3, SMT DEF LeaveAll, Sessions, Loops, Subscribing, Locals
  <2> QED
    BY <2>4, <2>5, <2>6, <2>7 DEF Sessions
<1>5. Drawn' /\ RouteKind' /\ MembersHoldTheirKey'
  <2>1. \A k \in Keys : members'[k] \subseteq members[k]
    BY DEF LeaveAll, TypeOK
  <2> QED
    BY <2>1 DEF LeaveAll, Drawn, RouteKind, MembersHoldTheirKey, IsWild, Grouped, KeyOf
<1>6. RegisteredIsReachable'
  <2>1. s \notin subscriptions
    BY <1>0 DEF Sessions, Remover
  <2> QED
    BY <1>a, <1>b, <2>1 DEF LeaveAll, RegisteredIsReachable, Locals, Routed, IsWild
<1>7. RouteIsOwned'
  BY <1>a DEF LeaveAll, RouteIsOwned, Locals
<1>8. MemberIsOwned'
  BY <1>a, SMT DEF LeaveAll, MemberIsOwned, Locals
<1>9. CountAgrees'
  BY DEF LeaveAll, CountAgrees, Live, Removing
<1> QED
  BY <1>3, <1>4, <1>5, <1>6, <1>7, <1>8, <1>9

\* Removing a group that was found empty preserves the invariant.
LEMMA DropGroupStep ==
    ASSUME IInv, NEW c \in Conns, DropGroup(c)
    PROVE  IInv'
<1>1. pc[c] \in Subscribing \cup HoldsRemoved => cur[c] \in SubIds /\ cur[c] < sub_id_gen
  BY CurDrawn
<1>a. Locals
  BY LocalTypes
<1>b. \A t \in subscriptions : sub[t].conn \in Conns
  BY RegisteredOwner
<1> USE DEF IInv, Goto, drawn, registry, routes, groups
<1>3. TypeOK'
  BY DEF DropGroup, TypeOK, PC
<1>4. Sessions'
  <2>1. ASSUME NEW d \in Conns PROVE Subscriber(d)'
    BY <1>1, <1>a DEF DropGroup, Sessions, Subscriber, Subscribing, Locals, Routed, IsWild,
       Grouped
  <2>2. ASSUME NEW d \in Conns PROVE Remover(d)'
    BY <1>a DEF DropGroup, Sessions, Remover, Subscribing, HoldsRemoved, Locals
  <2>3. ASSUME NEW d \in Conns PROVE Loops(d)'
    BY <1>a, SMT DEF DropGroup, Sessions, Loops, Subscribing, Locals
  <2>4. ASSUME NEW d \in Conns PROVE Caller(d)'
    BY <1>a DEF DropGroup, Sessions, Caller, Subscribing, Locals
  <2> QED
    BY <2>1, <2>2, <2>3, <2>4 DEF Sessions
<1>5. Drawn' /\ RouteKind' /\ MembersHoldTheirKey'
  <2>1. \A k \in Keys : members'[k] \subseteq members[k]
    BY DEF DropGroup, TypeOK
  <2>2. Drawn' /\ RouteKind'
    BY <2>1 DEF DropGroup, Drawn, RouteKind, IsWild
  <2>4. \A k \in Keys : members'[k] # {} => k # KeyOf(cur[c])
    BY DEF DropGroup, TypeOK
  <2>3. MembersHoldTheirKey'
    BY <2>1, <2>4 DEF DropGroup, MembersHoldTheirKey, Grouped, KeyOf
  <2> QED
    BY <2>2, <2>3
<1>6. RegisteredIsReachable'
  BY <1>a, <1>b DEF DropGroup, RegisteredIsReachable, Locals, Routed, IsWild
<1>7. RouteIsOwned'
  BY <1>a DEF DropGroup, RouteIsOwned, Locals
<1>8. MemberIsOwned'
  BY <1>a, SMT DEF DropGroup, MemberIsOwned, Locals
<1>9. CountAgrees'
  BY DEF DropGroup, CountAgrees, Live, Removing
<1> QED
  BY <1>3, <1>4, <1>5, <1>6, <1>7, <1>8, <1>9

\* Removing the key of that group preserves the invariant.
LEMMA DropKeyStep ==
    ASSUME IInv, NEW c \in Conns, DropKey(c)
    PROVE  IInv'
<1>1. pc[c] \in Subscribing \cup HoldsRemoved => cur[c] \in SubIds /\ cur[c] < sub_id_gen
  BY CurDrawn
<1>a. Locals
  BY LocalTypes
<1>b. \A t \in subscriptions : sub[t].conn \in Conns
  BY RegisteredOwner
<1> USE DEF IInv, Goto, drawn, registry, routes, groups
<1>3. TypeOK'
  <2>0. 0 \in 0..MaxSubs
    BY TableAssumption, SMT
  <2>1. queue_group_keys' \in [Keys -> 0..MaxSubs]
    BY <2>0 DEF DropKey, TypeOK
  <2> QED
    BY <2>1 DEF DropKey, TypeOK, PC
<1>4. Sessions'
  <2>1. ASSUME NEW d \in Conns PROVE Subscriber(d)'
    BY <1>1, <1>a DEF DropKey, Sessions, Subscriber, Subscribing, Locals, Routed, IsWild, Grouped
  <2>2. ASSUME NEW d \in Conns PROVE Remover(d)'
    BY <1>a DEF DropKey, Sessions, Remover, Subscribing, HoldsRemoved, Locals
  <2>3. ASSUME NEW d \in Conns PROVE Loops(d)'
    BY <1>a DEF DropKey, Sessions, Loops, Subscribing, Locals
  <2>4. ASSUME NEW d \in Conns PROVE Caller(d)'
    BY <1>a DEF DropKey, Sessions, Caller, Subscribing, Locals
  <2> QED
    BY <2>1, <2>2, <2>3, <2>4 DEF Sessions
<1>5. Drawn' /\ RouteKind' /\ MembersHoldTheirKey'
  BY DEF DropKey, Drawn, RouteKind, MembersHoldTheirKey, IsWild, Grouped, KeyOf
<1>6. RegisteredIsReachable'
  BY <1>a, <1>b DEF DropKey, RegisteredIsReachable, Locals, Routed, IsWild
<1>7. RouteIsOwned'
  BY <1>a DEF DropKey, RouteIsOwned, Locals
<1>8. MemberIsOwned'
  BY <1>a, SMT DEF DropKey, MemberIsOwned, Locals
<1>9. CountAgrees'
  BY DEF DropKey, CountAgrees, Live, Removing
<1> QED
  BY <1>3, <1>4, <1>5, <1>6, <1>7, <1>8, <1>9

\* The end of remove_connection's loop over the queue groups preserves the invariant.
LEMMA LeaveAllDoneStep ==
    ASSUME IInv, NEW c \in Conns, LeaveAllDone(c)
    PROVE  IInv'
<1>1. pc[c] \in Subscribing \cup HoldsRemoved => cur[c] \in SubIds /\ cur[c] < sub_id_gen
  BY CurDrawn
<1>2. Fields
  BY DrawnFields
<1>a. Locals
  BY LocalTypes
<1> USE DEF IInv, Goto, drawn, registry, routes, groups, Return
<1>3. TypeOK'
  <2>1. cur' \in [Conns -> 0..MaxSubs]
    BY TableAssumption, SMT DEF LeaveAllDone, TypeOK
  <2> QED
    BY <2>1 DEF LeaveAllDone, TypeOK, PC
<1>4. Sessions'
  <2>1. ASSUME NEW d \in Conns PROVE Subscriber(d)'
    BY <1>1, <1>a, SMT DEF LeaveAllDone, Sessions, Subscriber, Subscribing, Locals, Routed,
       IsWild, Grouped
  <2>2. ASSUME NEW d \in Conns PROVE Remover(d)'
    BY <1>a, SMT DEF LeaveAllDone, Sessions, Remover, Subscribing, HoldsRemoved, Locals
  <2>3. ASSUME NEW d \in Conns PROVE Loops(d)'
    BY <1>a DEF LeaveAllDone, Sessions, Loops, Subscribing, Locals
  <2>4. ASSUME NEW d \in Conns PROVE Caller(d)'
    <3>1. Caller(c) /\ Caller(d)
      BY DEF Sessions
    <3> QED
      BY <1>a, <3>1, SMT DEF LeaveAllDone, Caller, Subscribing, Locals
  <2> QED
    BY <2>1, <2>2, <2>3, <2>4 DEF Sessions
<1>5. Drawn' /\ RouteKind' /\ MembersHoldTheirKey'
  BY DEF LeaveAllDone, Drawn, RouteKind, MembersHoldTheirKey, IsWild, Grouped, KeyOf
<1>6. RegisteredIsReachable'
  <2>1. \A d \in Conns : pc[d] = "index" => pc'[d] = "index" /\ cur'[d] = cur[d]
    BY DEF LeaveAllDone, TypeOK
  <2>2. \A d \in Conns : op[d] = "remove" => op'[d] = "remove" \/ todo[d] = {}
    BY DEF LeaveAllDone, TypeOK
  <2>3. \A s \in subscriptions : sub[s].conn \in Conns
    BY <1>2 DEF Fields, Drawn, TypeOK
  <2> QED
    BY <2>1, <2>2, <2>3 DEF LeaveAllDone, RegisteredIsReachable, Routed, IsWild
<1>7. RouteIsOwned'
  BY <1>a, SMT DEF LeaveAllDone, RouteIsOwned, Locals
<1>8. MemberIsOwned'
  BY <1>a, SMT DEF LeaveAllDone, MemberIsOwned, Locals
<1>9. CountAgrees'
  BY DEF LeaveAllDone, CountAgrees, Live, Removing
<1> QED
  BY <1>3, <1>4, <1>5, <1>6, <1>7, <1>8, <1>9

-----------------------------------------------------------------------------
(* The invariant holds initially and in every reachable state *)

\* The invariant holds of the empty tables of BrokerCore::new.
LEMMA InitIInv == Init => IInv
<1> SUFFICES ASSUME Init PROVE IInv
  OBVIOUS
<1>1. 0 \in 0..MaxSubs /\ 1 \in 1..(MaxSubs + 1)
  BY TableAssumption, SMT
<1>2. TypeOK
  <2>1. sub \in [SubIds -> Subscription \cup {Unused}] /\ \A s \in SubIds : ~ (s < sub_id_gen)
    BY SMT DEF Init, SubIds
  <2>2. queue_group_keys \in [Keys -> 0..MaxSubs] /\ cur \in [Conns -> 0..MaxSubs]
    BY <1>1 DEF Init
  <2> QED
    BY <1>1, <2>1, <2>2 DEF Init, TypeOK, PC
<1>3. Drawn /\ RouteKind /\ RegisteredIsReachable /\ RouteIsOwned /\ MembersHoldTheirKey /\ MemberIsOwned
  BY DEF Init, Drawn, RouteKind, RegisteredIsReachable, RouteIsOwned, MembersHoldTheirKey,
     MemberIsOwned
<1>4. Sessions
  BY DEF Init, Sessions, Subscriber, Remover, Loops, Caller, Subscribing, HoldsRemoved
<1>5. CountAgrees
  <2>1. Live \cup Removing = {}
    BY DEF Init, Live, Removing
  <2> QED
    BY <2>1, FS_EmptySet DEF Init, CountAgrees
<1> QED
  BY <1>2, <1>3, <1>4, <1>5 DEF IInv

\* Every step of a session preserves the invariant: one case for each step above.
LEMMA SessionIInv ==
    ASSUME IInv, NEW c \in Conns, Session(c)
    PROVE  IInv'
<1>1. CASE SubscribeSteps(c)
  BY <1>1, SubscribeStep, InternKeyStep, JoinGroupStep, InsertRouteStep, SetFlagStep,
     RegisterStep, IndexByConnectionStep, CountSubscriptionStep DEF SubscribeSteps
<1>2. CASE UnsubscribeSteps(c)
  BY <1>2, UnsubscribeStep, UnrouteStep, CheckEmptyStep, ResetFlagStep, UnindexStep,
     LeaveGroupStep, UncountStep DEF UnsubscribeSteps
<1>3. CASE RemoveSteps(c)
  BY <1>3, RemoveConnectionStep, PurgeStep, PurgeDoneStep, LeaveAllStep, DropGroupStep,
     DropKeyStep, LeaveAllDoneStep DEF RemoveSteps
<1> QED
  BY <1>1, <1>2, <1>3 DEF Session

\* The invariant asks nothing of the round robin's index but its type.
LEMMA IndexIInv ==
    ASSUME IInv, current_index' \in [Keys -> Nat],
           UNCHANGED <<drawn, registry, routes, queue_group_keys, queue_groups, members, joined,
                       active_subscriptions, acked, locals>>
    PROVE  IInv'
<1> USE DEF IInv, drawn, registry, routes, locals
<1>1. TypeOK'
  BY DEF TypeOK
<1>2. Drawn' /\ RouteKind' /\ MembersHoldTheirKey'
  BY DEF Drawn, RouteKind, MembersHoldTheirKey, IsWild, Grouped, KeyOf
<1>3. ASSUME NEW c \in Conns PROVE Subscriber(c)' /\ Remover(c)' /\ Loops(c)' /\ Caller(c)'
  <2>1. Subscriber(c)'
    BY DEF Sessions, Subscriber, Routed, IsWild, Grouped
  <2>2. Remover(c)'
    BY DEF Sessions, Remover
  <2>3. Loops(c)'
    BY DEF Sessions, Loops
  <2>4. Caller(c)'
    BY DEF Sessions, Caller
  <2> QED
    BY <2>1, <2>2, <2>3, <2>4
<1>4. RegisteredIsReachable'
  BY DEF RegisteredIsReachable, Routed, IsWild
<1>5. RouteIsOwned' /\ MemberIsOwned'
  BY SMT DEF RouteIsOwned, MemberIsOwned
<1>6. CountAgrees'
  BY DEF CountAgrees, Live, Removing
<1> QED
  BY <1>1, <1>2, <1>3, <1>4, <1>5, <1>6 DEF Sessions

\* A step that changes none of the tables preserves the invariant.
LEMMA StutterIInv == IInv /\ UNCHANGED tableVars => IInv'
BY IndexIInv DEF IInv, TypeOK, tableVars, groups

\* The invariant is inductive: whatever the sessions interleave, every section of every
\* call keeps it.
THEOREM TableInvariant == Spec => []IInv
<1>1. IInv /\ [Next]_tableVars => IInv'
  BY SessionIInv, StutterIInv DEF Next
<1> QED
  BY <1>1, InitIInv, PTL DEF Spec

-----------------------------------------------------------------------------
(* What follows from it *)

\* Every table of the core keeps its type; active_subscriptions never wraps below zero.
THEOREM TypeCorrect == Spec => []TypeOK
BY TableInvariant, PTL DEF IInv

\* A registered subscription is always routed, and the disconnect of its owner finds it.
THEOREM RegisteredReachable == Spec => []RegisteredIsReachable
BY TableInvariant, PTL DEF IInv

\* No route outlives its registry entry.
THEOREM RoutesOwned == Spec => []RouteIsOwned
BY TableInvariant, PTL DEF IInv

\* active_subscriptions counts exactly the acknowledged subscriptions that are registered
\* or still to be counted down.
THEOREM CountExact == Spec => []CountAgrees
BY TableInvariant, PTL DEF IInv

\* While an acknowledged subscription is registered the counter is not zero, so
\* has_active_subscriptions cannot send a publisher down the path that drops its PUBs.
THEOREM NeverDrainsUnderSubscriber == Spec => [](Live # {} => active_subscriptions > 0)
<1>1. IInv => (Live # {} => active_subscriptions > 0)
  <2> SUFFICES ASSUME IInv, Live # {} PROVE active_subscriptions > 0
    OBVIOUS
  <2>1. active_subscriptions = Cardinality(Live \cup Removing) /\ active_subscriptions \in Nat
    BY DEF IInv, CountAgrees, TypeOK
  <2>2. Cardinality(Live \cup Removing) # 0
    BY CountedFinite, FS_EmptySet DEF IInv
  <2> QED
    BY <2>1, <2>2, SMT
<1> QED
  BY <1>1, TableInvariant, PTL

\* A queue group lists only subscriptions of its own key.
THEOREM MembersSound == Spec => []MembersHoldTheirKey
BY TableInvariant, PTL DEF IInv

\* remove_connection leaves nothing of the connection behind.
THEOREM DisconnectIsClean == Spec => []ClosedLeavesNothing
<1>1. IInv => ClosedLeavesNothing
  <2> SUFFICES ASSUME IInv, NEW c \in Conns, pc[c] = "closed"
               PROVE  /\ by_connection[c] = {}
                      /\ \A s \in 1..(sub_id_gen - 1) : sub[s].conn = c =>
                            /\ s \notin subscriptions
                            /\ s \notin Removing =>
                                  /\ s \notin exact \cup wildcard_trie
                                  /\ \A k \in Keys : s \notin members[k]
    BY DEF ClosedLeavesNothing
  <2>0. Sessions /\ RegisteredIsReachable /\ RouteIsOwned /\ MemberIsOwned
    BY DEF IInv
  <2>1. by_connection[c] = {} /\ todo[c] = {}
    BY <2>0 DEF Sessions, Caller, Loops
  <2>2. ASSUME NEW s \in 1..(sub_id_gen - 1), sub[s].conn = c
        PROVE  s \notin subscriptions
    BY <2>0, <2>1, <2>2 DEF RegisteredIsReachable
  <2>3. ASSUME NEW s \in 1..(sub_id_gen - 1), sub[s].conn = c, NEW d \in Conns,
               cur[d] = s, pc[d] \in {"insert", "set_flag", "register"}
        PROVE  FALSE
    <3>1. Subscriber(d)
      BY <2>0 DEF Sessions
    <3> QED
      BY <2>3, <3>1 DEF Subscriber, Subscribing
  <2>4. ASSUME NEW d \in Conns, pc[d] = "unroute"
        PROVE  cur[d] \in Removing
    BY <2>0, <2>4, SMT DEF Sessions, Remover, HoldsRemoved, Removing
  <2>5. ASSUME NEW s \in 1..(sub_id_gen - 1), sub[s].conn = c, s \notin Removing
        PROVE  s \notin exact \cup wildcard_trie
    BY <2>0, <2>2, <2>3, <2>4, <2>5, SMT DEF RouteIsOwned
  <2>6. ASSUME NEW s \in 1..(sub_id_gen - 1), sub[s].conn = c, s \notin Removing, NEW k \in Keys
        PROVE  s \notin members[k]
    BY <2>0, <2>2, <2>3, <2>6, SMT DEF MemberIsOwned, Removing
  <2> QED
    BY <2>1, <2>2, <2>5, <2>6
<1> QED
  BY <1>1, TableInvariant, PTL

-----------------------------------------------------------------------------
(* What publishers rely on *)

\* Which sections of a session change what a publisher reads.
LEMMA SessionFrame ==
    ASSUME NEW c \in Conns, Session(c)
    PROVE  /\ \/ UNCHANGED drawn
              \/ \E p \in Patterns, g \in Groups \cup {NoGroup} : Subscribe(c, p, g)
              \/ InternKey(c)
           /\ UNCHANGED acked \/ CountSubscription(c)
           /\ subscriptions' \subseteq subscriptions \/ Register(c)
           /\ UNCHANGED has_wildcards \/ SetFlag(c) \/ ResetFlag(c)
<1> USE DEF Session, SubscribeSteps, UnsubscribeSteps, RemoveSteps, Subscribe, InternKey,
    JoinGroup, InsertRoute, SetFlag, Register, IndexByConnection, CountSubscription, Unroute,
    CheckEmpty, ResetFlag, Unsubscribe, Unindex, LeaveGroup, Uncount, RemoveConnection, Purge,
    PurgeDone, LeaveAll, DropGroup, DropKey, LeaveAllDone
<1>1. \/ UNCHANGED drawn
      \/ \E p \in Patterns, g \in Groups \cup {NoGroup} : Subscribe(c, p, g)
      \/ InternKey(c)
  OBVIOUS
<1>2. UNCHANGED acked \/ CountSubscription(c)
  OBVIOUS
<1>3. subscriptions' \subseteq subscriptions \/ Register(c)
  BY DEF registry
<1>4. UNCHANGED has_wildcards \/ SetFlag(c) \/ ResetFlag(c)
  BY DEF routes
<1> QED
  BY <1>1, <1>2, <1>3, <1>4

\* Ids are drawn in order, a field other than the interned Arc is written once, and only the
\* subscribe call that drew an id, before it is acknowledged, puts it in the registry.
LEMMA SessionRelies ==
    ASSUME IInv, NEW c \in Conns, Session(c)
    PROVE  Relies
<1>1. sub \in [SubIds -> Subscription \cup {Unused}] /\ sub_id_gen \in Nat
  BY TableAssumption, SMT DEF IInv, TypeOK
<1>2. acked \subseteq acked'
  BY SessionFrame DEF CountSubscription
<1>3. ASSUME NEW s \in acked, s \in subscriptions' PROVE s \in subscriptions
  <2>1. pc[c] = "register" => cur[c] \notin acked
    BY DEF IInv, Sessions, Subscriber, Subscribing
  <2> QED
    BY <1>3, <2>1, SessionFrame DEF Register
<1>4. /\ Ids \subseteq Ids'
      /\ \A s \in Ids : sub'[s].pattern = sub[s].pattern /\ sub'[s].group = sub[s].group
  <2>1. CASE UNCHANGED drawn
    BY <2>1 DEF drawn, Ids
  <2>2. CASE \E p \in Patterns, g \in Groups \cup {NoGroup} : Subscribe(c, p, g)
    <3>1. sub_id_gen' = sub_id_gen + 1 /\ \A s \in Ids : sub'[s] = sub[s]
      <4>1. sub_id_gen' = sub_id_gen + 1
        BY <2>2 DEF Subscribe
      <4>2. PICK new : sub' = [sub EXCEPT ![sub_id_gen] = new]
        BY <2>2 DEF Subscribe
      <4>3. \A s \in Ids : s \in SubIds /\ s # sub_id_gen
        BY <1>1, SMT DEF Ids, SubIds
      <4> QED
        BY <1>1, <4>1, <4>2, <4>3
    <3>2. Ids \subseteq Ids'
      BY <1>1, <3>1, SMT DEF Ids, SubIds
    <3> QED
      BY <3>1, <3>2
  <2>3. CASE InternKey(c)
    <3>1. cur[c] \in SubIds /\ sub[cur[c]] \in Subscription
      BY <2>3, CurDrawn DEF InternKey, Subscribing, IInv, TypeOK
    <3>2. PICK arc : sub' = [sub EXCEPT ![cur[c]] = [@ EXCEPT !.arc = arc]]
      BY <2>3 DEF InternKey
    <3>3. sub'[cur[c]].pattern = sub[cur[c]].pattern /\ sub'[cur[c]].group = sub[cur[c]].group
      BY <1>1, <3>1, <3>2 DEF Subscription
    <3>4. \A s \in SubIds \ {cur[c]} : sub'[s] = sub[s]
      BY <1>1, <3>1, <3>2
    <3> QED
      BY <2>3, <3>3, <3>4 DEF Ids, InternKey
  <2> QED
    BY <2>1, <2>2, <2>3, SessionFrame
<1> QED
  BY <1>2, <1>3, <1>4 DEF Relies

\* Joining numbers a member above all others; nothing else renumbers one or adds one.
LEMMA SessionJoins ==
    ASSUME IInv, JoinedOrder, NEW c \in Conns, Session(c)
    PROVE  JoinedOrder'
<1>1. /\ joined \in [SubIds -> Nat]
      /\ sub_id_gen \in Nat
      /\ members \in [Keys -> SUBSET SubIds]
      /\ pc \in [Conns -> PC]
      /\ cur \in [Conns -> 0..MaxSubs]
  BY TableAssumption, SMT DEF IInv, TypeOK
<1>2. IsFiniteSet(Joined) /\ Cardinality(Joined) \in Nat
  <2>1. IsFiniteSet(1..MaxSubs)
    BY FS_Interval, TableAssumption, SMT
  <2>2. Joined \subseteq 1..MaxSubs
    BY DEF Joined, SubIds
  <2> QED
    BY <2>1, <2>2, FS_Subset, FS_CardinalityType
<1>3. CASE JoinGroup(c)
  <2> DEFINE s == cur[c]
  <2>1. s \in SubIds /\ s < sub_id_gen /\ s \notin Joined /\ Grouped(s) /\ KeyOf(s) \in Keys
    BY <1>3, CurDrawn, DrawnFields DEF JoinGroup, Subscribing, JoinedOrder, IInv, Sessions,
       Subscriber, Fields
  <2>2. /\ joined' = [joined EXCEPT ![s] = 1 + Cardinality(Joined)]
        /\ members' = [members EXCEPT ![KeyOf(s)] = @ \cup {s}]
        /\ pc' = [pc EXCEPT ![c] = "insert"]
        /\ cur' = cur /\ sub_id_gen' = sub_id_gen
    BY <1>3 DEF JoinGroup, Joined, Goto, drawn
  <2>3. joined'[s] = 1 + Cardinality(Joined) /\ \A t \in SubIds \ {s} : joined'[t] = joined[t]
    BY <1>1, <2>1, <2>2
  <2>4. Joined' = Joined \cup {s}
    BY <1>1, <1>2, <2>1, <2>3, SMT DEF Joined
  <2>5. Cardinality(Joined') = Cardinality(Joined) + 1
    BY <1>2, <2>1, <2>4, FS_AddElement
  <2>6. \A t \in Joined : t \in SubIds \ {s} /\ joined[t] \in Nat /\ joined[t] <= Cardinality(Joined)
    BY <1>1, <2>1 DEF Joined, JoinedOrder
  <2>7. \A t \in Joined' : t < sub_id_gen' /\ joined'[t] <= Cardinality(Joined')
    BY <1>1, <1>2, <2>1, <2>2, <2>3, <2>4, <2>5, <2>6, SMT DEF JoinedOrder
  <2>8. \A t, u \in Joined' : joined'[t] = joined'[u] => t = u
    BY <1>2, <2>3, <2>4, <2>6, SMT DEF JoinedOrder
  <2>9. \A k \in Keys : members'[k] \subseteq Joined'
    BY <1>1, <2>1, <2>2, <2>4 DEF JoinedOrder
  <2>10. ASSUME NEW d \in Conns, pc'[d] \in {"intern", "join"} PROVE cur'[d] \notin Joined'
    <3>1. d # c /\ pc'[d] = pc[d] /\ cur'[d] = cur[d]
      BY <1>1, <2>2, <2>10
    <3>2. cur[d] \notin Joined
      BY <2>10, <3>1 DEF JoinedOrder
    <3>3. cur[d] # s
      BY <1>3, <2>10, <3>1, SMT DEF JoinGroup, IInv, Sessions, Subscriber, Subscribing
    <3> QED
      BY <2>4, <3>1, <3>2, <3>3
  <2> QED
    BY <2>7, <2>8, <2>9, <2>10 DEF JoinedOrder
<1>4. CASE \E p \in Patterns, g \in Groups \cup {NoGroup} : Subscribe(c, p, g)
  <2>1. /\ joined' = joined /\ members' = members
        /\ sub_id_gen' = sub_id_gen + 1
        /\ cur' = [cur EXCEPT ![c] = sub_id_gen]
    BY <1>4 DEF Subscribe, groups
  <2>2. \A d \in Conns \ {c} : pc'[d] = pc[d] /\ cur'[d] = cur[d]
    BY <1>1, <1>4 DEF Subscribe, Goto
  <2>3. cur'[c] = sub_id_gen
    BY <1>1, <2>1
  <2>4. Joined' = Joined
    BY <2>1 DEF Joined
  <2>5. \A s \in Joined : s \in Nat /\ s < sub_id_gen
    <3>1. Joined \subseteq Nat
      BY TableAssumption, SMT DEF Joined, SubIds
    <3> QED
      BY <3>1 DEF JoinedOrder
  <2>6. (\A s \in Joined : s < sub_id_gen') /\ sub_id_gen \notin Joined
    BY <1>1, <2>1, <2>5, SMT
  <2>7. \A d \in Conns : pc'[d] \in {"intern", "join"} => cur'[d] \notin Joined
    BY <2>2, <2>3, <2>6 DEF JoinedOrder
  <2> QED
    BY <2>1, <2>4, <2>6, <2>7 DEF JoinedOrder
<1>5. CASE ~ JoinGroup(c) /\ ~ \E p \in Patterns, g \in Groups \cup {NoGroup} : Subscribe(c, p, g)
  <2>1. UNCHANGED joined /\ UNCHANGED sub_id_gen
    BY <1>5 DEF groups, drawn, Session, SubscribeSteps, UnsubscribeSteps, RemoveSteps, Subscribe,
       InternKey, JoinGroup, InsertRoute, SetFlag, Register, IndexByConnection, CountSubscription,
       Unroute, CheckEmpty, ResetFlag, Unsubscribe, Unindex, LeaveGroup, Uncount,
       RemoveConnection, Purge, PurgeDone, LeaveAll, DropGroup, DropKey, LeaveAllDone
  <2>2. UNCHANGED members \/ \E k, left : left \subseteq members[k] /\ members' = [members EXCEPT ![k] = left]
    BY <1>5 DEF groups, Session, SubscribeSteps, UnsubscribeSteps, RemoveSteps, Subscribe,
       InternKey, JoinGroup, InsertRoute, SetFlag, Register, IndexByConnection, CountSubscription,
       Unroute, CheckEmpty, ResetFlag, Unsubscribe, Unindex, LeaveGroup, Uncount,
       RemoveConnection, Purge, PurgeDone, LeaveAll, DropGroup, DropKey, LeaveAllDone
  <2>3. \A k \in Keys : members'[k] \subseteq members[k]
    BY <1>1, <2>2
  <2>4. \/ InternKey(c)
        \/ \E label : label \notin {"intern", "join"} /\ pc' = [pc EXCEPT ![c] = label]
        \/ UNCHANGED pc /\ pc[c] \notin {"intern", "join"}
    BY <1>5 DEF Session, SubscribeSteps, UnsubscribeSteps, RemoveSteps, Goto, Return,
       AfterUnroute, Subscribe, InternKey, JoinGroup, InsertRoute, SetFlag, Register,
       IndexByConnection, CountSubscription, Unroute, CheckEmpty, ResetFlag, Unsubscribe, Unindex,
       LeaveGroup, Uncount, RemoveConnection, Purge, PurgeDone, LeaveAll, DropGroup, DropKey,
       LeaveAllDone
  <2>5. UNCHANGED cur \/ \E s : cur' = [cur EXCEPT ![c] = s]
    BY <1>5 DEF Session, SubscribeSteps, UnsubscribeSteps, RemoveSteps, Goto, Return, Subscribe,
       InternKey, JoinGroup, InsertRoute, SetFlag, Register, IndexByConnection, CountSubscription,
       Unroute, CheckEmpty, ResetFlag, Unsubscribe, Unindex, LeaveGroup, Uncount,
       RemoveConnection, Purge, PurgeDone, LeaveAll, DropGroup, DropKey, LeaveAllDone
  <2>6. ASSUME NEW d \in Conns, pc'[d] \in {"intern", "join"} PROVE cur'[d] \notin Joined
    <3>1. CASE d = c
      <4>1. pc[c] \in {"intern", "join"} /\ cur' = cur
        BY <1>1, <2>4, <2>6, <3>1 DEF InternKey
      <4> QED
        BY <3>1, <4>1 DEF JoinedOrder
    <3>2. CASE d # c
      <4>1. pc'[d] = pc[d]
        BY <1>1, <2>4, <3>2 DEF InternKey, Goto
      <4>2. cur'[d] = cur[d]
        BY <1>1, <2>5, <3>2
      <4> QED
        BY <2>6, <4>1, <4>2 DEF JoinedOrder
    <3> QED
      BY <3>1, <3>2
  <2>7. Joined' = Joined
    BY <2>1 DEF Joined
  <2> QED
    BY <2>1, <2>3, <2>6, <2>7 DEF JoinedOrder
<1> QED
  BY <1>3, <1>4, <1>5

\* The flag is lowered by the removal of a wildcard subscription alone, and a wildcard
\* subscription is registered after it has been raised.
LEMMA SessionFlags ==
    ASSUME IInv, FlagHolds, NEW c \in Conns, Session(c)
    PROVE  FlagHolds'
<1>1. pc \in [Conns -> PC] /\ cur \in [Conns -> 0..MaxSubs]
  BY DEF IInv, TypeOK
<1>2. Relies
  BY SessionRelies
<1>a. \A s \in Ids : IsWild(s)' <=> IsWild(s)
  BY <1>2 DEF Relies, IsWild
<1>b. acked \subseteq Ids /\ subscriptions \subseteq Ids
  BY DEF IInv, TypeOK, Drawn, Ids
<1>c. WildsStay' => WildsStay
  BY <1>2, <1>a, <1>b DEF WildsStay, Relies
<1>3. \A d \in Conns : pc[d] \in Subscribing \cup HoldsRemoved => cur[d] \in Ids
  BY CurDrawn DEF Ids
<1>4. /\ UNCHANGED pc \/ \E label : pc' = [pc EXCEPT ![c] = label]
      /\ UNCHANGED cur \/ \E s : cur' = [cur EXCEPT ![c] = s]
  BY DEF Session, SubscribeSteps, UnsubscribeSteps, RemoveSteps, Goto, Return, Subscribe,
     InternKey, JoinGroup, InsertRoute, SetFlag, Register, IndexByConnection, CountSubscription,
     Unroute, CheckEmpty, ResetFlag, Unsubscribe, Unindex, LeaveGroup, Uncount, RemoveConnection,
     Purge, PurgeDone, LeaveAll, DropGroup, DropKey, LeaveAllDone
<1>5. \A d \in Conns \ {c} : pc'[d] = pc[d] /\ cur'[d] = cur[d]
  BY <1>1, <1>4
<1>6. \/ Unroute(c) /\ IsWild(cur[c])
      \/ CheckEmpty(c)
      \/ SetFlag(c)
      \/ InsertRoute(c) /\ ~ IsWild(cur[c])
      \/ \E label : label \notin {"check_empty", "reset_flag", "register"} /\ pc' = [pc EXCEPT ![c] = label]
      \/ UNCHANGED pc /\ pc[c] \notin {"check_empty", "reset_flag", "register"}
  BY DEF Session, SubscribeSteps, UnsubscribeSteps, RemoveSteps, Goto, Return, AfterUnroute,
     Subscribe, InternKey, JoinGroup, InsertRoute, SetFlag, Register, IndexByConnection,
     CountSubscription, Unroute, CheckEmpty, ResetFlag, Unsubscribe, Unindex, LeaveGroup, Uncount,
     RemoveConnection, Purge, PurgeDone, LeaveAll, DropGroup, DropKey, LeaveAllDone
<1>7. pc'[c] \in {"check_empty", "reset_flag"} => IsWild(cur[c]) /\ cur' = cur /\ pc[c] \in HoldsRemoved
  BY <1>1, <1>6 DEF Unroute, CheckEmpty, SetFlag, InsertRoute, Goto, HoldsRemoved, FlagHolds,
     AfterUnroute
<1>8. pc'[c] = "register" => cur' = cur /\ pc[c] \in Subscribing /\ (IsWild(cur[c]) => SetFlag(c))
  BY <1>1, <1>6 DEF Unroute, CheckEmpty, SetFlag, InsertRoute, Goto, Subscribing, AfterUnroute
<1>9. ASSUME NEW d \in Conns, pc'[d] \in {"check_empty", "reset_flag"} PROVE IsWild(cur[d])'
  <2>1. IsWild(cur[d]) /\ cur'[d] = cur[d] /\ pc[d] \in HoldsRemoved
    BY <1>5, <1>7, <1>9 DEF FlagHolds, HoldsRemoved
  <2> QED
    BY <1>2, <1>3, <2>1, <1>a DEF IsWild
<1>10. ASSUME WildsStay' PROVE ~ ResetFlag(c)
  <2>1. WildsStay
    BY <1>10, <1>c
  <2>2. pc[c] = "reset_flag" => IsWild(cur[c]) /\ cur[c] \in acked \ subscriptions
    BY DEF IInv, Sessions, Remover, HoldsRemoved, FlagHolds
  <2> QED
    BY <2>1, <2>2 DEF WildsStay, ResetFlag
<1>11. ASSUME WildsStay', has_wildcards PROVE has_wildcards'
  BY <1>10, <1>11, SessionFrame DEF SetFlag
<1>12. ASSUME WildsStay', NEW s \in subscriptions', IsWild(s)' PROVE has_wildcards'
  <2>1. WildsStay
    BY <1>12, <1>c
  <2>2. CASE s \in subscriptions
    BY <1>2, <1>11, <1>12, <2>1, <2>2, <1>b, <1>a DEF FlagHolds
  <2>3. CASE Register(c) /\ s = cur[c]
    BY <1>2, <1>3, <1>11, <1>12, <2>1, <2>3, <1>a DEF FlagHolds, Register, Subscribing
  <2> QED
    BY <1>12, <2>2, <2>3, SessionFrame DEF Register
<1>13. ASSUME WildsStay', NEW d \in Conns, pc'[d] = "register", IsWild(cur[d])' PROVE has_wildcards'
  <2>1. WildsStay
    BY <1>13, <1>c
  <2>2. cur'[d] = cur[d] /\ pc[d] \in Subscribing
    BY <1>5, <1>8, <1>13 DEF Subscribing
  <2>3. IsWild(cur[d])
    BY <1>2, <1>3, <1>13, <2>2, <1>a DEF IsWild
  <2> QED
    BY <1>5, <1>8, <1>11, <1>13, <2>1, <2>2, <2>3 DEF FlagHolds, SetFlag
<1> QED
  BY <1>9, <1>12, <1>13 DEF FlagHolds

\* What a session does keeps the whole invariant of the tables.
LEMMA SessionTableInv ==
    ASSUME TableInv, NEW c \in Conns, Session(c)
    PROVE  TableInv' /\ Relies
BY SessionIInv, SessionRelies, SessionJoins, SessionFlags DEF TableInv

\* How many elements of a set are before one of them, by their numbers f
Rank(M, f, s) == Cardinality({t \in M : f[t] < f[s]})

\* The numbers of the elements before each element of a finite set run from zero to its size:
\* some element has each of them.
LEMMA RankExists ==
    ASSUME NEW M, IsFiniteSet(M), NEW f, \A s \in M : f[s] \in Nat,
           \A s, t \in M : f[s] = f[t] => s = t, NEW i \in 0..(Cardinality(M) - 1)
    PROVE  \E s \in M : Rank(M, f, s) = i
<1> DEFINE Below(s) == {t \in M : f[t] < f[s]}
           n == Cardinality(M)
           rank == [s \in M |-> Cardinality(Below(s))]
<1>1. n \in Nat
  BY FS_CardinalityType
<1>2. ASSUME NEW s \in M
      PROVE  /\ IsFiniteSet(Below(s))
             /\ Cardinality(Below(s)) \in Nat
             /\ Cardinality(Below(s)) <= n - 1
  <2>1. Below(s) \in SUBSET (M \ {s})
    BY SMT
  <2>2. IsFiniteSet(M \ {s}) /\ Cardinality(M \ {s}) = n - 1
    BY FS_RemoveElement, SMT
  <2> QED
    BY <2>1, <2>2, FS_Subset, FS_CardinalityType, SMT
<1>3. ASSUME NEW s \in M, NEW t \in M, f[s] < f[t]
      PROVE  Cardinality(Below(s)) # Cardinality(Below(t))
  <2>1. Below(s) \in SUBSET Below(t)
    BY <1>3, SMT
  <2>2. s \in Below(t) /\ s \notin Below(s)
    BY <1>3, SMT
  <2> QED
    BY <1>2, <2>1, <2>2, FS_Subset
<1>4. rank \in Injection(M, 0..(n - 1))
  <2>1. rank \in [M -> 0..(n - 1)]
    BY <1>1, <1>2, SMT
  <2>2. ASSUME NEW s \in M, NEW t \in M, rank[s] = rank[t] PROVE s = t
    <3>1. ~ (f[s] < f[t]) /\ ~ (f[t] < f[s])
      BY <1>3, <2>2
    <3>2. f[s] = f[t]
      BY <3>1, SMT
    <3> QED
      BY <3>2
  <2> QED
    BY <2>1, <2>2 DEF Injection, IsInjective
<1>5. IsFiniteSet(0..(n - 1)) /\ Cardinality(0..(n - 1)) = n
  BY <1>1, FS_Interval, SMT
<1>6. rank \in Surjection(M, 0..(n - 1))
  BY <1>4, <1>5, FS_Injection
<1>7. PICK s \in M : rank[s] = i
  BY <1>6 DEF Surjection
<1> QED
  BY <1>7 DEF Rank

=============================================================================

------------------------------ MODULE BrokerCore ------------------------------
(***************************************************************************)
(* Publishing through the broker while sessions subscribe, unsubscribe and *)
(* disconnect: the session's PUB path (handler.rs) and                     *)
(* BrokerCore::publish_batch over the tables of SubscriptionTable.         *)
(*                                                                         *)
(* A publisher is a session that only publishes.  Each of its steps is one *)
(* read or write of shared state, as in SubscriptionTable; the local       *)
(* computation that follows is part of the step.                           *)
(*                                                                         *)
(* Whether try_send on the bounded outbound channel of a subscriber        *)
(* succeeds depends on its write task, on the other frames queued there    *)
(* and on whether the receiver is gone, so each call may do either.        *)
(***************************************************************************)
EXTENDS SubscriptionTable, Sequences

CONSTANTS
    Publishers,
    Match,      \* the wildcard pattern and subject pairs that match
    MaxMsgs,    \* bound: messages published in all
    BatchSizes  \* how many PUB frames a batch may hold (up to PUB_BATCH_LIMIT)

ASSUME CoreAssumption ==
    /\ Match \subseteq Wilds \X Subjects
    /\ MaxMsgs \in Nat /\ BatchSizes \subseteq 1..128

Msgs == 1..MaxMsgs

VARIABLES
    subject,        \* history: the subjects of the messages published so far
    ppc,            \* where a publisher is
    items,          \* publish_batch: the messages of the batch
    item,           \* publish_batch: the item its routing loop is at
    last_sub_ids,   \* publish_batch: the match result of the last subject
    visit,          \* publish_batch: the matches of the item still to be routed
    sub_cache,      \* publish_batch: the ids it has looked up
    pending,        \* publish_batch: the fan-out deliveries collected for an id
    chosen,         \* the id whose delivery handle the publisher holds
    log,            \* the messages accepted by the outbound channel, for a subscription
    dropped,        \* the deliveries try_send refused (messages_dropped)
    expected,       \* history: the ids acknowledged and registered when the batch began
    gone            \* history: the ids that had left the registry when it began

batchVars == <<items, item, last_sub_ids, visit, sub_cache, pending, chosen>>
outcome == <<log, dropped>>
history == <<subject, expected, gone>>
pubVars == <<ppc, batchVars, outcome, history>>
coreVars == <<tableVars, pubVars>>

Matches(s, subj) == sub[s].pattern = subj \/ <<sub[s].pattern, subj>> \in Match

PPC == {"idle", "no_subs", "batch", "single", "single_ref", "next", "match", "match_flag",
        "match_trie", "route", "regroup", "pick", "member", "offer", "flush", "send", "done"}

PubTypeOK ==
    /\ subject \in Seq(Subjects) /\ Len(subject) <= MaxMsgs
    /\ ppc \in [Publishers -> PPC]
    /\ items \in [Publishers -> Seq(Msgs)]
    /\ item \in [Publishers -> Nat]
    /\ last_sub_ids \in [Publishers -> SUBSET SubIds]
    /\ visit \in [Publishers -> SUBSET SubIds]
    /\ sub_cache \in [Publishers -> SUBSET SubIds]
    /\ pending \in [Publishers -> [SubIds -> Seq(Msgs)]]
    /\ chosen \in [Publishers -> 0..MaxSubs]
    /\ log \in [SubIds -> Seq(Msgs)]
    /\ dropped \subseteq SubIds \X Msgs
    /\ expected \in [Publishers -> SUBSET SubIds]
    /\ gone \in [Publishers -> SUBSET SubIds]

NoPending == [s \in SubIds |-> <<>>]

PubInit ==
    /\ subject = <<>>
    /\ ppc = [p \in Publishers |-> "idle"]
    /\ items = [p \in Publishers |-> <<>>]
    /\ item = [p \in Publishers |-> 0]
    /\ last_sub_ids = [p \in Publishers |-> {}]
    /\ visit = [p \in Publishers |-> {}]
    /\ sub_cache = [p \in Publishers |-> {}]
    /\ pending = [p \in Publishers |-> NoPending]
    /\ chosen = [p \in Publishers |-> 0]
    /\ log = [s \in SubIds |-> <<>>]
    /\ dropped = {}
    /\ expected = [p \in Publishers |-> {}]
    /\ gone = [p \in Publishers |-> {}]

PGoto(p, label) == ppc' = [ppc EXCEPT ![p] = label]

SubjectAt(p, i) == subject[items[p][i]]

-----------------------------------------------------------------------------
(* dispatch_publish_batch_from_read_buf: PUB frames arrive in one read *)

\* broker.has_active_subscriptions() on the batch of PUBs just read.  The counter is
\* an unsigned integer: not zero is greater than zero.
Publish(p, subjects) ==
    /\ ppc[p] = "idle"
    /\ Len(subject) + Len(subjects) <= MaxMsgs
    /\ subject' = subject \o subjects
    /\ items' = [items EXCEPT ![p] = [i \in DOMAIN subjects |-> Len(subject) + i]]
    /\ expected' = [expected EXCEPT ![p] = Live]
    /\ gone' = [gone EXCEPT ![p] = acked \ subscriptions]
    /\ PGoto(p, IF active_subscriptions # 0 THEN "batch" ELSE "no_subs")
    /\ UNCHANGED <<tableVars, item, last_sub_ids, visit, sub_cache, pending, chosen, outcome>>

\* && !broker.router_has_wildcards(): drain_publish_batch_without_subscribers skips the frames
ReadFlag(p) ==
    /\ ppc[p] = "no_subs"
    /\ PGoto(p, IF has_wildcards THEN "batch" ELSE "done")
    /\ UNCHANGED <<tableVars, batchVars, outcome, history>>

-----------------------------------------------------------------------------
(* BrokerCore::publish_batch, the fast path for a single plain subscriber *)

\* Mutant: the fast path is tried although wildcards exist
FastFlag_Ignored(p) ==
    /\ ppc[p] = "batch"
    /\ item' = [item EXCEPT ![p] = 1]
    /\ PGoto(p, "single")
    /\ UNCHANGED <<tableVars, items, last_sub_ids, visit, sub_cache, pending, chosen, outcome, history>>

FastFlag(p) ==
    /\ ppc[p] = "batch"
    /\ item' = [item EXCEPT ![p] = 1]
    /\ PGoto(p, IF has_wildcards THEN "next" ELSE "single")
    /\ UNCHANGED <<tableVars, items, last_sub_ids, visit, sub_cache, pending, chosen, outcome, history>>

ExactIds(subj) == {s \in exact : sub[s].pattern = subj}

\* router_exact_single_subscriber(&items[0].subject)
ExactSingleSubscriber(p) ==
    /\ ppc[p] = "single"
    /\ \/ \E s \in ExactIds(SubjectAt(p, 1)) :
            /\ ExactIds(SubjectAt(p, 1)) = {s}
            /\ chosen' = [chosen EXCEPT ![p] = s]
            /\ PGoto(p, "single_ref")
       \/ /\ Cardinality(ExactIds(SubjectAt(p, 1))) # 1
          /\ PGoto(p, "next")
          /\ UNCHANGED chosen
    /\ UNCHANGED <<tableVars, items, item, last_sub_ids, visit, sub_cache, pending, outcome, history>>

\* Mutant: the batch is handed over without looking at its other subjects
FastRef_FirstSubjectOnly(p) ==
    LET s == chosen[p]
        applies == s \in subscriptions /\ ~ Grouped(s)
    IN  /\ ppc[p] = "single_ref"
        /\ pending' = [pending EXCEPT ![p] = IF applies THEN [@ EXCEPT ![s] = items[p]] ELSE @]
        /\ PGoto(p, IF applies THEN "send" ELSE "next")
        /\ UNCHANGED <<tableVars, items, item, last_sub_ids, visit, sub_cache, chosen, outcome, history>>

\* Mutant: the handle is taken from the route without asking the registry
FastRef_Unregistered(p) ==
    LET s == chosen[p]
        applies == /\ ~ Grouped(s)
                   /\ \A i \in DOMAIN items[p] : SubjectAt(p, i) = SubjectAt(p, 1)
    IN  /\ ppc[p] = "single_ref"
        /\ pending' = [pending EXCEPT ![p] = IF applies THEN [@ EXCEPT ![s] = items[p]] ELSE @]
        /\ PGoto(p, IF applies THEN "send" ELSE "next")
        /\ UNCHANGED <<tableVars, items, item, last_sub_ids, visit, sub_cache, chosen, outcome, history>>

\* registry.get_ref(sub_id): the handle is cloned, the guard dropped, the batch handed over
FastRef(p) ==
    LET s == chosen[p]
        applies == /\ s \in subscriptions
                   /\ ~ Grouped(s)
                   /\ \A i \in DOMAIN items[p] : SubjectAt(p, i) = SubjectAt(p, 1)
    IN  /\ ppc[p] = "single_ref"
        /\ pending' = [pending EXCEPT ![p] = IF applies THEN [@ EXCEPT ![s] = items[p]] ELSE @]
        /\ PGoto(p, IF applies THEN "send" ELSE "next")
        /\ UNCHANGED <<tableVars, items, item, last_sub_ids, visit, sub_cache, chosen, outcome, history>>

-----------------------------------------------------------------------------
(* publish_batch, stage 1: route every item *)

\* Mutant: the cached match result is used for any subject
NextItem_AlwaysCached(p) ==
    LET i == item[p]
    IN  /\ ppc[p] = "next"
        /\ PGoto(p, IF i > Len(items[p]) THEN "flush" ELSE IF i > 1 THEN "route" ELSE "match")
        /\ visit' = [visit EXCEPT ![p] = IF i <= Len(items[p]) /\ i > 1 THEN last_sub_ids[p] ELSE {}]
        /\ UNCHANGED <<tableVars, items, item, last_sub_ids, sub_cache, pending, chosen, outcome, history>>

\* The loop over the items: the match result of the last subject is used again.  The
\* caches are not used after the loop.
NextItem(p) ==
    LET i == item[p]
        cached == i > 1 /\ SubjectAt(p, i) = SubjectAt(p, i - 1)
    IN  /\ ppc[p] = "next"
        /\ PGoto(p, IF i > Len(items[p]) THEN "flush" ELSE IF cached THEN "route" ELSE "match")
        /\ visit' = [visit EXCEPT ![p] = IF i <= Len(items[p]) /\ cached THEN last_sub_ids[p] ELSE {}]
        /\ last_sub_ids' = [last_sub_ids EXCEPT ![p] = IF i > Len(items[p]) THEN {} ELSE @]
        /\ sub_cache' = [sub_cache EXCEPT ![p] = IF i > Len(items[p]) THEN {} ELSE @]
        /\ UNCHANGED <<tableVars, items, item, pending, chosen, outcome, history>>

\* RoutingEngine::match_subject: the list of the literal pattern
MatchExact(p) ==
    LET ids == ExactIds(SubjectAt(p, item[p]))
    IN  /\ ppc[p] = "match"
        /\ last_sub_ids' = [last_sub_ids EXCEPT ![p] = ids]
        /\ visit' = [visit EXCEPT ![p] = ids]
        /\ PGoto(p, "match_flag")
        /\ UNCHANGED <<tableVars, items, item, sub_cache, pending, chosen, outcome, history>>

\* if self.has_wildcards.load(..)
MatchFlag(p) ==
    /\ ppc[p] = "match_flag"
    /\ PGoto(p, IF has_wildcards THEN "match_trie" ELSE "route")
    /\ UNCHANGED <<tableVars, batchVars, outcome, history>>

\* self.wildcard_trie.read().match_subject(subject)
MatchTrie(p) ==
    LET ids == last_sub_ids[p] \cup {s \in wildcard_trie : Matches(s, SubjectAt(p, item[p]))}
    IN  /\ ppc[p] = "match_trie"
        /\ last_sub_ids' = [last_sub_ids EXCEPT ![p] = ids]
        /\ visit' = [visit EXCEPT ![p] = ids]
        /\ PGoto(p, "route")
        /\ UNCHANGED <<tableVars, items, item, sub_cache, pending, chosen, outcome, history>>

\* Mutant: the newest message is put in front of the collected ones
Route_Reversed(p, s) ==
    LET known == s \in sub_cache[p] \/ s \in subscriptions
    IN  /\ ppc[p] = "route"
        /\ s \in visit[p]
        /\ visit' = [visit EXCEPT ![p] = @ \ {s}]
        /\ sub_cache' = [sub_cache EXCEPT ![p] = IF known THEN @ \cup {s} ELSE @]
        /\ IF known /\ Grouped(s)
           THEN /\ chosen' = [chosen EXCEPT ![p] = s]
                /\ PGoto(p, "regroup")
                /\ UNCHANGED pending
           ELSE /\ pending' = [pending EXCEPT ![p][s] =
                                  IF known THEN <<items[p][item[p]]>> \o @ ELSE @]
                /\ UNCHANGED <<ppc, chosen>>
        /\ UNCHANGED <<tableVars, items, item, last_sub_ids, outcome, history>>

\* for sub_id in sub_ids: what the cache or registry.get_ref says of it.  The order of a
\* match result is not modelled.
Route(p, s) ==
    LET known == s \in sub_cache[p] \/ s \in subscriptions
    IN  /\ ppc[p] = "route"
        /\ s \in visit[p]
        /\ visit' = [visit EXCEPT ![p] = @ \ {s}]
        /\ sub_cache' = [sub_cache EXCEPT ![p] = IF known THEN @ \cup {s} ELSE @]
        /\ IF known /\ Grouped(s)
           THEN /\ chosen' = [chosen EXCEPT ![p] = s]
                /\ PGoto(p, "regroup")
                /\ UNCHANGED pending
           ELSE /\ pending' = [pending EXCEPT ![p][s] =
                                  IF known THEN Append(@, items[p][item[p]]) ELSE @]
                /\ UNCHANGED <<ppc, chosen>>
        /\ UNCHANGED <<tableVars, items, item, last_sub_ids, outcome, history>>

RouteDone(p) ==
    /\ ppc[p] = "route"
    /\ visit[p] = {}
    /\ item' = [item EXCEPT ![p] = @ + 1]
    /\ PGoto(p, "next")
    /\ UNCHANGED <<tableVars, items, last_sub_ids, visit, sub_cache, pending, chosen, outcome, history>>

-----------------------------------------------------------------------------
(* deliver_matches(message, [sub_id]) for a member of a queue group *)

\* deliver_matches: registry.get_ref(sub_id) yields its key, or the id is skipped
Regroup(p) ==
    /\ ppc[p] = "regroup"
    /\ PGoto(p, IF chosen[p] \in subscriptions THEN "pick" ELSE "route")
    /\ UNCHANGED <<tableVars, batchVars, outcome, history>>

\* The element of the Vec `members' at an index
MemberAt(k, i) ==
    CHOOSE s \in members[k] : Cardinality({t \in members[k] : joined[t] < joined[s]}) = i

\* Mutant: a group of one is taken for an empty one
Pick_OffByOne(p) ==
    LET k == KeyOf(chosen[p])
        n == Cardinality(members[k])
    IN  /\ ppc[p] = "pick"
        /\ IF n <= 1
           THEN /\ PGoto(p, "route")
                /\ UNCHANGED <<current_index, chosen>>
           ELSE /\ current_index' = [current_index EXCEPT ![k] = @ + 1]
                /\ chosen' = [chosen EXCEPT ![p] = MemberAt(k, current_index[k] % n)]
                /\ PGoto(p, "member")
        /\ UNCHANGED <<drawn, registry, routes, queue_group_keys, queue_groups, members, joined,
                       active_subscriptions, acked, locals, items, item, last_sub_ids, visit,
                       sub_cache, pending, outcome, history>>

\* deliver_queue_group: round robin over the members of the group's state
Pick(p) ==
    LET k == KeyOf(chosen[p])
        n == Cardinality(members[k])
    IN  /\ ppc[p] = "pick"
        /\ IF n = 0
           THEN /\ PGoto(p, "route")
                /\ UNCHANGED <<current_index, chosen>>
           ELSE /\ current_index' = [current_index EXCEPT ![k] = @ + 1]
                /\ chosen' = [chosen EXCEPT ![p] = MemberAt(k, current_index[k] % n)]
                /\ PGoto(p, "member")
        /\ UNCHANGED <<drawn, registry, routes, queue_group_keys, queue_groups, members, joined,
                       active_subscriptions, acked, locals, items, item, last_sub_ids, visit,
                       sub_cache, pending, outcome, history>>

\* deliver_to_subscriber: registry.get_ref(chosen_id), or the message is lost without a count
Member(p) ==
    /\ ppc[p] = "member"
    /\ PGoto(p, IF chosen[p] \in subscriptions THEN "offer" ELSE "route")
    /\ UNCHANGED <<tableVars, batchVars, outcome, history>>

\* ChannelDelivery::deliver and handle_delivery_status
Offer(p) ==
    LET s == chosen[p]
        m == items[p][item[p]]
    IN  /\ ppc[p] = "offer"
        /\ \/ log' = [log EXCEPT ![s] = Append(@, m)] /\ UNCHANGED dropped
           \/ dropped' = dropped \cup {<<s, m>>} /\ UNCHANGED log
        /\ PGoto(p, "route")
        /\ UNCHANGED <<tableVars, batchVars, history>>

-----------------------------------------------------------------------------
(* publish_batch, stage 2: hand the collected messages over, id by id *)

\* for (sub_id, msgs) in pending: registry.get_ref(sub_id), in the order of the HashMap
Flush(p, s) ==
    /\ ppc[p] = "flush"
    /\ pending[p][s] # <<>>
    /\ IF s \in subscriptions
       THEN /\ chosen' = [chosen EXCEPT ![p] = s]
            /\ PGoto(p, "send")
            /\ UNCHANGED pending
       ELSE /\ pending' = [pending EXCEPT ![p][s] = <<>>]
            /\ UNCHANGED <<ppc, chosen>>
    /\ UNCHANGED <<tableVars, items, item, last_sub_ids, visit, sub_cache, outcome, history>>

\* deliver_batch: one try_send for each message, up to the first that is refused
Send(p) ==
    LET s == chosen[p]
        msgs == pending[p][s]
    IN  /\ ppc[p] = "send"
        /\ \/ /\ log' = [log EXCEPT ![s] = Append(@, Head(msgs))]
              /\ pending' = [pending EXCEPT ![p][s] = Tail(msgs)]
              /\ PGoto(p, IF Tail(msgs) = <<>> THEN "flush" ELSE "send")
              /\ UNCHANGED dropped
           \/ /\ dropped' = dropped \cup {<<s, msgs[i]>> : i \in DOMAIN msgs}
              /\ pending' = [pending EXCEPT ![p][s] = <<>>]
              /\ PGoto(p, "flush")
              /\ UNCHANGED log
        /\ UNCHANGED <<tableVars, items, item, last_sub_ids, visit, sub_cache, chosen, history>>

FlushDone(p) ==
    /\ ppc[p] = "flush"
    /\ pending[p] = NoPending
    /\ PGoto(p, "done")
    /\ UNCHANGED <<tableVars, batchVars, outcome, history>>

\* The call has returned: its local variables are gone.
PublishReturn(p) ==
    /\ ppc[p] = "done"
    /\ PGoto(p, "idle")
    /\ items' = [items EXCEPT ![p] = <<>>]
    /\ item' = [item EXCEPT ![p] = 0]
    /\ chosen' = [chosen EXCEPT ![p] = 0]
    /\ expected' = [expected EXCEPT ![p] = {}]
    /\ gone' = [gone EXCEPT ![p] = {}]
    /\ UNCHANGED <<tableVars, last_sub_ids, visit, sub_cache, pending, outcome, subject>>

-----------------------------------------------------------------------------
PublishSteps(p) ==
    \/ \E n \in BatchSizes : \E subjects \in [1..n -> Subjects] : Publish(p, subjects)
    \/ ReadFlag(p) \/ FastFlag(p) \/ ExactSingleSubscriber(p) \/ FastRef(p)
    \/ NextItem(p) \/ MatchExact(p) \/ MatchFlag(p) \/ MatchTrie(p)
    \/ (\E s \in SubIds : Route(p, s)) \/ RouteDone(p)
    \/ Regroup(p) \/ Pick(p) \/ Member(p) \/ Offer(p)
    \/ (\E s \in SubIds : Flush(p, s)) \/ Send(p) \/ FlushDone(p) \/ PublishReturn(p)

CoreInit == Init /\ PubInit

CoreNext ==
    \/ \E c \in Conns : Session(c) /\ UNCHANGED pubVars
    \/ \E p \in Publishers : PublishSteps(p)

CoreSpec == CoreInit /\ [][CoreNext]_coreVars

-----------------------------------------------------------------------------
(* What publishing promises *)

\* The messages of a batch whose publish call is about to return and whose subject a
\* subscription matches
Due(p, s) == {m \in {items[p][i] : i \in DOMAIN items[p]} : Matches(s, subject[m])}

Settled(s, m) == <<s, m>> \in dropped \/ \E i \in DOMAIN log[s] : log[s][i] = m

\* A plain subscription to a literal subject that was acknowledged before the batch was
\* read and is still registered when publish_batch returns has been offered every message
\* of the batch on its subject: its channel took it, or it was counted as dropped.
\* Whatever the other sessions did meanwhile, neither the no-subscriber drain, nor the
\* single-subscriber fast path, nor the cached match result or the two registry lookups
\* of the batch path loses it silently.
NothingLost ==
    \A p \in Publishers : ppc[p] = "done" =>
        \A s \in expected[p] \cap subscriptions :
            ~ Grouped(s) /\ ~ IsWild(s) => \A m \in Due(p, s) : Settled(s, m)

\* The same for a wildcard subscription, while no wildcard subscription has ever been
\* removed: the has_wildcards flag is then never lowered (FlagIsConservative says what
\* happens otherwise).
NothingLostOnWildcard ==
    \A p \in Publishers : ppc[p] = "done" /\ (\A t \in acked : IsWild(t) => t \in subscriptions) =>
        \A s \in expected[p] :
            ~ Grouped(s) /\ IsWild(s) => \A m \in Due(p, s) : Settled(s, m)

\* A message only reaches subscriptions whose pattern matches its subject, the member a
\* queue group's round robin picks from its own list included.
OnlyMatching ==
    \A s \in SubIds : \A i \in DOMAIN log[s] : Matches(s, subject[log[s][i]])

\* A subscription gets the messages of one publisher in the order they were published,
\* and a plain one gets each message at most once.  With one publisher message numbers
\* are that order.
InOrder ==
    \A s \in SubIds : \A i, j \in DOMAIN log[s] :
        i < j => IF Grouped(s) THEN log[s][i] <= log[s][j] ELSE log[s][i] < log[s][j]

\* A batch that is read after a subscription left the registry never reaches it: late
\* deliveries come only from publishes already under way at the UNSUB or the disconnect.
NoDeliveryAfterRemoval ==
    \A p \in Publishers : \A s \in gone[p] : \A i \in DOMAIN items[p] :
        ~ Settled(s, items[p][i])

\* The subscriptions of a queue group a subject reaches, among the ids of a set
GroupOf(k, ids) == {s \in ids : Grouped(s) /\ KeyOf(s) = k}

\* A queue group nobody joins or leaves is served: every message of a batch on its
\* subject is offered to one of its members.
StableGroupServed ==
    \A p \in Publishers, k \in Keys : ppc[p] = "done" =>
        LET group == GroupOf(k, 1..(sub_id_gen - 1))
        IN  group # {} /\ k[1] \in Subjects /\ group \subseteq expected[p] \cap subscriptions =>
                \A m \in {items[p][i] : i \in DOMAIN items[p]} :
                    subject[m] = k[1] => \E s \in group : Settled(s, m)

-----------------------------------------------------------------------------
(* What the documentation says of queue groups *)

\* docs/architecture.md: for subscriptions of one queue group only one member receives
\* each message.  publish_batch delivers to the group once for every member it matched.
OneMemberPerMessage ==
    \A k \in Keys : \A m \in DOMAIN subject :
        Cardinality({d \in UNION {{s} \X DOMAIN log[s] : s \in SubIds} :
            log[d[1]][d[2]] = m /\ Grouped(d[1]) /\ KeyOf(d[1]) = k}) <= 1

\* The other half of that sentence: some member receives it.  While a member of the group is
\* registered from before the batch is read until publish_batch has returned, a message on
\* its subject is offered to one of the members.
SomeMemberPerMessage ==
    \A p \in Publishers, k \in Keys :
        /\ ppc[p] = "done"
        /\ GroupOf(k, expected[p] \cap subscriptions) # {}
        /\ k[1] \in Subjects
        =>
            \A m \in {items[p][i] : i \in DOMAIN items[p]} :
                subject[m] = k[1] => \E s \in GroupOf(k, 1..(sub_id_gen - 1)) : Settled(s, m)

===============================================================================

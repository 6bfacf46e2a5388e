---------------------------- MODULE BrokerCore_inv ----------------------------
(***************************************************************************)
(* The inductive invariant of BrokerCore: what a publisher knows at each   *)
(* step of publish_batch, while sessions subscribe, unsubscribe and        *)
(* disconnect between any two of them.                                     *)
(***************************************************************************)
EXTENDS BrokerCore, SubscriptionTable_inv

Elems(q) == {q[i] : i \in DOMAIN q}

\* The messages of a publisher's batch, and those it has collected for a subscription
Batch(p) == Elems(items[p])
Collected(p, s) == Elems(pending[p][s])

-----------------------------------------------------------------------------
(* What a publisher keeps *)

\* Before the routing loop, in the loop with a match result, and with an item of the batch
Before == {"idle", "no_subs", "batch", "single", "single_ref"}
Grouping == {"regroup", "pick", "member", "offer"}
Routing == {"route"} \cup Grouping
Matching == {"match_flag", "match_trie"}
AtItem == {"match"} \cup Matching \cup Routing
Looping == {"next"} \cup AtItem

\* Where publish_batch stands, and what its local variables hold there.
Stage(p) ==
    /\ ppc[p] = "idle" <=> items[p] = <<>>
    /\ ppc[p] \in {"single", "single_ref"} => item[p] = 1
    /\ ppc[p] = "next" => item[p] \in 1..(Len(items[p]) + 1)
    /\ ppc[p] \in AtItem => item[p] \in 1..Len(items[p])
    /\ ppc[p] \in Before \cup {"done"} => pending[p] = NoPending
    /\ ppc[p] \notin Looping => last_sub_ids[p] = {} /\ sub_cache[p] = {}
    /\ ppc[p] = "next" /\ item[p] = 1 => last_sub_ids[p] = {}
    /\ ppc[p] \notin Matching \cup Routing => visit[p] = {}
    /\ ppc[p] \in Matching => visit[p] = last_sub_ids[p]
    /\ ppc[p] \in Routing => visit[p] \subseteq last_sub_ids[p]

\* The handle a publisher holds belongs to a subscription the message is meant for.
Holding(p) ==
    /\ ppc[p] = "single_ref" => chosen[p] \in Ids /\ sub[chosen[p]].pattern = SubjectAt(p, 1)
    /\ ppc[p] \in Grouping => /\ chosen[p] \in Ids /\ Grouped(chosen[p])
                              /\ Matches(chosen[p], SubjectAt(p, item[p]))
    /\ ppc[p] = "send" => chosen[p] \in SubIds /\ pending[p][chosen[p]] # <<>>

\* Match results and collected messages match.
Sound(p) ==
    /\ last_sub_ids[p] \subseteq Ids
    /\ \A s \in SubIds : \A m \in Collected(p, s) :
          s \in Ids /\ ~ Grouped(s) /\ m \in Batch(p) /\ Matches(s, subject[m])
    /\ ppc[p] \in Matching \cup Routing => \A s \in last_sub_ids[p] : Matches(s, SubjectAt(p, item[p]))
    /\ ppc[p] = "next" /\ item[p] > 1 => \A s \in last_sub_ids[p] : Matches(s, SubjectAt(p, item[p] - 1))

\* What had left the registry when the batch was read is never looked up, collected or held.
Silent(p) ==
    /\ gone[p] \subseteq acked \ subscriptions
    /\ \A s \in gone[p] : s \notin sub_cache[p] /\ pending[p][s] = <<>>
    /\ ppc[p] = "offer" => chosen[p] \notin gone[p]

\* A plain subscription that was acknowledged when the batch was read and is still
\* registered; a wildcard one, while no wildcard subscription has been removed
Owed(p) == {s \in expected[p] \cap subscriptions : ~ Grouped(s) /\ (IsWild(s) => WildsStay)}

\* What the batch still owes such a subscription is collected for it, or yet to be routed,
\* or settled.
Served(p) ==
    /\ expected[p] \subseteq acked
    /\ ppc[p] = "no_subs" => expected[p] = {}
    /\ \A s \in Owed(p) :
          /\ ppc[p] \in {"single", "single_ref"} => ~ IsWild(s)
          /\ ppc[p] = "single_ref" /\ sub[s].pattern = SubjectAt(p, 1) => chosen[p] = s
          /\ ppc[p] \in Looping => \A j \in 1..(item[p] - 1) :
                Matches(s, SubjectAt(p, j)) => items[p][j] \in Collected(p, s)
          /\ ppc[p] \in Matching /\ ~ IsWild(s) /\ Matches(s, SubjectAt(p, item[p])) => s \in visit[p]
          /\ ppc[p] \in Routing /\ Matches(s, SubjectAt(p, item[p])) =>
                /\ s \in last_sub_ids[p]
                /\ s \in visit[p] \/ items[p][item[p]] \in Collected(p, s)
          /\ ppc[p] = "next" /\ item[p] > 1 /\ Matches(s, SubjectAt(p, item[p] - 1)) =>
                s \in last_sub_ids[p]
          /\ ppc[p] \in {"flush", "send", "done"} => \A m \in Due(p, s) :
                m \in Collected(p, s) \/ Settled(s, m)

\* With one publisher nothing interferes with the order of its batches.
OnePublisher == \A p, q \in Publishers : p = q

Sorted(q) == \A i, j \in DOMAIN q : i < j => q[i] < q[j]

\* What is collected for a subscription is older than the items still to be routed to it.
ToCome(p, s) ==
    ppc[p] \in Looping => \A j \in DOMAIN items[p] : j >= item[p] => \A m \in Collected(p, s) :
        m < items[p][j] \/ (m = items[p][j] /\ ppc[p] \in Routing /\ s \notin visit[p])

\* What its channel has taken is older than what is collected, and than the items still to be
\* routed; a group may give one member an item again.
Older(p, s) ==
    \A m \in Elems(log[s]) :
        /\ \A n \in Collected(p, s) : m < n
        /\ ppc[p] \in (Before \cup Looping) \ {"idle"} => \A j \in DOMAIN items[p] :
              IF Grouped(s) /\ ppc[p] \in Looping THEN j >= item[p] => m <= items[p][j]
              ELSE m < items[p][j]

\* The batch is numbered upwards and so is what is collected of it.
Ordered(p) ==
    /\ Sorted(items[p])
    /\ \A s \in SubIds : Sorted(pending[p][s]) /\ ToCome(p, s) /\ Older(p, s)

-----------------------------------------------------------------------------
(* What all of them keep *)

\* Messages are numbered as they are published, and no two batches hold the same one.
Published ==
    /\ \A p \in Publishers : Batch(p) \subseteq 1..Len(subject)
    /\ \A p, q \in Publishers : p # q => Batch(p) \cap Batch(q) = {}
    /\ \A s \in SubIds : \A m \in Elems(log[s]) : s \in Ids /\ m \in 1..Len(subject)
    /\ \A d \in dropped : d[2] \in 1..Len(subject)

Publisher(p) == Stage(p) /\ Holding(p) /\ Sound(p) /\ Silent(p) /\ Served(p)

PubInv ==
    /\ PubTypeOK
    /\ Published
    /\ \A p \in Publishers : Publisher(p)
    /\ OnlyMatching
    /\ NoDeliveryAfterRemoval

CoreInv == TableInv /\ PubInv

-----------------------------------------------------------------------------
(* What a queue group nobody joins or leaves is given *)

\* Nobody has left the group of a key.
GroupStays(k) == \A t \in acked : Grouped(t) /\ KeyOf(t) = k => t \in subscriptions

\* Only a removal takes anyone off the list of a group, whoever else it drops: while nobody
\* has left, who is registered, or about to be, is on the list.
GroupsHold ==
    \A k \in Keys : GroupStays(k) =>
        /\ GroupOf(k, subscriptions) \subseteq members[k]
        /\ \A c \in Conns :
              pc[c] \in {"insert", "set_flag", "register"} => GroupOf(k, {cur[c]}) \subseteq members[k]

\* The group of a literal pattern, all of it acknowledged when the batch was read and still
\* registered
Stable(p, k) ==
    /\ GroupOf(k, Ids) # {}
    /\ k[1] \in Subjects
    /\ GroupOf(k, Ids) \subseteq expected[p] \cap subscriptions

\* A message has been offered to one of the group.
Offered(group, m) == \E s \in group : Settled(s, m)

\* An item on the subject of a group has been offered to one of it, or a member is yet to be
\* routed, or the delivery to one is under way.
GroupServed(p, subj, group) ==
    /\ ppc[p] = "single_ref" /\ SubjectAt(p, 1) = subj => chosen[p] \in group
    /\ ppc[p] \in Looping => \A j \in 1..(item[p] - 1) :
          SubjectAt(p, j) = subj => Offered(group, items[p][j])
    /\ ppc[p] \in Matching \cup Routing /\ SubjectAt(p, item[p]) = subj =>
          group \subseteq last_sub_ids[p]
    /\ ppc[p] \in Routing /\ SubjectAt(p, item[p]) = subj =>
          \/ group \cap visit[p] # {}
          \/ ppc[p] \in Grouping /\ chosen[p] \in group
          \/ Offered(group, items[p][item[p]])
    /\ ppc[p] = "next" /\ item[p] > 1 /\ SubjectAt(p, item[p] - 1) = subj =>
          group \subseteq last_sub_ids[p]
    /\ ppc[p] \in {"flush", "send", "done"} => \A j \in 1..Len(items[p]) :
          SubjectAt(p, j) = subj => Offered(group, items[p][j])

GroupInv ==
    /\ GroupsHold
    /\ \A p \in Publishers, k \in Keys : Stable(p, k) => GroupServed(p, k[1], GroupOf(k, Ids))

=============================================================================

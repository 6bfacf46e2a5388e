-------------------------- MODULE SubscriptionTable --------------------------
(***************************************************************************)
(* The subscription state of the broker: BrokerCore::subscribe,            *)
(* unsubscribe and remove_connection over the SubscriptionRegistry, the    *)
(* RoutingEngine and the queue groups (zetmq-core).                        *)
(*                                                                         *)
(* Nothing in the core is guarded by one lock.  Every DashMap operation,   *)
(* every trie lock and every atomic is a critical section of its own, and  *)
(* the session tasks of the connections interleave between them.  One      *)
(* action below is one such section, with the local computation up to the  *)
(* next one.  A session task runs its calls one after the other, so a      *)
(* connection has one program counter.                                     *)
(*                                                                         *)
(* A Vec of subscription ids is the set of its elements: an id is pushed   *)
(* once, by the subscribe call that drew it, and retain removes it.  The   *)
(* only Vec whose order the code reads is `members', whose elements are    *)
(* ordered by `joined', the moment of their push.                          *)
(***************************************************************************)
EXTENDS Integers, FiniteSets

CONSTANTS
    Conns,      \* connection ids; the listener never reuses one
    Subjects,   \* literal patterns, which are the subjects one can publish to
    Wilds,      \* patterns that hold a * or a >
    Groups,     \* queue group names
    NoGroup,    \* the queue_group of a plain subscription
    MaxSubs     \* bound: how many ids sub_id_gen hands out

ASSUME TableAssumption ==
    /\ MaxSubs \in Nat
    /\ Subjects \cap Wilds = {}
    /\ NoGroup \notin Groups

Patterns == Subjects \cup Wilds
SubIds == 1..MaxSubs
Keys == Patterns \X Groups      \* QueueGroupKey: (pattern, group name)

VARIABLES
    sub_id_gen,             \* IdGenerator: the next subscription id
    sub,                    \* the fields of the Subscription built for an id
    subscriptions,          \* SubscriptionRegistry.subscriptions: registered ids
    by_connection,          \* SubscriptionRegistry.by_connection
    exact,                  \* RoutingEngine.exact: ids in the lists of literal patterns
    wildcard_trie,          \* RoutingEngine.wildcard_trie: ids in the trie
    has_wildcards,          \* RoutingEngine.has_wildcards
    queue_group_keys,       \* the interned Arc of a key, named by the id that allocated it; 0 when absent
    queue_groups,           \* the keys that have a QueueGroupState
    members,                \* QueueGroupState.members of a key
    joined,                 \* when an id was pushed on `members': the order of that Vec
    current_index,          \* QueueGroupState.current_index of a key
    active_subscriptions,   \* CoreMetrics.active_subscriptions
    acked,                  \* history: ids whose subscribe call has returned (SUBACK)
    pc, cur, op, todo, removed  \* the session task of each connection

routes == <<exact, wildcard_trie, has_wildcards>>
registry == <<subscriptions, by_connection>>
groups == <<queue_group_keys, queue_groups, members, joined, current_index>>
drawn == <<sub_id_gen, sub>>
locals == <<pc, cur, op, todo, removed>>
tableVars == <<drawn, registry, routes, groups, active_subscriptions, acked, locals>>

-----------------------------------------------------------------------------
(* The fields of a Subscription.  `arc' names the Arc<QueueGroupKey> that
   subscribe interned: two subscriptions hold the same pointer iff the names
   agree. *)
Subscription ==
    [conn : Conns, pattern : Patterns, group : Groups \cup {NoGroup}, arc : 0..MaxSubs]

Unused == [arc |-> 0]       \* an id not drawn yet

IsWild(s) == sub[s].pattern \in Wilds
Grouped(s) == sub[s].group # NoGroup
KeyOf(s) == <<sub[s].pattern, sub[s].group>>

PC == {"idle", "intern", "join", "insert", "set_flag", "register", "index", "count",
       "unroute", "check_empty", "reset_flag", "unindex", "leave", "uncount",
       "purge", "leave_all", "drop_group", "drop_key", "closed"}

TypeOK ==
    /\ sub_id_gen \in 1..(MaxSubs + 1)
    /\ sub \in [SubIds -> Subscription \cup {Unused}]
    /\ \A s \in SubIds : s < sub_id_gen => sub[s] \in Subscription
    /\ subscriptions \subseteq SubIds
    /\ by_connection \in [Conns -> SUBSET SubIds]
    /\ exact \subseteq SubIds
    /\ wildcard_trie \subseteq SubIds
    /\ has_wildcards \in BOOLEAN
    /\ queue_group_keys \in [Keys -> 0..MaxSubs]
    /\ queue_groups \subseteq Keys
    /\ members \in [Keys -> SUBSET SubIds]
    /\ joined \in [SubIds -> Nat]
    /\ current_index \in [Keys -> Nat]
    /\ active_subscriptions \in Nat
    /\ acked \subseteq SubIds
    /\ pc \in [Conns -> PC]
    /\ cur \in [Conns -> 0..MaxSubs]
    /\ op \in [Conns -> {"none", "unsub", "remove"}]
    /\ todo \in [Conns -> SUBSET SubIds]
    /\ removed \in [Conns -> SUBSET SubIds]

Init ==
    /\ sub_id_gen = 1
    /\ sub = [s \in SubIds |-> Unused]
    /\ subscriptions = {}
    /\ by_connection = [c \in Conns |-> {}]
    /\ exact = {}
    /\ wildcard_trie = {}
    /\ has_wildcards = FALSE
    /\ queue_group_keys = [k \in Keys |-> 0]
    /\ queue_groups = {}
    /\ members = [k \in Keys |-> {}]
    /\ joined = [s \in SubIds |-> 0]
    /\ current_index = [k \in Keys |-> 0]
    /\ active_subscriptions = 0
    /\ acked = {}
    /\ pc = [c \in Conns |-> "idle"]
    /\ cur = [c \in Conns |-> 0]
    /\ op = [c \in Conns |-> "none"]
    /\ todo = [c \in Conns |-> {}]
    /\ removed = [c \in Conns |-> {}]

Goto(c, label) == pc' = [pc EXCEPT ![c] = label]

\* The call of session c is over, and its local variables with it.
Return(c, label) ==
    /\ Goto(c, label)
    /\ cur' = [cur EXCEPT ![c] = 0]
    /\ op' = [op EXCEPT ![c] = "none"]

-----------------------------------------------------------------------------
(* BrokerCore::subscribe *)

\* Draw the id.  A plain subscription has no key to intern.
Subscribe(c, p, g) ==
    /\ pc[c] = "idle"
    /\ sub_id_gen <= MaxSubs
    /\ sub_id_gen' = sub_id_gen + 1
    /\ sub' = [sub EXCEPT ![sub_id_gen] =
                  [conn |-> c, pattern |-> p, group |-> g, arc |-> 0]]
    /\ cur' = [cur EXCEPT ![c] = sub_id_gen]
    /\ Goto(c, IF g = NoGroup THEN "insert" ELSE "intern")
    /\ UNCHANGED <<registry, routes, groups, active_subscriptions, acked, op, todo, removed>>

\* queue_group_keys.entry(key).or_insert_with(|| Arc::new(key)).clone()
InternKey(c) ==
    LET s == cur[c]
        arc == IF queue_group_keys[KeyOf(s)] = 0 THEN s ELSE queue_group_keys[KeyOf(s)]
    IN  /\ pc[c] = "intern"
        /\ queue_group_keys' = [queue_group_keys EXCEPT ![KeyOf(s)] = arc]
        /\ sub' = [sub EXCEPT ![s] = [@ EXCEPT !.arc = arc]]
        /\ Goto(c, "join")
        /\ UNCHANGED <<sub_id_gen, registry, routes, queue_groups, members, joined,
                       current_index, active_subscriptions, acked, cur, op, todo, removed>>

\* Mutant: groups of one name are kept under one key, whatever the pattern
JoinGroup_ByNameOnly(c) ==
    LET s == cur[c]
        k == <<CHOOSE p \in Patterns : TRUE, sub[s].group>>
    IN  /\ pc[c] = "join"
        /\ queue_groups' = queue_groups \cup {k}
        /\ members' = [members EXCEPT ![k] = @ \cup {s}]
        /\ joined' = [joined EXCEPT ![s] = 1 + Cardinality({t \in SubIds : joined[t] # 0})]
        /\ Goto(c, "insert")
        /\ UNCHANGED <<drawn, registry, routes, queue_group_keys, current_index,
                       active_subscriptions, acked, cur, op, todo, removed>>

\* queue_groups.entry(key).or_insert_with(..).members.push(sub_id)
JoinGroup(c) ==
    LET s == cur[c]
    IN  /\ pc[c] = "join"
        /\ queue_groups' = queue_groups \cup {KeyOf(s)}
        /\ members' = [members EXCEPT ![KeyOf(s)] = @ \cup {s}]
        /\ joined' = [joined EXCEPT ![s] =
                         1 + Cardinality({t \in SubIds : joined[t] # 0})]
        /\ Goto(c, "insert")
        /\ UNCHANGED <<drawn, registry, routes, queue_group_keys, current_index,
                       active_subscriptions, acked, cur, op, todo, removed>>

\* RoutingEngine::insert, up to the end of the critical section of the list or the trie
InsertRoute(c) ==
    LET s == cur[c]
    IN  /\ pc[c] = "insert"
        /\ IF IsWild(s)
           THEN /\ wildcard_trie' = wildcard_trie \cup {s}
                /\ UNCHANGED exact
                /\ Goto(c, "set_flag")
           ELSE /\ exact' = exact \cup {s}
                /\ UNCHANGED wildcard_trie
                /\ Goto(c, "register")
        /\ UNCHANGED <<drawn, registry, has_wildcards, groups, active_subscriptions, acked,
                       cur, op, todo, removed>>

\* has_wildcards.store(true), after the trie's lock is released
SetFlag(c) ==
    /\ pc[c] = "set_flag"
    /\ has_wildcards' = TRUE
    /\ Goto(c, "register")
    /\ UNCHANGED <<drawn, registry, exact, wildcard_trie, groups, active_subscriptions, acked,
                   cur, op, todo, removed>>

\* SubscriptionRegistry::add: subscriptions.insert
Register(c) ==
    /\ pc[c] = "register"
    /\ subscriptions' = subscriptions \cup {cur[c]}
    /\ Goto(c, "index")
    /\ UNCHANGED <<drawn, by_connection, routes, groups, active_subscriptions, acked,
                   cur, op, todo, removed>>

\* Mutant: the id is not pushed
IndexByConnection_Missing(c) ==
    /\ pc[c] = "index"
    /\ Goto(c, "count")
    /\ UNCHANGED <<drawn, registry, routes, groups, active_subscriptions, acked,
                   cur, op, todo, removed>>

\* SubscriptionRegistry::add: by_connection.entry(connection_id).or_default().push(id)
IndexByConnection(c) ==
    /\ pc[c] = "index"
    /\ by_connection' = [by_connection EXCEPT ![c] = @ \cup {cur[c]}]
    /\ Goto(c, "count")
    /\ UNCHANGED <<drawn, subscriptions, routes, groups, active_subscriptions, acked,
                   cur, op, todo, removed>>

\* metrics.inc_subscriptions(); the call returns and the id goes out in the SUBACK
CountSubscription(c) ==
    /\ pc[c] = "count"
    /\ active_subscriptions' = active_subscriptions + 1
    /\ acked' = acked \cup {cur[c]}
    /\ Return(c, "idle")
    /\ UNCHANGED <<drawn, registry, routes, groups, todo, removed>>

-----------------------------------------------------------------------------
(* SubscriptionRegistry::remove and RoutingEngine::remove, which unsubscribe
   and remove_connection share. *)

\* The call of the router returns to the caller of remove.
AfterUnroute(c) == IF op[c] = "unsub" THEN "unindex" ELSE "purge"

\* Mutant: a wildcard subscription is left in the trie
Unroute_ExactOnly(c) ==
    /\ pc[c] = "unroute"
    /\ exact' = exact \ {cur[c]}
    /\ Goto(c, IF IsWild(cur[c]) THEN "check_empty" ELSE AfterUnroute(c))
    /\ UNCHANGED <<drawn, registry, wildcard_trie, has_wildcards, groups, active_subscriptions,
                   acked, cur, op, todo, removed>>

Unroute(c) ==
    LET s == cur[c]
    IN  /\ pc[c] = "unroute"
        /\ IF IsWild(s)
           THEN /\ wildcard_trie' = wildcard_trie \ {s}
                /\ UNCHANGED exact
                /\ Goto(c, "check_empty")
           ELSE /\ exact' = exact \ {s}
                /\ UNCHANGED wildcard_trie
                /\ Goto(c, AfterUnroute(c))
        /\ UNCHANGED <<drawn, registry, has_wildcards, groups, active_subscriptions, acked,
                       cur, op, todo, removed>>

\* if self.wildcard_trie.read().is_empty(), under a lock taken anew
CheckEmpty(c) ==
    /\ pc[c] = "check_empty"
    /\ Goto(c, IF wildcard_trie = {} THEN "reset_flag" ELSE AfterUnroute(c))
    /\ UNCHANGED <<drawn, registry, routes, groups, active_subscriptions, acked,
                   cur, op, todo, removed>>

\* has_wildcards.store(false), after that lock is released
ResetFlag(c) ==
    /\ pc[c] = "reset_flag"
    /\ has_wildcards' = FALSE
    /\ Goto(c, AfterUnroute(c))
    /\ UNCHANGED <<drawn, registry, exact, wildcard_trie, groups, active_subscriptions, acked,
                   cur, op, todo, removed>>

-----------------------------------------------------------------------------
(* BrokerCore::unsubscribe.  The connection id is ignored by the code, so any
   session may name any subscription; that an UNSUB names an id some SUBACK
   carried is an assumption on the clients. *)

\* subscriptions.remove(&sub_id)?: an id that is not registered is a no-op
Unsubscribe(c, s) ==
    /\ pc[c] = "idle"
    /\ s \in subscriptions
    /\ subscriptions' = subscriptions \ {s}
    /\ removed' = [removed EXCEPT ![c] = {s}]
    /\ cur' = [cur EXCEPT ![c] = s]
    /\ op' = [op EXCEPT ![c] = "unsub"]
    /\ Goto(c, "unroute")
    /\ UNCHANGED <<drawn, by_connection, routes, groups, active_subscriptions, acked, todo>>

\* by_connection.get_mut(&sub.connection_id): retain
Unindex(c) ==
    LET s == cur[c]
    IN  /\ pc[c] = "unindex"
        /\ by_connection' = [by_connection EXCEPT ![sub[s].conn] = @ \ {s}]
        /\ Goto(c, IF Grouped(s) THEN "leave" ELSE "uncount")
        /\ UNCHANGED <<drawn, subscriptions, routes, groups, active_subscriptions, acked,
                       cur, op, todo, removed>>

\* queue_groups.get_mut(key): retain; an empty group stays in the map
LeaveGroup(c) ==
    LET s == cur[c]
    IN  /\ pc[c] = "leave"
        /\ members' = [members EXCEPT ![KeyOf(s)] = @ \ {s}]
        /\ Goto(c, "uncount")
        /\ UNCHANGED <<drawn, registry, routes, queue_group_keys, queue_groups, joined,
                       current_index, active_subscriptions, acked, cur, op, todo, removed>>

\* metrics.dec_subscriptions(), once for each subscription removed
Uncount(c, s) ==
    /\ pc[c] = "uncount"
    /\ s \in removed[c]
    /\ active_subscriptions' = active_subscriptions - 1
    /\ removed' = [removed EXCEPT ![c] = @ \ {s}]
    /\ IF removed[c] = {s}
       THEN Return(c, IF op[c] = "unsub" THEN "idle" ELSE "closed")
       ELSE UNCHANGED <<pc, cur, op>>
    /\ UNCHANGED <<drawn, registry, routes, groups, acked, todo>>

-----------------------------------------------------------------------------
(* BrokerCore::remove_connection, called once when the session ends *)

\* SubscriptionRegistry::remove_all_for_connection: by_connection.remove
RemoveConnection(c) ==
    /\ pc[c] = "idle"
    /\ todo' = [todo EXCEPT ![c] = by_connection[c]]
    /\ by_connection' = [by_connection EXCEPT ![c] = {}]
    /\ op' = [op EXCEPT ![c] = "remove"]
    /\ Goto(c, "purge")
    /\ UNCHANGED <<drawn, subscriptions, routes, groups, active_subscriptions, acked, cur, removed>>

\* Mutant: every id of the connection is taken for removed, also one unsubscribed meanwhile
Purge_CountsAll(c, s) ==
    /\ pc[c] = "purge"
    /\ s \in todo[c]
    /\ todo' = [todo EXCEPT ![c] = @ \ {s}]
    /\ subscriptions' = subscriptions \ {s}
    /\ removed' = [removed EXCEPT ![c] = @ \cup {s}]
    /\ cur' = [cur EXCEPT ![c] = s]
    /\ Goto(c, "unroute")
    /\ UNCHANGED <<drawn, by_connection, routes, groups, active_subscriptions, acked, op>>

\* Mutant: the loop does not get past an id that was unsubscribed meanwhile
Purge_Retries(c, s) ==
    /\ pc[c] = "purge"
    /\ s \in todo[c] \cap subscriptions
    /\ todo' = [todo EXCEPT ![c] = @ \ {s}]
    /\ subscriptions' = subscriptions \ {s}
    /\ removed' = [removed EXCEPT ![c] = @ \cup {s}]
    /\ cur' = [cur EXCEPT ![c] = s]
    /\ Goto(c, "unroute")
    /\ UNCHANGED <<drawn, by_connection, routes, groups, active_subscriptions, acked, op>>

\* for sub_id in sub_ids { subscriptions.remove(&sub_id) .. router.remove .. }
Purge(c, s) ==
    /\ pc[c] = "purge"
    /\ s \in todo[c]
    /\ todo' = [todo EXCEPT ![c] = @ \ {s}]
    /\ IF s \in subscriptions
       THEN /\ subscriptions' = subscriptions \ {s}
            /\ removed' = [removed EXCEPT ![c] = @ \cup {s}]
            /\ cur' = [cur EXCEPT ![c] = s]
            /\ Goto(c, "unroute")
       ELSE UNCHANGED <<subscriptions, removed, cur, pc>>
    /\ UNCHANGED <<drawn, by_connection, routes, groups, active_subscriptions, acked, op>>

\* Mutant: the queue groups are not cleaned
PurgeDone_KeepsGroups(c) ==
    /\ pc[c] = "purge"
    /\ todo[c] = {}
    /\ Goto(c, "leave_all")
    /\ UNCHANGED <<drawn, registry, routes, groups, active_subscriptions, acked,
                   cur, op, todo, removed>>

\* The loop ends: what was removed is cleaned out of the queue groups next.
PurgeDone(c) ==
    /\ pc[c] = "purge"
    /\ todo[c] = {}
    /\ todo' = [todo EXCEPT ![c] = {s \in removed[c] : Grouped(s)}]
    /\ Goto(c, "leave_all")
    /\ UNCHANGED <<drawn, registry, routes, groups, active_subscriptions, acked,
                   cur, op, removed>>

\* queue_groups.get_mut(key): retain, and whether the list is now empty
LeaveAll(c, s) ==
    LET left == members[KeyOf(s)] \ removed[c]
    IN  /\ pc[c] = "leave_all"
        /\ s \in todo[c]
        /\ todo' = [todo EXCEPT ![c] = @ \ {s}]
        /\ cur' = [cur EXCEPT ![c] = s]
        /\ members' = [members EXCEPT ![KeyOf(s)] = left]
        /\ Goto(c, IF KeyOf(s) \in queue_groups /\ left = {}
                   THEN "drop_group" ELSE "leave_all")
        /\ UNCHANGED <<drawn, registry, routes, queue_group_keys, queue_groups, joined,
                       current_index, active_subscriptions, acked, op, removed>>

\* drop(group); self.queue_groups.remove(key): whoever is a member by now goes with it
DropGroup(c) ==
    LET k == KeyOf(cur[c])
    IN  /\ pc[c] = "drop_group"
        /\ queue_groups' = queue_groups \ {k}
        /\ members' = [members EXCEPT ![k] = {}]
        /\ current_index' = [current_index EXCEPT ![k] = 0]
        /\ Goto(c, "drop_key")
        /\ UNCHANGED <<drawn, registry, routes, queue_group_keys, joined, active_subscriptions,
                       acked, cur, op, todo, removed>>

\* self.queue_group_keys.remove(key)
DropKey(c) ==
    /\ pc[c] = "drop_key"
    /\ queue_group_keys' = [queue_group_keys EXCEPT ![KeyOf(cur[c])] = 0]
    /\ Goto(c, "leave_all")
    /\ UNCHANGED <<drawn, registry, routes, queue_groups, members, joined, current_index,
                   active_subscriptions, acked, cur, op, todo, removed>>

\* The groups are clean: count the removed subscriptions down, then the session is over.
LeaveAllDone(c) ==
    /\ pc[c] = "leave_all"
    /\ todo[c] = {}
    /\ IF removed[c] = {}
       THEN Return(c, "closed")
       ELSE Goto(c, "uncount") /\ UNCHANGED <<cur, op>>
    /\ UNCHANGED <<drawn, registry, routes, groups, active_subscriptions, acked,
                   todo, removed>>

-----------------------------------------------------------------------------
SubscribeSteps(c) ==
    \/ \E p \in Patterns, g \in Groups \cup {NoGroup} : Subscribe(c, p, g)
    \/ InternKey(c) \/ JoinGroup(c) \/ InsertRoute(c) \/ SetFlag(c)
    \/ Register(c) \/ IndexByConnection(c) \/ CountSubscription(c)

UnsubscribeSteps(c) ==
    \/ \E s \in acked : Unsubscribe(c, s)
    \/ Unroute(c) \/ CheckEmpty(c) \/ ResetFlag(c)
    \/ Unindex(c) \/ LeaveGroup(c) \/ \E s \in SubIds : Uncount(c, s)

RemoveSteps(c) ==
    \/ RemoveConnection(c) \/ (\E s \in SubIds : Purge(c, s)) \/ PurgeDone(c)
    \/ (\E s \in SubIds : LeaveAll(c, s)) \/ DropGroup(c) \/ DropKey(c) \/ LeaveAllDone(c)

Session(c) == SubscribeSteps(c) \/ UnsubscribeSteps(c) \/ RemoveSteps(c)

Next == \E c \in Conns : Session(c)

Spec == Init /\ [][Next]_tableVars

-----------------------------------------------------------------------------
(* What the table promises *)

\* Acknowledged and not taken out of the registry since
Live == acked \cap subscriptions

Routed(s) == IF IsWild(s) THEN s \in wildcard_trie ELSE s \in exact

\* Ids some session has taken out of the registry and not yet counted down
Removing == UNION {removed[c] : c \in Conns}

\* subscribe inserts the route before the registry entry and remove deletes them in the
\* opposite order, so a registered subscription can always be matched, and the
\* disconnect of its owner always finds it: it is in by_connection, or the owner is
\* about to put it there, or the owner's remove_all_for_connection holds it.
RegisteredIsReachable ==
    \A s \in subscriptions :
        LET c == sub[s].conn
        IN  /\ Routed(s)
            /\ \/ s \in by_connection[c]
               \/ pc[c] = "index" /\ cur[c] = s
               \/ op[c] = "remove" /\ s \in todo[c]

\* A route without a registry entry is never left behind: some session is between the
\* two halves of SubscriptionRegistry::add or of ::remove for that very id.
RouteIsOwned ==
    \A s \in exact \cup wildcard_trie :
        \/ s \in subscriptions
        \/ \E c \in Conns : cur[c] = s /\ pc[c] \in {"set_flag", "register", "unroute"}

\* CoreMetrics.active_subscriptions counts the acknowledged registered subscriptions and
\* those whose removal has not counted them down yet, each once.  So the u64 never wraps
\* below zero, and has_active_subscriptions is true while one acknowledged
\* subscription is registered: the session's publish path, which throws PUBs away when it
\* is false, never does so under a live subscriber.  This rests on the clients: an UNSUB
\* names an id that some SUBACK carried.  The code removes any id that is registered
\* (core.rs:144, registry.rs:54), also one that its subscribe has not counted yet.
CountAgrees ==
    active_subscriptions = Cardinality(Live \cup Removing)

\* A queue group only ever lists subscriptions of its own pattern and group, in a state
\* that exists: the member deliver_queue_group picks for a subject matches the subject.
MembersHoldTheirKey ==
    \A k \in Keys : \A s \in members[k] : k \in queue_groups /\ Grouped(s) /\ KeyOf(s) = k

\* When remove_connection has returned, nothing of the connection is left in the registry,
\* in the router or in a queue group, unless another session is removing it right now.
ClosedLeavesNothing ==
    \A c \in Conns : pc[c] = "closed" =>
        /\ by_connection[c] = {}
        /\ \A s \in 1..(sub_id_gen - 1) : sub[s].conn = c =>
              /\ s \notin subscriptions
              /\ \/ s \in Removing
                 \/ /\ s \notin exact \cup wildcard_trie
                    /\ \A k \in Keys : s \notin members[k]

\* Every call of a session returns: a subscribe or unsubscribe gives the session back to
\* its frame loop, and a remove_connection closes it.
CallsReturn ==
    \A c \in Conns : pc[c] # "idle" ~> pc[c] \in {"idle", "closed"}

\* A call that has begun runs to its end: no section of it waits for another task.  A
\* session owes no new call.
Continue(c) == pc[c] # "idle" /\ Session(c)

FairSpec == Spec /\ \A c \in Conns : WF_tableVars(Continue(c))

-----------------------------------------------------------------------------
(* What comments in the code say of the table *)

\* engine.rs, in remove: the has_wildcards flag "is conservative and never produces
\* incorrect results".  A wildcard subscription that was acknowledged is matched by
\* match_subject_str only while the flag is set.
FlagIsConservative ==
    \A s \in Live : IsWild(s) => has_wildcards

\* core.rs, in deliver_queue_group: "the canonical member list lives in `QueueGroupState`".
\* An acknowledged queue subscription is in the list of its group.
MembersAreCanonical ==
    \A s \in Live : Grouped(s) => s \in members[KeyOf(s)]

\* core.rs, in deliver_matches: "Compare by pointer equality: keys are interned at
\* subscribe time".  Two acknowledged members of one group hold the same Arc.
KeysAreInterned ==
    \A s, t \in Live : Grouped(s) /\ Grouped(t) /\ KeyOf(s) = KeyOf(t) => sub[s].arc = sub[t].arc

=============================================================================

------------------------ MODULE SubscriptionTable_inv -----------------------
(***************************************************************************)
(* The inductive invariant of SubscriptionTable: what the tables hold      *)
(* depends on where the calls of every session stand.  Publishers need a   *)
(* little more, and can rely on a few things no session ever does.         *)
(***************************************************************************)
EXTENDS SubscriptionTable

\* Labels of a session inside subscribe, and of one that holds a removed id in cur
Subscribing == {"intern", "join", "insert", "set_flag", "register", "index", "count"}
HoldsRemoved == {"unroute", "check_empty", "reset_flag", "unindex", "leave",
                 "drop_group", "drop_key"}

\* Ids are used from below: what any table holds was drawn.
Drawn ==
    /\ \A s \in acked \cup subscriptions \cup exact \cup wildcard_trie : s < sub_id_gen
    /\ \A k \in Keys : \A s \in members[k] : s < sub_id_gen

\* A session in subscribe owns the id it drew: nobody else can name it yet, and
\* the route and the entry are there once the session has made them.
Subscriber(c) ==
    pc[c] \in Subscribing =>
        /\ cur[c] \in SubIds
        /\ cur[c] < sub_id_gen
        /\ cur[c] \notin acked
        /\ sub[cur[c]].conn = c
        /\ pc[c] \in {"intern", "join"} => Grouped(cur[c])
        /\ pc[c] \in {"set_flag", "register"} => Routed(cur[c])
        /\ pc[c] \in {"index", "count"} => cur[c] \in subscriptions

\* What a session has removed was acknowledged, is in no registry any more, and
\* no other session has removed it.
Remover(c) ==
    /\ removed[c] \subseteq acked \ subscriptions
    /\ \A d \in Conns \ {c} : removed[c] \cap removed[d] = {}
    /\ pc[c] \in HoldsRemoved => cur[c] \in removed[c]
    /\ pc[c] \in Subscribing \cup {"idle", "closed"} => removed[c] = {}

\* Where the loops of remove_connection stand.
Loops(c) ==
    /\ todo[c] \subseteq acked
    /\ pc[c] \in Subscribing \cup {"idle", "closed", "unindex", "leave", "uncount"} => todo[c] = {}
    /\ pc[c] \in {"leave_all", "drop_group", "drop_key"} => todo[c] \subseteq removed[c]
    /\ pc[c] \in {"leave_all", "drop_group", "drop_key", "uncount"} =>
          \A k \in Keys : members[k] \cap removed[c] \subseteq todo[c]

\* Which call a session is in.
Caller(c) ==
    /\ op[c] = "unsub" => removed[c] = {cur[c]} /\ todo[c] = {}
    /\ pc[c] \in {"unindex", "leave"} => op[c] = "unsub"
    /\ pc[c] \in {"purge", "leave_all", "drop_group", "drop_key"} => op[c] = "remove"
    /\ pc[c] \in {"unroute", "check_empty", "reset_flag", "uncount"} => op[c] \in {"unsub", "remove"}
    /\ pc[c] \in Subscribing \cup {"idle", "closed"} => op[c] = "none"
    /\ op[c] = "remove" \/ pc[c] = "closed" => by_connection[c] = {}
    /\ by_connection[c] \subseteq acked \cup (IF pc[c] = "count" THEN {cur[c]} ELSE {})

\* A list of a literal pattern holds no wildcard subscription, the trie only such.
RouteKind ==
    /\ \A s \in exact : ~ IsWild(s)
    /\ \A s \in wildcard_trie : IsWild(s)

\* A member of a queue group is registered, or a session is adding or removing it.
MemberIsOwned ==
    \A k \in Keys : \A s \in members[k] :
        \/ s \in subscriptions
        \/ \E c \in Conns : s \in removed[c]
        \/ \E c \in Conns : cur[c] = s /\ pc[c] \in {"insert", "set_flag", "register"}

Sessions == \A c \in Conns : Subscriber(c) /\ Remover(c) /\ Loops(c) /\ Caller(c)

IInv ==
    /\ TypeOK
    /\ Drawn
    /\ Sessions
    /\ RouteKind
    /\ RegisteredIsReachable
    /\ RouteIsOwned
    /\ MembersHoldTheirKey
    /\ MemberIsOwned
    /\ CountAgrees

\* The fields subscribe stored for an id that was drawn.
Fields ==
    \A s \in SubIds : s < sub_id_gen =>
        /\ sub[s].conn \in Conns
        /\ sub[s].pattern \in Patterns
        /\ Grouped(s) => KeyOf(s) \in Keys

\* The local variables of the session tasks are functions of the connection.
Locals ==
    /\ pc \in [Conns -> PC]
    /\ cur \in [Conns -> 0..MaxSubs]
    /\ op \in [Conns -> {"none", "unsub", "remove"}]
    /\ todo \in [Conns -> SUBSET SubIds]
    /\ removed \in [Conns -> SUBSET SubIds]

-----------------------------------------------------------------------------
(* What publishers need of the tables *)

\* The ids handed out so far
Ids == {s \in SubIds : s < sub_id_gen}

Joined == {t \in SubIds : joined[t] # 0}

\* `joined' numbers the members in the order of their pushes: no two have one number.
JoinedOrder ==
    /\ \A s \in Joined : s < sub_id_gen /\ joined[s] <= Cardinality(Joined)
    /\ \A s, t \in Joined : joined[s] = joined[t] => s = t
    /\ \A k \in Keys : members[k] \subseteq Joined
    /\ \A c \in Conns : pc[c] \in {"intern", "join"} => cur[c] \notin Joined

\* No acknowledged wildcard subscription has been taken out of the registry.
WildsStay == \A t \in acked : IsWild(t) => t \in subscriptions

\* Only the removal of a wildcard subscription lowers the flag, so while there was none a
\* registered wildcard subscription has set it.
FlagHolds ==
    /\ \A c \in Conns : pc[c] \in {"check_empty", "reset_flag"} => IsWild(cur[c])
    /\ WildsStay => /\ \A s \in subscriptions : IsWild(s) => has_wildcards
                    /\ \A c \in Conns : pc[c] = "register" /\ IsWild(cur[c]) => has_wildcards

TableInv == IInv /\ JoinedOrder /\ FlagHolds

\* What every step of the broker leaves a publisher to rely on.
Relies ==
    /\ acked \subseteq acked'
    /\ Ids \subseteq Ids'
    /\ \A s \in Ids : sub'[s].pattern = sub[s].pattern /\ sub'[s].group = sub[s].group
    /\ \A s \in acked : s \in subscriptions' => s \in subscriptions

=============================================================================

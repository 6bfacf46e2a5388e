----------------------------- MODULE RoutingEngine -----------------------------
(***************************************************************************)
(* What the routing engine computes: RoutingEngine (engine.rs) over its    *)
(* exact map and SubjectTrie (trie.rs), one call at a time.  The races     *)
(* between calls are the subject of SubscriptionTable.                     *)
(*                                                                         *)
(* A trie node is its path from the root.  Nodes are never pruned, and a   *)
(* node that is not there behaves like one without subscriptions, so every *)
(* path is a node.                                                         *)
(***************************************************************************)
EXTENDS Subjects, Functions

CONSTANTS SubIds, NoPattern

ASSUME RoutingAssumption == NoPattern \notin Patterns

Paths == {<<>>} \cup TokenSeqs(Literals \cup {"*"}, MaxTokens)

VARIABLES
    exact,                  \* RoutingEngine.exact, by pattern
    multi_wildcard_subs,    \* TrieNode.multi_wildcard_subs, by node
    exact_subs,             \* TrieNode.exact_subs, by node
    subscriber_count,       \* SubjectTrie.subscriber_count
    has_wildcards,
    live                    \* history: the pattern each routed subscription asked for

trie == <<multi_wildcard_subs, exact_subs, subscriber_count>>
vars == <<exact, trie, has_wildcards, live>>

Init ==
    /\ exact = [p \in {p \in Patterns : ~ HasWildcard(p)} |-> <<>>]
    /\ multi_wildcard_subs = [n \in Paths |-> <<>>]
    /\ exact_subs = [n \in Paths |-> <<>>]
    /\ subscriber_count = 0
    /\ has_wildcards = FALSE
    /\ live = [id \in SubIds |-> NoPattern]

\* Vec::retain of all but one id
Without(ids, id) ==
    LET kept[i \in 0..Len(ids)] ==
            IF i = 0 THEN <<>> ELSE IF ids[i] = id THEN kept[i - 1] ELSE Append(kept[i - 1], ids[i])
    IN  kept[Len(ids)]

\* SubjectTrie::insert and remove: the walk ends at the last token, or before it when that is ">"
WalkEnds(p) == IF HasMulti(p) THEN SubSeq(p, 1, Len(p) - 1) ELSE p

\* SubjectTrie::insert
TrieInsert(p, id) ==
    /\ IF HasMulti(p)
       THEN /\ multi_wildcard_subs' = [multi_wildcard_subs EXCEPT ![WalkEnds(p)] = Append(@, id)]
            /\ UNCHANGED exact_subs
       ELSE /\ exact_subs' = [exact_subs EXCEPT ![WalkEnds(p)] = Append(@, id)]
            /\ UNCHANGED multi_wildcard_subs
    /\ subscriber_count' = subscriber_count + 1

\* SubjectTrie::remove: the counter goes down, saturating, only when something was removed
TrieRemove(p, id) ==
    LET ids == IF HasMulti(p) THEN multi_wildcard_subs[WalkEnds(p)] ELSE exact_subs[WalkEnds(p)]
    IN  /\ IF HasMulti(p)
           THEN /\ multi_wildcard_subs' = [multi_wildcard_subs EXCEPT ![WalkEnds(p)] = Without(@, id)]
                /\ UNCHANGED exact_subs
           ELSE /\ exact_subs' = [exact_subs EXCEPT ![WalkEnds(p)] = Without(@, id)]
                /\ UNCHANGED multi_wildcard_subs
        /\ subscriber_count' = IF Len(Without(ids, id)) < Len(ids) /\ subscriber_count > 0
                               THEN subscriber_count - 1 ELSE subscriber_count

\* RoutingEngine::insert of a subscription that was not routed before
Insert(p, id) ==
    /\ live[id] = NoPattern
    /\ live' = [live EXCEPT ![id] = p]
    /\ IF HasWildcard(p)
       THEN TrieInsert(p, id) /\ has_wildcards' = TRUE /\ UNCHANGED exact
       ELSE exact' = [exact EXCEPT ![p] = Append(@, id)] /\ UNCHANGED <<trie, has_wildcards>>

\* RoutingEngine::remove, of a subscription that is routed or not
Remove(p, id) ==
    /\ live[id] \in {p, NoPattern}
    /\ live' = [live EXCEPT ![id] = NoPattern]
    /\ IF HasWildcard(p)
       THEN /\ TrieRemove(p, id)
            /\ has_wildcards' = (has_wildcards /\ subscriber_count' # 0)
            /\ UNCHANGED exact
       ELSE exact' = [exact EXCEPT ![p] = Without(@, id)] /\ UNCHANGED <<trie, has_wildcards>>

-----------------------------------------------------------------------------
\* Mutant: `>' also matches when no token is left
MatchHere_MultiMatchesNone(node, s) == multi_wildcard_subs[node]

\* match_recursive: a ">" below this node takes one or more remaining tokens.  The index into
\* the subject is the depth of the node.
MatchHere(node, s) == IF Len(node) < Len(s) THEN multi_wildcard_subs[node] ELSE <<>>

\* match_recursive: the results below a node are collected in the order of the walk
match_recursive(s) ==
    LET walk[node \in Paths] ==
            MatchHere(node, s) \o
            IF Len(node) >= Len(s) THEN exact_subs[node]
            ELSE LET child == Append(node, s[Len(node) + 1])
                 IN  (IF child \in Paths THEN walk[child] ELSE <<>>) \o walk[Append(node, "*")]
    IN  walk

\* RoutingEngine::match_subject
match_subject(s) ==
    (IF s \in DOMAIN exact THEN exact[s] ELSE <<>>)
    \o (IF has_wildcards THEN match_recursive(s)[<<>>] ELSE <<>>)

\* The engine's answer to a subject is exactly the subscriptions whose pattern selects
\* it, each once: the split into an exact map and a trie, the walk that branches at "*" and the
\* pairwise test of SubjectPattern::matches all agree with what a pattern means.
MatchesAgree ==
    \A s \in Subjects :
        LET hits == match_subject(s)
        IN  /\ Range(hits) = {id \in SubIds : live[id] # NoPattern /\ Selects(live[id], s)}
            /\ IsInjective(hits)
            /\ \A id \in SubIds : live[id] # NoPattern => (matches(live[id], s) <=> Selects(live[id], s))

===============================================================================

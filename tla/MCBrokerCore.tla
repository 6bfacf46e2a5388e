----------------------------- MODULE MCBrokerCore -----------------------------
(* Small instances of BrokerCore for TLC. *)
EXTENDS BrokerCore, TLC

CONSTANTS a, b, w   \* two subjects, and a wildcard that matches the first

WildMatchesA == {<<w, a>>}
NothingMatches == {}

\* Bound: a behaviour ends with the last publish; what the sessions do after it is the
\* business of SubscriptionTable.
StillPublishing ==
    Len(subject) < MaxMsgs \/ \E p \in Publishers : ppc[p] # "idle"

\* Connections are interchangeable: no definition tells one from another.
ConnSymmetry == Permutations(Conns)

===============================================================================

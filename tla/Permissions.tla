------------------------------ MODULE Permissions ------------------------------
(***************************************************************************)
(* The subscribe permissions of a session: AuthContext::can_subscribe and  *)
(* is_pattern_covered (auth.rs), where the session handles SUB             *)
(* (handler.rs) and the dispatcher parses its pattern (dispatcher.rs),     *)
(* composed with the routing engine its subscriptions reach.               *)
(***************************************************************************)
EXTENDS RoutingEngine

CONSTANT OwnIds         \* the ids that the session with permissions is given

ASSUME OwnAssumption == OwnIds \subseteq SubIds

VARIABLES
    subscribe_patterns,     \* AuthContext.subscribe_patterns
    refused                 \* the pattern of a SUB that was denied, or <<>>

\* A session with no permissions may subscribe to anything.  Bound: one pattern; can_subscribe
\* looks at each by itself.
AccessInit ==
    /\ Init
    /\ subscribe_patterns \in {{}} \cup {{p} : p \in Patterns}
    /\ refused = <<>>

\* Mutant: `*' is taken to cover `>'
CoverStep_StarCoversMulti(allowed, requested) ==
    CASE allowed = ">" -> "covered"
      [] allowed = "*" -> "advance"
      [] OTHER -> IF allowed = requested THEN "advance" ELSE "refused"

\* Mutant: `*' covers only itself
CoverStep_Literal(allowed, requested) ==
    CASE allowed = ">" -> "covered"
      [] allowed = "*" -> IF requested \in {"*", ">"} THEN "refused" ELSE "advance"
      [] OTHER -> IF allowed = requested THEN "advance" ELSE "refused"

\* is_pattern_covered: the match on one pair of tokens
CoverStep(allowed, requested) ==
    CASE allowed = ">" -> "covered"
      [] allowed = "*" -> IF requested = ">" THEN "refused" ELSE "advance"
      [] OTHER -> IF allowed = requested THEN "advance" ELSE "refused"

\* is_pattern_covered: where its loop is left (the two indices advance together), and what is
\* returned there
CoverStops(req, all, i) == LoopEnds(all, req, i) \/ CoverStep(all[i], req[i]) # "advance"

is_pattern_covered(req, all) ==
    LET i == CHOOSE i \in 1..(Len(all) + 1) :
                 CoverStops(req, all, i) /\ \A j \in 1..(i - 1) : ~ CoverStops(req, all, j)
    IN  IF LoopEnds(all, req, i) THEN i > Len(all) /\ i > Len(req)
        ELSE CoverStep(all[i], req[i]) = "covered"

can_subscribe(pattern) ==
    \/ subscribe_patterns = {}
    \/ \E allowed \in subscribe_patterns : is_pattern_covered(pattern, allowed)

\* SUB of a pattern that parses and is permitted reaches the routing engine
Sub(raw, id) ==
    /\ refused = <<>>
    /\ PatternParses(raw)
    /\ can_subscribe(raw)
    /\ Insert(raw, id)
    /\ UNCHANGED <<subscribe_patterns, refused>>

\* SUB of a pattern that parses and is not permitted.  The verdict depends on nothing but the
\* permissions, so one refusal, before anything is routed, is enough.
Refuse(raw) ==
    /\ refused = <<>> /\ \A id \in SubIds : live[id] = NoPattern
    /\ PatternParses(raw)
    /\ ~ can_subscribe(raw)
    /\ refused' = raw
    /\ UNCHANGED <<subscribe_patterns, vars>>

\* Subscriptions of other sessions, and removals
Others(p, id) ==
    /\ refused = <<>>
    /\ (id \notin OwnIds /\ Insert(p, id)) \/ Remove(p, id)
    /\ UNCHANGED <<subscribe_patterns, refused>>

AccessNext ==
    \/ \E raw \in RawPatterns : Refuse(raw) \/ \E id \in OwnIds : Sub(raw, id)
    \/ \E p \in Patterns, id \in SubIds : Others(p, id)

AccessSpec == AccessInit /\ [][AccessNext]_<<vars, subscribe_patterns, refused>>

-----------------------------------------------------------------------------
\* A session with permissions is sent only what they cover: whatever subject the engine routes
\* to one of its subscriptions is selected by one of subscribe_patterns.
DeliversWithinPermissions ==
    subscribe_patterns # {} =>
        \A s \in Subjects :
            Range(match_subject(s)) \cap OwnIds # {} => \E p \in subscribe_patterns : Selects(p, s)

\* "A requested pattern is covered if every subject it can match is also matched by the
\* allowed pattern" (auth.rs): a denial names a subject the one allowed pattern does not select.
\* A pattern as long as MAX_TOKENS is set aside: no subject is long enough to tell its
\* last ">" from "*".
DeniesOnlyTheUncovered ==
    refused # <<>> /\ Len(refused) < MaxTokens =>
        \E s \in Subjects : Selects(refused, s) /\ \A p \in subscribe_patterns : ~ Selects(p, s)

===============================================================================

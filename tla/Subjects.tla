------------------------------- MODULE Subjects -------------------------------
(***************************************************************************)
(* Subjects and subject patterns: subject.rs and subject_pattern.rs of     *)
(* zetmq-core.  A subject is the sequence of its dot-separated tokens; the *)
(* length limit in bytes and the trimming of white space are left out.     *)
(***************************************************************************)
EXTENDS Integers, Sequences, FiniteSets

CONSTANTS
    Literals,       \* the tokens patterns are written with
    Foreign,        \* a token no pattern names
    MaxTokens       \* MAX_TOKENS of both parsers

ASSUME SubjectAssumption ==
    /\ Literals \cap {"", "*", ">"} = {}
    /\ Foreign \notin Literals \cup {"", "*", ">"}
    /\ MaxTokens \in Nat \ {0}

TokenSeqs(T, n) == UNION {[1..k -> T] : k \in 1..n}

\* SubjectPattern::parse accepts a pattern
PatternParses(raw) ==
    /\ Len(raw) <= MaxTokens
    /\ \A i \in 1..Len(raw) : raw[i] # "" /\ (raw[i] = ">" => i = Len(raw))

\* Subject::parse accepts a subject
SubjectParses(raw) ==
    /\ Len(raw) <= MaxTokens
    /\ \A i \in 1..Len(raw) : raw[i] \notin {"", "*", ">"}

RawPatterns == TokenSeqs(Literals \cup {"", "*", ">"}, MaxTokens + 1)
Patterns == {raw \in RawPatterns : PatternParses(raw)}
Subjects == {raw \in TokenSeqs(Literals \cup {Foreign}, MaxTokens + 1) : SubjectParses(raw)}

HasMulti(p) == \E i \in 1..Len(p) : p[i] = ">"
HasWildcard(p) == \E i \in 1..Len(p) : p[i] \in {"*", ">"}

\* SubjectPattern::matches: where the loop over both token lists is left, at the end of one of
\* them or by a return (its two indices advance together), and what is returned there
LoopEnds(p, s, i) == i > Len(p) \/ i > Len(s)
MatchStops(p, s, i) == LoopEnds(p, s, i) \/ p[i] = ">" \/ p[i] \notin {"*", s[i]}

matches(p, s) ==
    LET i == CHOOSE i \in 1..(Len(p) + 1) :
                 MatchStops(p, s, i) /\ \A j \in 1..(i - 1) : ~ MatchStops(p, s, j)
    IN  IF LoopEnds(p, s, i) THEN i > Len(p) /\ i > Len(s) ELSE p[i] = ">"

\* What a pattern means: "*" stands for one token, a last ">" for one or more.
Selects(p, s) ==
    LET fixed == IF HasMulti(p) THEN Len(p) - 1 ELSE Len(p)
    IN  /\ IF HasMulti(p) THEN Len(s) > fixed ELSE Len(s) = fixed
        /\ \A i \in 1..fixed : p[i] \in {"*", s[i]}

===============================================================================

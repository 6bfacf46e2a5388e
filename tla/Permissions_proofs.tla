--------------------------- MODULE Permissions_proofs ---------------------------
(***************************************************************************)
(* Proofs about subjects and patterns, the routing engine and the          *)
(* subscribe permissions.  The recursions of the model, the walk of        *)
(* match_recursive and Vec::retain, are reasoned about by a least          *)
(* counterexample.                                                         *)
(***************************************************************************)
EXTENDS Permissions, FiniteSetTheorems, WellFoundedInduction, TLAPS

USE Zenon

-----------------------------------------------------------------------------
(* Subjects and patterns *)

\* A set of numbers that is not empty has a least element: what the inductions below rest on.
LEMMA LeastNumber ==
    ASSUME NEW T \in SUBSET Nat, T # {}
    PROVE  \E x \in T : \A y \in T : x <= y
  <1> DEFINE R == OpToRel(<, Nat)
  <1>1. IsWellFoundedOn(R, Nat)
    BY NatLessThanWellFounded
  <1>2. \A x, y \in Nat : x < y => <<x, y>> \in R
    BY DEF OpToRel
  <1> HIDE DEF R
  <1>3. PICK x \in T : \A y \in T : ~ (<<y, x>> \in R)
    BY <1>1, WFMin
  <1>4. \A y \in T : ~ (y < x)
    BY <1>2, <1>3
  <1> QED  BY <1>4, SMT

\* The token sequences of TokenSeqs are the sequences of up to n tokens.
LEMMA TokenSeqFacts ==
    ASSUME NEW T, NEW n \in Nat, NEW p
    PROVE  p \in TokenSeqs(T, n) <=> p \in Seq(T) /\ Len(p) \in 1..n
  <1>1. ASSUME p \in TokenSeqs(T, n)  PROVE p \in Seq(T) /\ Len(p) \in 1..n
    <2>1. PICK k \in 1..n : p \in [1..k -> T]
      BY <1>1 DEF TokenSeqs
    <2> QED  BY <2>1, SMT
  <1>2. ASSUME p \in Seq(T), Len(p) \in 1..n  PROVE p \in TokenSeqs(T, n)
    <2>1. p \in [1..Len(p) -> T]
      BY <1>2, SMT
    <2> QED  BY <1>2, <2>1 DEF TokenSeqs
  <1> QED  BY <1>1, <1>2

\* The assumption about the constants, in the forms used below.
LEMMA MaxTokensFacts ==
    MaxTokens \in Nat \ {0} /\ MaxTokens \in Nat /\ MaxTokens + 1 \in Nat
  <1>1. MaxTokens \in Nat \ {0}
    BY SubjectAssumption
  <1> QED  BY <1>1, SMT

\* The tokens are told apart from the wildcards and from the one no pattern names.
LEMMA TokenFacts ==
    /\ "" \notin Literals /\ "*" \notin Literals /\ ">" \notin Literals
    /\ Foreign \notin Literals /\ Foreign # "" /\ Foreign # "*" /\ Foreign # ">"
  BY SubjectAssumption

\* What SubjectPattern::parse accepts.
LEMMA PatternFacts ==
    ASSUME NEW p
    PROVE  p \in Patterns <=>
             /\ p \in Seq(Literals \cup {"*", ">"}) /\ Len(p) \in 1..MaxTokens
             /\ \A i \in 1..Len(p) : p[i] = ">" => i = Len(p)
  <1> DEFINE T == Literals \cup {"", "*", ">"}
             U == Literals \cup {"*", ">"}
  <1>0. MaxTokens \in Nat /\ MaxTokens + 1 \in Nat
    BY MaxTokensFacts
  <1>1. p \in RawPatterns <=> p \in Seq(T) /\ Len(p) \in 1..(MaxTokens + 1)
    BY <1>0, TokenSeqFacts DEF RawPatterns
  <1>2. \A x : (x \in T /\ x # "" => x \in U) /\ (x \in U => x \in T /\ x # "")
    BY TokenFacts
  <1>3. ASSUME p \in Patterns
        PROVE  /\ p \in Seq(U) /\ Len(p) \in 1..MaxTokens
               /\ \A i \in 1..Len(p) : p[i] = ">" => i = Len(p)
    <2>1. /\ p \in Seq(T) /\ Len(p) \in 1..(MaxTokens + 1) /\ Len(p) <= MaxTokens
          /\ \A i \in 1..Len(p) : p[i] # "" /\ (p[i] = ">" => i = Len(p))
      BY <1>1, <1>3 DEF Patterns, PatternParses
    <2> HIDE DEF T, U
    <2>2. p \in Seq(T) /\ Len(p) \in 1..(MaxTokens + 1) /\ Len(p) <= MaxTokens
      BY <2>1
    <2>3. Len(p) \in 1..MaxTokens /\ \A i \in 1..Len(p) : p[i] \in T
      BY <1>0, <2>2, SMT
    <2>4. \A i \in 1..Len(p) : p[i] \in U
      BY <1>2, <2>1, <2>3
    <2>5. p \in Seq(U)
      BY <2>2, <2>4, SMT
    <2> QED  BY <2>1, <2>3, <2>5
  <1>4. ASSUME p \in Seq(U), Len(p) \in 1..MaxTokens,
               \A i \in 1..Len(p) : p[i] = ">" => i = Len(p)
        PROVE  p \in Patterns
    <2> HIDE DEF T, U
    <2>1. /\ \A i \in 1..Len(p) : p[i] \in U
          /\ Len(p) \in 1..(MaxTokens + 1) /\ Len(p) <= MaxTokens
      BY <1>0, <1>4, SMT
    <2>2. (\A i \in 1..Len(p) : p[i] \in T) /\ \A i \in 1..Len(p) : p[i] # ""
      BY <1>2, <2>1
    <2>3. \A i \in 1..Len(p) : p[i] \in T
      BY <2>2
    <2>4. p \in Seq(T)
      BY <1>4, <2>3, SMT
    <2> QED  BY <1>1, <1>4, <2>1, <2>2, <2>4 DEF Patterns, PatternParses
  <1> QED  BY <1>3, <1>4

\* What Subject::parse accepts.
LEMMA SubjectFacts ==
    ASSUME NEW s
    PROVE  s \in Subjects <=> s \in Seq(Literals \cup {Foreign}) /\ Len(s) \in 1..MaxTokens
  <1> DEFINE T == Literals \cup {Foreign}
  <1>0. MaxTokens \in Nat /\ MaxTokens + 1 \in Nat
    BY MaxTokensFacts
  <1>1. s \in TokenSeqs(T, MaxTokens + 1) <=> s \in Seq(T) /\ Len(s) \in 1..(MaxTokens + 1)
    BY <1>0, TokenSeqFacts
  <1>2. \A x \in T : x \notin {"", "*", ">"}
    BY TokenFacts
  <1>3. ASSUME s \in Subjects  PROVE s \in Seq(T) /\ Len(s) \in 1..MaxTokens
    <2>1. s \in Seq(T) /\ Len(s) \in 1..(MaxTokens + 1) /\ Len(s) <= MaxTokens
      BY <1>1, <1>3 DEF Subjects, SubjectParses
    <2> QED  BY <1>0, <2>1, SMT
  <1>4. ASSUME s \in Seq(T), Len(s) \in 1..MaxTokens  PROVE s \in Subjects
    <2>1. Len(s) \in 1..(MaxTokens + 1) /\ Len(s) <= MaxTokens /\ \A i \in 1..Len(s) : s[i] \in T
      BY <1>0, <1>4, SMT
    <2> QED  BY <1>1, <1>2, <1>4, <2>1 DEF Subjects, SubjectParses
  <1> QED  BY <1>3, <1>4

\* A test that holds at n + 1 holds first somewhere up to there.
LEMMA FirstStop ==
    ASSUME NEW n \in Nat, NEW Stops \in SUBSET (1..(n + 1)), n + 1 \in Stops
    PROVE  \E i \in 1..(n + 1) : i \in Stops /\ \A j \in 1..(i - 1) : j \notin Stops
  <1>1. Stops \in SUBSET Nat /\ Stops # {}
    BY SMT
  <1>2. PICK i \in Stops : \A y \in Stops : i <= y
    BY <1>1, LeastNumber
  <1>3. i \in 1..(n + 1) /\ \A j \in 1..(i - 1) : ~ (i <= j)
    BY SMT
  <1> QED  BY <1>2, <1>3

\* SubjectPattern::matches decides what a pattern means, for patterns and subjects of any length.
LEMMA MatchesSelects ==
    ASSUME NEW p \in Patterns, NEW s \in Subjects
    PROVE  matches(p, s) <=> Selects(p, s)
  <1>1. /\ p \in Seq(Literals \cup {"*", ">"}) /\ Len(p) \in Nat \ {0}
        /\ \A i \in 1..Len(p) : p[i] = ">" => i = Len(p)
    BY PatternFacts, SMT
  <1>2. Len(s) \in Nat \ {0}
    BY SubjectFacts, SMT
  <1> DEFINE At(i) == MatchStops(p, s, i) /\ \A j \in 1..(i - 1) : ~ MatchStops(p, s, j)
             at == CHOOSE i \in 1..(Len(p) + 1) : At(i)
  <1>3. \E i \in 1..(Len(p) + 1) : At(i)
    <2> DEFINE Stops == {i \in 1..(Len(p) + 1) : MatchStops(p, s, i)}
    <2>1. Len(p) + 1 \in Stops
      BY <1>1, SMT DEF MatchStops, LoopEnds
    <2>2. Stops \in SUBSET (1..(Len(p) + 1)) /\ Len(p) \in Nat
      BY <1>1, SMT
    <2>3. PICK i \in 1..(Len(p) + 1) : i \in Stops /\ \A j \in 1..(i - 1) : j \notin Stops
      <3> HIDE DEF Stops
      <3> QED  BY <2>1, <2>2, FirstStop
    <2>4. \A j \in 1..(i - 1) : j \in 1..(Len(p) + 1)
      BY <1>1, SMT
    <2> QED  BY <2>3, <2>4
  <1>4. at \in 1..(Len(p) + 1) /\ At(at)
    BY <1>3
  <1>5. matches(p, s) <=> IF LoopEnds(p, s, at) THEN at > Len(p) /\ at > Len(s) ELSE p[at] = ">"
    BY DEF matches
  <1> HIDE DEF at
  <1>6. \A j \in 1..(at - 1) : j <= Len(p) /\ j <= Len(s) /\ p[j] # ">" /\ p[j] \in {"*", s[j]}
    <2>1. \A j \in 1..(at - 1) : ~ LoopEnds(p, s, j) /\ p[j] # ">" /\ p[j] \in {"*", s[j]}
      BY <1>4 DEF MatchStops
    <2>2. \A j \in 1..(at - 1) : ~ LoopEnds(p, s, j) => j <= Len(p) /\ j <= Len(s)
      BY <1>1, <1>2, <1>4, SMT DEF LoopEnds
    <2> QED  BY <2>1, <2>2
  <1>7. at - 1 <= Len(s)
    BY <1>2, <1>4, <1>6, SMT
  <1>8. CASE at > Len(p)
    <2>1. at = Len(p) + 1 /\ at - 1 = Len(p)
      BY <1>1, <1>4, <1>8, SMT
    <2>2. ~ HasMulti(p)
      BY <1>6, <2>1 DEF HasMulti
    <2>3. matches(p, s) <=> at > Len(s)
      BY <1>5, <1>8 DEF LoopEnds
    <2>4. at > Len(s) <=> Len(s) = Len(p)
      <3>1. Len(p) \in Nat /\ Len(s) \in Nat
        BY <1>1, <1>2
      <3> QED  BY <1>7, <2>1, <3>1, SMT
    <2> QED  BY <1>6, <2>1, <2>2, <2>3, <2>4 DEF Selects
  <1>9. CASE ~ (at > Len(p)) /\ at > Len(s)
    <2>1. ~ matches(p, s)
      BY <1>5, <1>9 DEF LoopEnds
    <2>2. ~ (Len(s) > Len(p) - 1) /\ Len(s) # Len(p)
      BY <1>1, <1>2, <1>4, <1>9, SMT
    <2> QED  BY <2>1, <2>2 DEF Selects
  <1>10. CASE ~ LoopEnds(p, s, at)
    <2>1. at \in 1..Len(p) /\ at \in 1..Len(s)
      BY <1>1, <1>2, <1>4, <1>10, SMT DEF LoopEnds
    <2>2. matches(p, s) <=> p[at] = ">"
      BY <1>5, <1>10
    <2>3. CASE p[at] = ">"
      <3>1. HasMulti(p) /\ at = Len(p)
        BY <1>1, <2>1, <2>3 DEF HasMulti
      <3>2. Len(s) > Len(p) - 1
        BY <1>1, <1>2, <2>1, <3>1, SMT
      <3> QED  BY <1>6, <2>2, <2>3, <3>1, <3>2 DEF Selects
    <2>4. CASE p[at] # ">"
      <3>1. p[at] \notin {"*", s[at]}
        BY <1>4, <1>10, <2>4 DEF MatchStops
      <3>2. HasMulti(p) => at # Len(p)
        BY <1>1, <2>4 DEF HasMulti
      <3>3. at # Len(p) => at \in 1..(Len(p) - 1)
        BY <1>1, <2>1, SMT
      <3> QED  BY <2>1, <2>2, <2>4, <3>1, <3>2, <3>3 DEF Selects
    <2> QED  BY <2>3, <2>4
  <1> QED  BY <1>8, <1>9, <1>10 DEF LoopEnds

-----------------------------------------------------------------------------
(* is_pattern_covered *)

\* One turn of the loop goes on only from a token that "*" or itself stands for.
LEMMA CoverStepFacts ==
    ASSUME NEW a, NEW r
    PROVE  /\ CoverStep(a, r) = "advance" <=> a # ">" /\ r # ">" /\ a \in {"*", r}
           /\ CoverStep(a, r) = "covered" <=> a = ">"
  <1>1. "advance" # "covered" /\ "advance" # "refused" /\ "covered" # "refused" /\ "*" # ">"
    OBVIOUS
  <1>2. CASE a = ">"
    BY <1>1, <1>2 DEF CoverStep
  <1>3. CASE a = "*"
    <2>1. CoverStep(a, r) = IF r = ">" THEN "refused" ELSE "advance"
      BY <1>1, <1>3, SMT DEF CoverStep
    <2> QED  BY <1>1, <1>3, <2>1
  <1>4. CASE a # ">" /\ a # "*"
    <2>1. CoverStep(a, r) = IF a = r THEN "advance" ELSE "refused"
      BY <1>1, <1>4, SMT DEF CoverStep
    <2> QED  BY <1>1, <1>4, <2>1
  <1> QED  BY <1>2, <1>3, <1>4

\* The loop of is_pattern_covered runs up to position at and what it returns is decided there.
CoverEndsAt(req, all, at) ==
    /\ \A j \in 1..(at - 1) : /\ j \in 1..Len(all) /\ j \in 1..Len(req)
                              /\ all[j] # ">" /\ req[j] # ">" /\ all[j] \in {"*", req[j]}
    /\ LoopEnds(all, req, at) => (is_pattern_covered(req, all) <=> at > Len(all) /\ at > Len(req))
    /\ ~ LoopEnds(all, req, at) => /\ is_pattern_covered(req, all) <=> all[at] = ">"
                                   /\ all[at] = ">" \/ req[at] = ">" \/ all[at] \notin {"*", req[at]}

\* There is such a position.
LEMMA CoverEnds ==
    ASSUME NEW req \in Patterns, NEW all \in Patterns
    PROVE  \E at \in 1..(Len(all) + 1) : CoverEndsAt(req, all, at)
  <1>1. Len(all) \in Nat \ {0} /\ Len(req) \in Nat \ {0} /\ Len(all) \in Nat /\ Len(req) \in Nat
    BY PatternFacts, SMT
  <1> DEFINE At(i) == CoverStops(req, all, i) /\ \A j \in 1..(i - 1) : ~ CoverStops(req, all, j)
             at == CHOOSE i \in 1..(Len(all) + 1) : At(i)
  <1>2. \E i \in 1..(Len(all) + 1) : At(i)
    <2> DEFINE Stops == {i \in 1..(Len(all) + 1) : CoverStops(req, all, i)}
    <2>1. Len(all) + 1 \in Stops
      BY <1>1, SMT DEF CoverStops, LoopEnds
    <2>2. Stops \in SUBSET (1..(Len(all) + 1))
      OBVIOUS
    <2>3. PICK i \in 1..(Len(all) + 1) : i \in Stops /\ \A j \in 1..(i - 1) : j \notin Stops
      <3> HIDE DEF Stops
      <3> QED  BY <1>1, <2>1, <2>2, FirstStop
    <2>4. \A j \in 1..(i - 1) : j \in 1..(Len(all) + 1)
      BY <1>1, SMT
    <2> QED  BY <2>3, <2>4
  <1>3. at \in 1..(Len(all) + 1) /\ At(at)
    BY <1>2
  <1>4. is_pattern_covered(req, all) <=>
          IF LoopEnds(all, req, at) THEN at > Len(all) /\ at > Len(req)
          ELSE CoverStep(all[at], req[at]) = "covered"
    BY DEF is_pattern_covered
  <1> HIDE DEF at
  <1>5. ASSUME NEW j \in 1..(at - 1)
        PROVE  /\ j \in 1..Len(all) /\ j \in 1..Len(req)
               /\ all[j] # ">" /\ req[j] # ">" /\ all[j] \in {"*", req[j]}
    <2>1. ~ LoopEnds(all, req, j) /\ CoverStep(all[j], req[j]) = "advance"
      BY <1>3 DEF CoverStops
    <2>2. j \in 1..Len(all) /\ j \in 1..Len(req)
      <3>1. ~ (j > Len(all)) /\ ~ (j > Len(req))
        BY <2>1 DEF LoopEnds
      <3> QED  BY <1>1, <1>3, <3>1, SMT
    <2> QED  BY <2>1, <2>2, CoverStepFacts
  <1>6. ASSUME ~ LoopEnds(all, req, at)
        PROVE  /\ is_pattern_covered(req, all) <=> all[at] = ">"
               /\ all[at] = ">" \/ req[at] = ">" \/ all[at] \notin {"*", req[at]}
    <2>1. CoverStep(all[at], req[at]) # "advance"
      BY <1>3, <1>6 DEF CoverStops
    <2> QED  BY <1>4, <1>6, <2>1, CoverStepFacts
  <1> QED  BY <1>3, <1>4, <1>5, <1>6 DEF CoverEndsAt

\* The number of tokens a pattern fixes, and which of its positions they are.
Fixed(p) == IF HasMulti(p) THEN Len(p) - 1 ELSE Len(p)

LEMMA FixedFacts ==
    ASSUME NEW p \in Patterns
    PROVE  /\ Fixed(p) \in Nat /\ Len(p) \in Nat \ {0} /\ Fixed(p) <= Len(p)
           /\ \A i \in 1..Len(p) : p[i] # ">" <=> i \in 1..Fixed(p)
           /\ \A i \in 1..Fixed(p) : i \in 1..Len(p)
           /\ HasMulti(p) => Fixed(p) = Len(p) - 1 /\ p[Len(p)] = ">"
           /\ ~ HasMulti(p) => Fixed(p) = Len(p)
           /\ \A s : Selects(p, s) <=> /\ HasMulti(p) => Len(s) > Fixed(p)
                                       /\ ~ HasMulti(p) => Len(s) = Fixed(p)
                                       /\ \A i \in 1..Fixed(p) : p[i] \in {"*", s[i]}
  <1>1. Len(p) \in Nat \ {0} /\ \A i \in 1..Len(p) : p[i] = ">" => i = Len(p)
    BY PatternFacts, SMT
  <1>2. \A s : Selects(p, s) <=> /\ HasMulti(p) => Len(s) > Fixed(p)
                                 /\ ~ HasMulti(p) => Len(s) = Fixed(p)
                                 /\ \A i \in 1..Fixed(p) : p[i] \in {"*", s[i]}
    BY DEF Selects, Fixed
  <1>3. CASE HasMulti(p)
    <2>1. PICK k \in 1..Len(p) : p[k] = ">"
      BY <1>3 DEF HasMulti
    <2>2. Fixed(p) = Len(p) - 1 /\ p[Len(p)] = ">"
      BY <1>1, <1>3, <2>1 DEF Fixed
    <2>3. /\ Len(p) - 1 \in Nat /\ Len(p) - 1 <= Len(p)
          /\ \A i \in 1..Len(p) : i # Len(p) <=> i \in 1..(Len(p) - 1)
          /\ \A i \in 1..(Len(p) - 1) : i \in 1..Len(p)
      <3>1. Len(p) \in Nat \ {0}
        BY <1>1
      <3> QED  BY <3>1, SMT
    <2>4. \A i \in 1..Len(p) : p[i] # ">" <=> i # Len(p)
      BY <1>1, <2>2
    <2> QED  BY <1>1, <1>2, <1>3, <2>2, <2>3, <2>4
  <1>4. CASE ~ HasMulti(p)
    <2>1. Fixed(p) = Len(p) /\ \A i \in 1..Len(p) : p[i] # ">"
      BY <1>4 DEF Fixed, HasMulti
    <2>2. Len(p) \in Nat /\ Len(p) <= Len(p)
      BY <1>1, SMT
    <2> QED  BY <1>1, <1>2, <1>4, <2>1, <2>2
  <1> QED  BY <1>3, <1>4

\* "A requested pattern is covered if every subject it can match is also matched by the allowed
\* pattern" (auth.rs), one way: what is_pattern_covered lets through is covered.
LEMMA CoverSound ==
    ASSUME NEW req \in Patterns, NEW all \in Patterns, NEW s \in Subjects,
           is_pattern_covered(req, all), Selects(req, s)
    PROVE  Selects(all, s)
  <1>0. PICK at \in 1..(Len(all) + 1) : CoverEndsAt(req, all, at)
    BY CoverEnds
  <1>1. /\ \A j \in 1..(at - 1) : /\ j \in 1..Len(all) /\ j \in 1..Len(req)
                                  /\ all[j] # ">" /\ req[j] # ">" /\ all[j] \in {"*", req[j]}
        /\ LoopEnds(all, req, at) => at > Len(all) /\ at > Len(req)
        /\ ~ LoopEnds(all, req, at) => all[at] = ">"
    BY <1>0 DEF CoverEndsAt
  <1>2. /\ Len(all) \in Nat /\ Len(req) \in Nat /\ Len(s) \in Nat /\ Len(all) # 0
        /\ Fixed(req) \in Nat /\ Fixed(all) \in Nat
    BY FixedFacts, SubjectFacts, SMT
  <1>3. \A j \in 1..(at - 1) : j \in 1..Fixed(req)
    BY <1>1, FixedFacts
  <1>4. \A j \in 1..(at - 1) : all[j] \in {"*", s[j]}
    BY <1>1, <1>3, FixedFacts
  <1>5. CASE LoopEnds(all, req, at)
    <2>1. at > Len(all) /\ at > Len(req)
      BY <1>1, <1>5
    <2>2. at = Len(all) + 1 /\ at - 1 = Len(all)
      BY <1>2, <2>1, SMT
    <2>3. ~ HasMulti(all)
      BY <1>1, <2>2 DEF HasMulti
    <2>4. Len(req) = Len(all)
      <3>1. Len(all) \in 1..(at - 1)
        BY <1>2, <2>2, SMT
      <3>2. Len(all) \in 1..Len(req)
        BY <1>1, <3>1
      <3> QED  BY <1>2, <2>1, <2>2, <3>2, SMT
    <2>5. ~ HasMulti(req)
      BY <1>1, <2>2, <2>4 DEF HasMulti
    <2> QED  BY <1>4, <2>2, <2>3, <2>4, <2>5, FixedFacts
  <1>6. CASE ~ LoopEnds(all, req, at)
    <2>1. all[at] = ">" /\ ~ (at > Len(all)) /\ ~ (at > Len(req))
      BY <1>1, <1>6 DEF LoopEnds
    <2>2. at \in 1..Len(all) /\ at \in 1..Len(req)
      BY <1>2, <2>1, SMT
    <2>3. HasMulti(all) /\ at = Len(all)
      BY <2>1, <2>2, PatternFacts DEF HasMulti
    <2>4. Fixed(all) = at - 1
      BY <2>3, FixedFacts
    <2>5. Len(s) > Fixed(all)
      <3>1. (Len(s) > Fixed(req) /\ Fixed(req) = Len(req) - 1) \/ Len(s) = Len(req)
        BY FixedFacts
      <3> QED  BY <1>2, <2>2, <2>4, <3>1, SMT
    <2> QED  BY <1>4, <2>3, <2>4, <2>5, FixedFacts
  <1> QED  BY <1>5, <1>6

\* A subject of n tokens that a pattern selects and that owes nothing to chance: a token no pattern
\* names wherever the pattern leaves the token open.
Instance(p, n) == [i \in 1..n |-> IF i \in 1..Len(p) /\ p[i] \in Literals THEN p[i] ELSE Foreign]

LEMMA InstanceFacts ==
    ASSUME NEW p \in Patterns, NEW n \in 1..MaxTokens,
           HasMulti(p) => n > Fixed(p), ~ HasMulti(p) => n = Fixed(p)
    PROVE  /\ Instance(p, n) \in Subjects /\ Len(Instance(p, n)) = n /\ Selects(p, Instance(p, n))
           /\ \A i \in 1..n : Instance(p, n)[i] # p[i] => Instance(p, n)[i] = Foreign
  <1> DEFINE s == Instance(p, n)
  <1>1. \A i \in 1..n : s[i] = IF i \in 1..Len(p) /\ p[i] \in Literals THEN p[i] ELSE Foreign
    BY DEF Instance
  <1>2. n \in Nat
    BY MaxTokensFacts, SMT
  <1>3. s \in [1..n -> Literals \cup {Foreign}]
    BY DEF Instance
  <1> HIDE DEF s
  <1>4. s \in Seq(Literals \cup {Foreign}) /\ Len(s) = n
    BY <1>2, <1>3, SMT
  <1>5. s \in Subjects
    BY <1>4, SubjectFacts
  <1>6. ASSUME NEW i \in 1..Fixed(p)  PROVE p[i] \in {"*", s[i]}
    <2>1. i \in 1..Len(p) /\ p[i] # ">"
      BY FixedFacts
    <2>2. p[i] \in Literals \cup {"*", ">"}
      BY <2>1, PatternFacts, SMT
    <2>3. Fixed(p) \in Nat /\ i \in 1..n
      <3>1. Fixed(p) \in Nat /\ (n > Fixed(p) \/ n = Fixed(p))
        BY FixedFacts
      <3> QED  BY <1>2, <3>1, SMT
    <2> QED  BY <1>1, <2>1, <2>2, <2>3
  <1>7. Selects(p, s)
    BY <1>4, <1>6, FixedFacts
  <1> QED  BY <1>1, <1>4, <1>5, <1>7 DEF s

\* The other way: what is_pattern_covered denies matches a subject that the allowed pattern does
\* not.  A requested pattern of MAX_TOKENS tokens is set aside.
LEMMA CoverComplete ==
    ASSUME NEW req \in Patterns, NEW all \in Patterns,
           ~ is_pattern_covered(req, all), Len(req) < MaxTokens
    PROVE  \E s \in Subjects : Selects(req, s) /\ ~ Selects(all, s)
  <1>0. PICK at \in 1..(Len(all) + 1) : CoverEndsAt(req, all, at)
    BY CoverEnds
  <1>1. /\ \A j \in 1..(at - 1) : /\ j \in 1..Len(all) /\ j \in 1..Len(req)
                                  /\ all[j] # ">" /\ req[j] # ">" /\ all[j] \in {"*", req[j]}
        /\ LoopEnds(all, req, at) => ~ (at > Len(all) /\ at > Len(req))
        /\ ~ LoopEnds(all, req, at) =>
             all[at] # ">" /\ (req[at] = ">" \/ all[at] \notin {"*", req[at]})
    BY <1>0 DEF CoverEndsAt
  <1>2. /\ Len(all) \in Nat /\ Len(req) \in Nat /\ Len(all) # 0 /\ Len(req) # 0
        /\ Fixed(req) \in Nat /\ Fixed(all) \in Nat /\ MaxTokens \in Nat
        /\ Len(req) + 1 \in 1..MaxTokens /\ Len(req) \in 1..MaxTokens
    BY FixedFacts, MaxTokensFacts, SMT
  <1>3. HasMulti(req) => Fixed(req) = Len(req) - 1
    BY FixedFacts
  <1>4. HasMulti(req) => Len(req) + 1 > Fixed(req) /\ Len(req) > Fixed(req)
    BY <1>2, <1>3, SMT
  <1>5. ~ HasMulti(req) => Len(req) = Fixed(req)
    BY FixedFacts
  <1> DEFINE s == Instance(req, Len(req))
             t == Instance(req, Len(req) + 1)
  <1>6. /\ s \in Subjects /\ Len(s) = Len(req) /\ Selects(req, s)
        /\ \A i \in 1..Len(req) : s[i] # req[i] => s[i] = Foreign
    BY <1>2, <1>4, <1>5, InstanceFacts
  <1>7. HasMulti(req) => t \in Subjects /\ Len(t) = Len(req) + 1 /\ Selects(req, t)
    BY <1>2, <1>4, InstanceFacts
  <1> HIDE DEF s, t
  <1>8. Selects(all, s) => /\ HasMulti(all) => Len(req) > Fixed(all) /\ Fixed(all) = Len(all) - 1
                           /\ ~ HasMulti(all) => Len(req) = Len(all)
                           /\ \A i \in 1..Fixed(all) : all[i] \in {"*", s[i]}
    BY <1>6, FixedFacts
  <1>9. CASE at > Len(all)
    <2>1. ~ (at > Len(req)) /\ at - 1 = Len(all)
      <3>1. ~ (at > Len(req))
        BY <1>1, <1>9 DEF LoopEnds
      <3> QED  BY <1>2, <1>9, <3>1, SMT
    <2>2. ~ HasMulti(all)
      BY <1>1, <2>1 DEF HasMulti
    <2>3. Len(req) # Len(all)
      BY <1>2, <1>9, <2>1, SMT
    <2> QED  BY <1>6, <1>8, <2>2, <2>3
  <1>10. CASE ~ (at > Len(all)) /\ at > Len(req)
    <2>1. Len(req) < Len(all)
      BY <1>2, <1>10, SMT
    <2>2. ~ (Len(req) > Len(all) - 1) /\ Len(req) # Len(all)
      BY <1>2, <2>1, SMT
    <2> QED  BY <1>6, <1>8, <2>2
  <1>11. CASE ~ (at > Len(all)) /\ ~ (at > Len(req))
    <2>1. at \in 1..Len(all) /\ at \in 1..Len(req)
      BY <1>2, <1>11, SMT
    <2>2. all[at] # ">" /\ (req[at] = ">" \/ all[at] \notin {"*", req[at]})
      BY <1>1, <1>11 DEF LoopEnds
    <2>3. at \in 1..Fixed(all) /\ all[at] \in Literals \cup {"*", ">"}
      <3>1. all[at] \in Literals \cup {"*", ">"}
        BY <2>1, PatternFacts, SMT
      <3> QED  BY <2>1, <2>2, <3>1, FixedFacts
    <2>4. CASE all[at] # "*"
      <3>1. all[at] # req[at] /\ all[at] \in Literals
        BY <2>2, <2>3, <2>4
      <3>2. all[at] # s[at]
        BY <1>6, <2>1, <3>1, TokenFacts
      <3> QED  BY <1>6, <1>8, <2>3, <2>4, <3>2
    <2>5. CASE all[at] = "*"
      <3>1. req[at] = ">"
        BY <2>2, <2>5
      <3>2. HasMulti(req) /\ at = Len(req)
        BY <2>1, <3>1, PatternFacts DEF HasMulti
      <3>3. CASE HasMulti(all)
        <4>1. Fixed(all) = Len(all) - 1
          BY <3>3, FixedFacts
        <4>2. ~ (Len(req) > Fixed(all))
          BY <1>2, <2>3, <3>2, <4>1, SMT
        <4> QED  BY <1>6, <1>8, <3>3, <4>2
      <3>4. CASE ~ HasMulti(all) /\ Len(req) # Len(all)
        BY <1>6, <1>8, <3>4
      <3>5. CASE ~ HasMulti(all) /\ Len(req) = Len(all)
        <4>1. Len(t) # Len(all) /\ Fixed(all) = Len(all)
          <5>1. Len(t) = Len(req) + 1 /\ Fixed(all) = Len(all)
            BY <1>7, <3>2, <3>5, FixedFacts
          <5> QED  BY <1>2, <3>5, <5>1, SMT
        <4>2. ~ Selects(all, t)
          BY <3>5, <4>1, FixedFacts
        <4> QED  BY <1>7, <3>2, <4>2
      <3> QED  BY <3>3, <3>4, <3>5
    <2> QED  BY <2>4, <2>5
  <1> QED  BY <1>9, <1>10, <1>11

-----------------------------------------------------------------------------
(* Lists of subscription ids *)

\* The members of a list.
LEMMA RangeFacts ==
    ASSUME NEW S, NEW q \in Seq(S)
    PROVE  /\ \A x : x \in Range(q) <=> \E i \in 1..Len(q) : q[i] = x
           /\ Range(q) \subseteq S
           /\ IsInjective(q) <=> \A i, j \in 1..Len(q) : q[i] = q[j] => i = j
  <1>1. DOMAIN q = 1..Len(q) /\ \A i \in 1..Len(q) : q[i] \in S
    BY SMT
  <1> QED  BY <1>1 DEF Range, IsInjective

\* The empty list.
LEMMA EmptyFacts ==
    ASSUME NEW S
    PROVE  << >> \in Seq(S) /\ Range(<< >>) = {} /\ IsInjective(<< >>)
  <1>1. << >> \in Seq(S) /\ Len(<< >>) = 0 /\ \A i \in 1..0 : FALSE
    BY SMT
  <1> QED  BY <1>1, RangeFacts, ZenonT(40)

\* Vec::push: one member more, and still no member twice if it is a new one.
LEMMA AppendFacts ==
    ASSUME NEW S, NEW q \in Seq(S), NEW x \in S
    PROVE  /\ Append(q, x) \in Seq(S) /\ Len(Append(q, x)) = Len(q) + 1
           /\ Range(Append(q, x)) = Range(q) \cup {x}
           /\ IsInjective(q) /\ x \notin Range(q) => IsInjective(Append(q, x))
  <1> DEFINE r == Append(q, x)
             n == Len(q)
  <1>1. /\ r \in Seq(S) /\ Len(r) = n + 1 /\ n \in Nat /\ r[n + 1] = x
        /\ \A i \in 1..n : r[i] = q[i]
    BY SMT
  <1> HIDE DEF r, n
  <1>2. \A i : i \in 1..(n + 1) <=> i \in 1..n \/ i = n + 1
    BY <1>1, SMT
  <1>3. n + 1 \in 1..(n + 1)
    BY <1>1, SMT
  <1>4. \A y : y \in Range(q) <=> \E i \in 1..n : q[i] = y
    BY RangeFacts DEF n
  <1>5. \A y : y \in Range(r) <=> \E i \in 1..(n + 1) : r[i] = y
    <2>1. \A y : y \in Range(r) <=> \E i \in 1..Len(r) : r[i] = y
      BY <1>1, RangeFacts
    <2> QED  BY <1>1, <2>1
  <1>6. Range(r) = Range(q) \cup {x}
    BY <1>1, <1>2, <1>3, <1>4, <1>5
  <1>7. ASSUME IsInjective(q), x \notin Range(q)  PROVE IsInjective(r)
    <2>1. \A i, j \in 1..n : q[i] = q[j] => i = j
      BY <1>7, RangeFacts DEF n
    <2>2. \A i \in 1..n : q[i] # x
      BY <1>4, <1>7
    <2>3. \A i, j \in 1..(n + 1) : r[i] = r[j] => i = j
      BY <1>1, <1>2, <2>1, <2>2
    <2> QED  BY <1>1, <2>3, RangeFacts
  <1> QED  BY <1>1, <1>6, <1>7 DEF r, n

\* Vec::extend: the members of both, and no member twice if the two have none in common.
LEMMA ConcatFacts ==
    ASSUME NEW S, NEW p \in Seq(S), NEW q \in Seq(S)
    PROVE  /\ p \o q \in Seq(S)
           /\ Range(p \o q) = Range(p) \cup Range(q)
           /\ IsInjective(p) /\ IsInjective(q) /\ Range(p) \cap Range(q) = {} => IsInjective(p \o q)
  <1> DEFINE r == p \o q
             n == Len(p)
             m == Len(q)
  <1>1. /\ r \in Seq(S) /\ Len(r) = n + m /\ n \in Nat /\ m \in Nat
        /\ \A i \in 1..(n + m) : r[i] = IF i <= n THEN p[i] ELSE q[i - n]
    BY SMT
  <1>2. /\ \A y : y \in Range(p) <=> \E i \in 1..n : p[i] = y
        /\ \A y : y \in Range(q) <=> \E i \in 1..m : q[i] = y
    BY RangeFacts
  <1> HIDE DEF r, n, m
  <1>3. \A y : y \in Range(r) <=> \E i \in 1..(n + m) : r[i] = y
    <2>1. \A y : y \in Range(r) <=> \E i \in 1..Len(r) : r[i] = y
      BY <1>1, RangeFacts
    <2> QED  BY <1>1, <2>1
  <1>4. \A i \in 1..n : i \in 1..(n + m) /\ i <= n
    BY <1>1, SMT
  <1>5. \A i \in 1..m : n + i \in 1..(n + m) /\ ~ (n + i <= n) /\ (n + i) - n = i
    BY <1>1, SMT
  <1>6. \A i \in 1..(n + m) : (i <= n => i \in 1..n) /\ (~ (i <= n) => i - n \in 1..m)
    BY <1>1, SMT
  <1>7. (\A i \in 1..n : r[i] = p[i]) /\ \A i \in 1..m : r[n + i] = q[i]
    BY <1>1, <1>4, <1>5
  <1>8. Range(r) = Range(p) \cup Range(q)
    <2>1. \A y \in Range(p) \cup Range(q) : y \in Range(r)
      <3>1. \A y \in Range(p) : y \in Range(r)
        BY <1>2, <1>3, <1>4, <1>7
      <3>2. \A i \in 1..m : q[i] \in Range(r)
        BY <1>3, <1>5, <1>7
      <3>3. \A y \in Range(q) : y \in Range(r)
        BY <1>2, <3>2
      <3> QED  BY <3>1, <3>3
    <2>2. \A y \in Range(r) : y \in Range(p) \cup Range(q)
      BY <1>1, <1>2, <1>3, <1>6
    <2> QED  BY <2>1, <2>2
  <1>9. ASSUME IsInjective(p), IsInjective(q), Range(p) \cap Range(q) = {}  PROVE IsInjective(r)
    <2>1. /\ \A i, j \in 1..n : p[i] = p[j] => i = j
          /\ \A i, j \in 1..m : q[i] = q[j] => i = j
      BY <1>9, RangeFacts DEF n, m
    <2>2. ASSUME NEW i \in 1..(n + m), NEW j \in 1..(n + m), r[i] = r[j]  PROVE i = j
      <3>1. CASE i <= n /\ j <= n
        BY <1>1, <1>6, <2>1, <2>2, <3>1
      <3>2. CASE ~ (i <= n) /\ ~ (j <= n)
        <4>1. i - n = j - n
          BY <1>1, <1>6, <2>1, <2>2, <3>2
        <4> QED  BY <1>1, <4>1, SMT
      <3>3. CASE i <= n /\ ~ (j <= n)
        BY <1>1, <1>2, <1>6, <1>9, <2>2, <3>3
      <3>4. CASE ~ (i <= n) /\ j <= n
        BY <1>1, <1>2, <1>6, <1>9, <2>2, <3>4
      <3> QED  BY <3>1, <3>2, <3>3, <3>4
    <2> QED  BY <1>1, <2>2, RangeFacts
  <1> QED  BY <1>1, <1>8, <1>9 DEF r

\* f holds what is kept of each of the first n members of a list.
IsKept(f, n, ids, id) ==
    f[0] = << >> /\ \A i \in 1..n : f[i] = IF ids[i] = id THEN f[i - 1] ELSE Append(f[i - 1], ids[i])

\* There is such a function for every n.
LEMMA KeptExists ==
    ASSUME NEW S, NEW ids \in Seq(S), NEW id
    PROVE  \E f \in [0..Len(ids) -> Seq(S)] : IsKept(f, Len(ids), ids, id)
  <1> DEFINE n == Len(ids)
             Bad == {m \in 0..n : ~ \E f \in [0..m -> Seq(S)] : IsKept(f, m, ids, id)}
  <1>0. n \in Nat /\ n \in 0..n
    BY SMT
  <1>1. SUFFICES ASSUME Bad # {}  PROVE FALSE
    BY <1>0
  <1>2. PICK m \in Bad : \A k \in Bad : m <= k
    <2>1. Bad \in SUBSET Nat
      BY <1>0, SMT
    <2> HIDE DEF Bad
    <2> QED  BY <1>1, <2>1, LeastNumber
  <1>3. m \in 0..n /\ ~ \E f \in [0..m -> Seq(S)] : IsKept(f, m, ids, id)
    BY <1>2
  <1>4. CASE m = 0
    <2> DEFINE g == [i \in 0..0 |-> << >>]
    <2>1. g \in [0..m -> Seq(S)] /\ IsKept(g, m, ids, id)
      BY <1>4, SMT DEF IsKept
    <2> QED  BY <1>3, <2>1
  <1>5. CASE m # 0
    <2>1. m - 1 \in 0..n /\ m \in 1..n /\ ~ (m <= m - 1) /\ m - 1 \in 0..(m - 1) /\ m \in 0..m /\ m \in Nat
          /\ 0 \in 0..(m - 1) /\ 0 \in 0..m
      BY <1>0, <1>3, <1>5, SMT
    <2>2. PICK f \in [0..(m - 1) -> Seq(S)] : IsKept(f, m - 1, ids, id)
      BY <1>2, <2>1
    <2> DEFINE x == IF ids[m] = id THEN f[m - 1] ELSE Append(f[m - 1], ids[m])
               g == [i \in 0..m |-> IF i = m THEN x ELSE f[i]]
    <2>3. x \in Seq(S)
      <3>1. f[m - 1] \in Seq(S) /\ ids[m] \in S
        BY <2>1, SMT
      <3> QED  BY <3>1, SMT
    <2> HIDE DEF x
    <2>4. \A i \in 0..m : i # m => i \in 0..(m - 1)
      BY <2>1, SMT
    <2>5. g \in [0..m -> Seq(S)] /\ g[m] = x /\ \A i \in 0..(m - 1) : g[i] = f[i]
      <3>1. \A i \in 0..(m - 1) : i \in 0..m /\ i # m
        BY <2>1, SMT
      <3> QED  BY <2>1, <2>3, <2>4, <3>1
    <2> HIDE DEF g
    <2>6. g[0] = << >>
      BY <2>1, <2>2, <2>5 DEF IsKept
    <2>7. ASSUME NEW i \in 1..m
          PROVE  g[i] = IF ids[i] = id THEN g[i - 1] ELSE Append(g[i - 1], ids[i])
      <3>1. CASE i = m
        <4>1. g[i - 1] = f[m - 1] /\ g[i] = x
          BY <2>1, <2>5, <3>1
        <4> QED  BY <3>1, <4>1 DEF x
      <3>2. CASE i # m
        <4>1. i \in 1..(m - 1) /\ i \in 0..(m - 1) /\ i - 1 \in 0..(m - 1)
          BY <2>1, <3>2, SMT
        <4> QED  BY <2>2, <2>5, <4>1 DEF IsKept
      <3> QED  BY <3>1, <3>2
    <2>8. IsKept(g, m, ids, id)
      BY <2>6, <2>7 DEF IsKept
    <2> QED  BY <1>3, <2>5, <2>8
  <1> QED  BY <1>4, <1>5

\* Vec::retain, of all but one id, from a list that holds no id twice: that id is gone, and nothing
\* else, and the list is shorter just when it held the id.
LEMMA WithoutFacts ==
    ASSUME NEW S, NEW ids \in Seq(S), NEW id, IsInjective(ids)
    PROVE  /\ Without(ids, id) \in Seq(S) /\ IsInjective(Without(ids, id))
           /\ Range(Without(ids, id)) = Range(ids) \ {id}
           /\ Len(Without(ids, id)) < Len(ids) <=> id \in Range(ids)
  <1> DEFINE n == Len(ids)
             Step(g) == [i \in 0..n |-> IF i = 0 THEN << >>
                                        ELSE IF ids[i] = id THEN g[i - 1] ELSE Append(g[i - 1], ids[i])]
             K == CHOOSE g : g = Step(g)
  <1>0. n \in Nat /\ n \in 0..n /\ 0 \in 0..n /\ \A i \in 1..n : i \in 0..n /\ i # 0 /\ i - 1 \in 0..n
    BY SMT
  <1>1. Without(ids, id) = K[n]
    BY DEF Without
  <1>2. PICK f \in [0..n -> Seq(S)] : IsKept(f, n, ids, id)
    BY KeptExists
  <1>3. f = Step(f)
    <2>1. \A i \in 0..n : i # 0 => i \in 1..n
      BY <1>0, SMT
    <2>2. \A i \in 0..n : f[i] = Step(f)[i]
      BY <1>2, <2>1 DEF IsKept
    <2> QED  BY <2>2, SMT
  <1>4. K = Step(K)
    BY <1>3
  <1>5. IsKept(K, n, ids, id)
    <2>1. \A i \in 0..n : K[i] = IF i = 0 THEN << >>
                                 ELSE IF ids[i] = id THEN K[i - 1] ELSE Append(K[i - 1], ids[i])
      BY <1>4
    <2> HIDE DEF K
    <2> QED  BY <1>0, <2>1 DEF IsKept
  <1> HIDE DEF K, n
  <1> DEFINE OK(i) == /\ K[i] \in Seq(S) /\ IsInjective(K[i]) /\ Len(K[i]) <= i
                      /\ \A x : x \in Range(K[i]) <=> x # id /\ \E j \in 1..i : ids[j] = x
                      /\ Len(K[i]) < i <=> \E j \in 1..i : ids[j] = id
             Bad == {i \in 0..n : ~ OK(i)}
  <1>6. \A i, j \in 1..n : ids[i] = ids[j] => i = j
    BY RangeFacts DEF n
  <1>7. \A i \in 1..n : ids[i] \in S
    BY SMT DEF n
  <1>8. ASSUME NEW i \in 1..n, OK(i - 1)  PROVE OK(i)
    <2> DEFINE q == K[i - 1]
    <2>0. i \in Nat /\ i - 1 \in Nat /\ i \in 1..i /\ \A j : j \in 1..i <=> j \in 1..(i - 1) \/ j = i
      BY <1>0, SMT
    <2>1. /\ q \in Seq(S) /\ IsInjective(q) /\ Len(q) <= i - 1
          /\ \A x : x \in Range(q) <=> x # id /\ \E j \in 1..(i - 1) : ids[j] = x
          /\ Len(q) < i - 1 <=> \E j \in 1..(i - 1) : ids[j] = id
      BY <1>8
    <2>2. K[i] = IF ids[i] = id THEN q ELSE Append(q, ids[i])
      BY <1>5 DEF IsKept
    <2>3. Len(q) \in Nat
      BY <2>1, SMT
    <2> HIDE DEF q
    <2>4. CASE ids[i] = id
      <3>1. K[i] = q
        BY <2>2, <2>4
      <3>2. Len(q) <= i /\ Len(q) < i
        BY <2>0, <2>1, <2>3, SMT
      <3>3. \A x : x \in Range(q) <=> x # id /\ \E j \in 1..i : ids[j] = x
        BY <2>0, <2>1, <2>4
      <3> QED  BY <2>0, <2>1, <2>4, <3>1, <3>2, <3>3
    <2>5. CASE ids[i] # id
      <3> DEFINE r == Append(q, ids[i])
      <3>1. K[i] = r
        BY <2>2, <2>5
      <3>2. \A j \in 1..(i - 1) : j \in 1..n /\ j # i
        BY <1>0, SMT
      <3>3. ids[i] \notin Range(q)
        BY <1>6, <2>1, <3>2
      <3>4. r \in Seq(S) /\ Len(r) = Len(q) + 1 /\ Range(r) = Range(q) \cup {ids[i]} /\ IsInjective(r)
        <4>1. ids[i] \in S
          BY <1>7
        <4>2. q \in Seq(S) /\ IsInjective(q)
          BY <2>1
        <4> HIDE DEF OK, Bad
        <4> QED  BY <3>3, <4>1, <4>2, AppendFacts, SMT
      <3> HIDE DEF r
      <3>5. Len(r) <= i /\ (Len(r) < i <=> Len(q) < i - 1)
        BY <2>0, <2>1, <2>3, <3>4, SMT
      <3>6. \A x : x \in Range(r) <=> x # id /\ \E j \in 1..i : ids[j] = x
        BY <2>0, <2>1, <2>5, <3>4
      <3>7. Len(r) < i <=> \E j \in 1..i : ids[j] = id
        BY <2>0, <2>1, <2>5, <3>5
      <3> QED  BY <3>1, <3>4, <3>5, <3>6, <3>7
    <2> QED  BY <2>4, <2>5
  <1>9. OK(0)
    <2>1. K[0] = << >>
      BY <1>5 DEF IsKept
    <2>2. Len(<< >>) <= 0 /\ ~ (Len(<< >>) < 0) /\ \A j \in 1..0 : FALSE
      BY SMT
    <2> QED  BY <2>1, <2>2, EmptyFacts
  <1>10. OK(n)
    <2>1. SUFFICES ASSUME Bad # {}  PROVE FALSE
      BY <1>0
    <2>2. Bad \in SUBSET Nat
      <3>1. \A i \in 0..n : i \in Nat
        BY <1>0, SMT
      <3> QED  BY <3>1
    <2>3. PICK i \in Bad : \A k \in Bad : i <= k
      <3> HIDE DEF Bad
      <3> QED  BY <2>1, <2>2, LeastNumber
    <2>4. i \in 0..n /\ ~ OK(i)
      BY <2>3
    <2>5. i # 0
      BY <1>9, <2>4
    <2>6. i \in 1..n /\ i - 1 \in 0..n /\ ~ (i <= i - 1)
      <3> HIDE DEF OK
      <3> QED  BY <1>0, <2>4, <2>5, SMT
    <2>7. OK(i - 1)
      BY <2>3, <2>6
    <2> HIDE DEF OK
    <2> QED  BY <1>8, <2>4, <2>6, <2>7
  <1>11. \A x : x \in Range(ids) <=> \E j \in 1..n : ids[j] = x
    BY RangeFacts DEF n
  <1>12. Range(K[n]) = Range(ids) \ {id}
    BY <1>10, <1>11
  <1> QED  BY <1>1, <1>10, <1>11, <1>12 DEF n

-----------------------------------------------------------------------------
(* The trie and the walk over it *)

\* The subscriptions a list of the engine is to hold: by the node where the walk of insert ends,
\* those with a last ">" and the other wildcards.
MultiAt(n) == {id \in SubIds : live[id] # NoPattern /\ HasMulti(live[id]) /\ WalkEnds(live[id]) = n}
StarAt(n) ==
    {id \in SubIds : live[id] # NoPattern /\ HasWildcard(live[id]) /\ ~ HasMulti(live[id]) /\ live[id] = n}
WildIds == {id \in SubIds : live[id] # NoPattern /\ HasWildcard(live[id])}

Plain == {p \in Patterns : ~ HasWildcard(p)}
Holds(ids, S) == ids \in Seq(SubIds) /\ IsInjective(ids) /\ Range(ids) = S

\* The inductive invariant of the engine: every list holds what was inserted and not removed, each
\* id once, at the node its pattern leads to; the counter counts the wildcards, and the flag
\* that spares the walk is up while there is one.
EngineInv ==
    /\ live \in [SubIds -> Patterns \cup {NoPattern}]
    /\ exact \in [Plain -> Seq(SubIds)]
    /\ multi_wildcard_subs \in [Paths -> Seq(SubIds)] /\ exact_subs \in [Paths -> Seq(SubIds)]
    /\ \A p \in Plain : Holds(exact[p], {id \in SubIds : live[id] = p})
    /\ \A n \in Paths : Holds(multi_wildcard_subs[n], MultiAt(n)) /\ Holds(exact_subs[n], StarAt(n))
    /\ IsFiniteSet(WildIds) /\ subscriber_count = Cardinality(WildIds)
    /\ has_wildcards = (subscriber_count # 0)

\* The nodes are the token sequences without ">" that are short enough.
LEMMA PathFacts ==
    ASSUME NEW n
    PROVE  n \in Paths <=> n \in Seq(Literals \cup {"*"}) /\ Len(n) <= MaxTokens
  <1> DEFINE T == Literals \cup {"*"}
  <1>1. n \in TokenSeqs(T, MaxTokens) <=> n \in Seq(T) /\ Len(n) \in 1..MaxTokens
    BY MaxTokensFacts, TokenSeqFacts
  <1> HIDE DEF T
  <1>2. n \in Seq(T) => (n = << >> \/ Len(n) \in 1..MaxTokens <=> Len(n) <= MaxTokens)
    BY MaxTokensFacts, SMT
  <1>3. << >> \in Seq(T) /\ Len(<< >>) = 0 /\ 0 <= MaxTokens
    BY MaxTokensFacts, SMT
  <1> QED  BY <1>1, <1>2, <1>3 DEF Paths, T

\* The children of a node that the walk may enter.
LEMMA ChildFacts ==
    ASSUME NEW n \in Paths, NEW s \in Subjects, Len(n) < Len(s), NEW t
    PROVE  /\ Len(n) \in Nat /\ Len(n) + 1 \in 1..Len(s)
           /\ t \in Literals \cup {"*"} => Append(n, t) \in Paths
           /\ Append(n, "*") \in Paths
           /\ Append(n, t) \in Paths => t \in Literals \cup {"*"}
           /\ Len(Append(n, t)) = Len(n) + 1 /\ Append(n, t)[Len(n) + 1] = t
           /\ \A i \in 1..Len(n) : Append(n, t)[i] = n[i]
  <1> DEFINE T == Literals \cup {"*"}
  <1>1. n \in Seq(T) /\ Len(n) <= MaxTokens
    BY PathFacts
  <1>2. Len(s) \in 1..MaxTokens /\ MaxTokens \in Nat
    BY SubjectFacts, MaxTokensFacts
  <1>3. "*" \in T
    OBVIOUS
  <1> HIDE DEF T
  <1>4. Len(n) \in Nat /\ Len(n) + 1 \in 1..Len(s) /\ Len(n) + 1 <= MaxTokens
    BY <1>1, <1>2, SMT
  <1>5. /\ Len(Append(n, t)) = Len(n) + 1 /\ Append(n, t)[Len(n) + 1] = t
        /\ \A i \in 1..Len(n) : Append(n, t)[i] = n[i]
    BY <1>1, SMT
  <1>6. \A x \in T : Append(n, x) \in Seq(T) /\ Len(Append(n, x)) <= MaxTokens
    BY <1>1, <1>4, SMT
  <1>7. \A x \in T : Append(n, x) \in Paths
    BY <1>6, PathFacts DEF T
  <1>8. ASSUME Append(n, t) \in Paths  PROVE t \in T
    <2>1. Append(n, t) \in Seq(T)
      BY <1>8, PathFacts DEF T
    <2>2. Len(n) + 1 \in 1..Len(Append(n, t))
      BY <1>4, <1>5, SMT
    <2>3. Append(n, t)[Len(n) + 1] \in T
      BY <2>1, <2>2, SMT
    <2> QED  BY <1>5, <2>3
  <1> QED  BY <1>3, <1>4, <1>5, <1>7, <1>8 DEF T

\* Where the walk of insert and remove ends.
LEMMA WalkEndsFacts ==
    ASSUME NEW p \in Patterns
    PROVE  /\ WalkEnds(p) \in Paths /\ Len(WalkEnds(p)) = Fixed(p)
           /\ \A i \in 1..Fixed(p) : WalkEnds(p)[i] = p[i]
           /\ \A n \in Paths : WalkEnds(p) = n <=> Len(n) = Fixed(p) /\ \A i \in 1..Fixed(p) : p[i] = n[i]
  <1> DEFINE w == WalkEnds(p)
             U == Literals \cup {"*", ">"}
             T == Literals \cup {"*"}
  <1>1. p \in Seq(U) /\ Len(p) \in 1..MaxTokens /\ MaxTokens \in Nat
    BY PatternFacts, MaxTokensFacts
  <1>2. /\ Fixed(p) \in Nat /\ Fixed(p) <= Len(p)
        /\ \A i \in 1..Fixed(p) : i \in 1..Len(p) /\ p[i] # ">"
    BY FixedFacts
  <1>3. w = SubSeq(p, 1, Fixed(p)) \/ (w = p /\ Fixed(p) = Len(p))
    BY DEF WalkEnds, Fixed
  <1>4. \A x \in U : x # ">" => x \in T
    OBVIOUS
  <1> HIDE DEF w, U, T
  <1>5. w \in Seq(U) /\ Len(w) = Fixed(p) /\ \A i \in 1..Fixed(p) : w[i] = p[i]
    <2>1. CASE w = p /\ Fixed(p) = Len(p)
      BY <1>1, <2>1
    <2>2. CASE w = SubSeq(p, 1, Fixed(p))
      <3>1. /\ SubSeq(p, 1, Fixed(p)) \in Seq(U) /\ Len(SubSeq(p, 1, Fixed(p))) = Fixed(p)
            /\ \A i \in 1..Fixed(p) : SubSeq(p, 1, Fixed(p))[i] = p[i]
        BY <1>1, <1>2, SMT
      <3> QED  BY <2>2, <3>1
    <2> QED  BY <1>3, <2>1, <2>2
  <1>6. \A i \in 1..Fixed(p) : p[i] \in T
    <2>1. \A i \in 1..Len(p) : p[i] \in U
      BY <1>1, SMT
    <2> QED  BY <1>2, <1>4, <2>1
  <1>7. w \in Seq(T) /\ Len(w) <= MaxTokens
    <2>1. \A i \in 1..Len(w) : w[i] \in T
      BY <1>5, <1>6
    <2>2. w \in Seq(T)
      BY <1>5, <2>1, SMT
    <2> QED  BY <1>1, <1>2, <1>5, <2>2, SMT
  <1>8. w \in Paths
    BY <1>7, PathFacts DEF T
  <1>9. ASSUME NEW n \in Paths, Len(n) = Fixed(p), \A i \in 1..Fixed(p) : p[i] = n[i]  PROVE w = n
    <2>1. n \in Seq(T)
      BY PathFacts DEF T
    <2>2. Len(n) = Len(w) /\ \A i \in 1..Len(w) : w[i] = n[i]
      BY <1>5, <1>9
    <2> QED  BY <1>7, <2>1, <2>2, SMT
  <1> QED  BY <1>5, <1>8, <1>9 DEF w

\* A pattern that the walk, come to node n, may still reach and that will then match the subject.
Continues(p, n, s) ==
    /\ Len(n) <= Fixed(p) /\ \A j \in 1..Len(n) : p[j] = n[j]
    /\ \A j \in (Len(n) + 1)..Fixed(p) : p[j] \in {"*", s[j]}
    /\ HasMulti(p) => Len(s) > Fixed(p)
    /\ ~ HasMulti(p) => Len(s) = Fixed(p)

\* With no token left, that is a pattern without ">" that ends here.
LEMMA ContinuesAtEnd ==
    ASSUME NEW p \in Patterns, NEW n \in Paths, NEW s \in Subjects, Len(n) = Len(s)
    PROVE  Continues(p, n, s) <=> ~ HasMulti(p) /\ p = n
  <1>1. Fixed(p) \in Nat /\ Len(p) \in Nat /\ Len(s) \in Nat
    BY FixedFacts, SubjectFacts, SMT
  <1>2. ~ HasMulti(p) => WalkEnds(p) = p
    BY DEF WalkEnds
  <1>3. ASSUME Continues(p, n, s)  PROVE ~ HasMulti(p) /\ p = n
    <2>1. Len(s) <= Fixed(p) /\ ~ (Len(s) > Fixed(p))
      <3>1. Len(s) <= Fixed(p)
        BY <1>3 DEF Continues
      <3> QED  BY <1>1, <3>1, SMT
    <2>2. ~ HasMulti(p)
      BY <1>3, <2>1 DEF Continues
    <2>3. Len(n) = Fixed(p) /\ \A j \in 1..Fixed(p) : p[j] = n[j]
      BY <1>3, <2>2 DEF Continues
    <2> QED  BY <1>2, <2>2, <2>3, WalkEndsFacts
  <1>4. ASSUME ~ HasMulti(p), p = n  PROVE Continues(p, n, s)
    <2>1. Fixed(p) = Len(n) /\ \A j \in 1..Len(n) : p[j] = n[j]
      BY <1>2, <1>4, WalkEndsFacts, FixedFacts
    <2>2. Len(n) <= Fixed(p) /\ Len(s) = Fixed(p) /\ \A j \in (Len(n) + 1)..Fixed(p) : FALSE
      BY <1>1, <2>1, SMT
    <2> QED  BY <1>4, <2>1, <2>2 DEF Continues
  <1> QED  BY <1>3, <1>4

\* With tokens left, it is a ">" that stands here, or one of the two children leads on to it.
LEMMA ContinuesBelow ==
    ASSUME NEW p \in Patterns, NEW n \in Paths, NEW s \in Subjects, Len(n) < Len(s)
    PROVE  LET lit == Append(n, s[Len(n) + 1])
               star == Append(n, "*")
           IN  /\ Continues(p, n, s) <=>
                    \/ HasMulti(p) /\ WalkEnds(p) = n
                    \/ lit \in Paths /\ Continues(p, lit, s)
                    \/ Continues(p, star, s)
               /\ WalkEnds(p) = n => ~ Continues(p, lit, s) /\ ~ Continues(p, star, s)
               /\ ~ (Continues(p, lit, s) /\ Continues(p, star, s))
  <1> DEFINE k == Len(n) + 1
             lit == Append(n, s[k])
             star == Append(n, "*")
  <1>1. /\ k \in 1..Len(s) /\ Len(n) \in Nat /\ Len(lit) = k /\ Len(star) = k
        /\ lit[k] = s[k] /\ star[k] = "*" /\ star \in Paths
        /\ \A i \in 1..Len(n) : lit[i] = n[i] /\ star[i] = n[i]
        /\ s[k] \in Literals \cup {"*"} => lit \in Paths
    <2>1. /\ k \in 1..Len(s) /\ Len(n) \in Nat /\ Len(lit) = k /\ lit[k] = s[k]
          /\ \A i \in 1..Len(n) : lit[i] = n[i]
          /\ s[k] \in Literals \cup {"*"} => lit \in Paths
      BY ChildFacts, SMT
    <2>2. Len(star) = k /\ star[k] = "*" /\ star \in Paths /\ \A i \in 1..Len(n) : star[i] = n[i]
      BY ChildFacts, SMT
    <2> QED  BY <2>1, <2>2
  <1>2. Fixed(p) \in Nat /\ Len(p) \in Nat /\ Len(s) \in Nat
    BY FixedFacts, SubjectFacts, SMT
  <1>3. s[k] \in Literals \cup {Foreign}
    <2>1. s \in Seq(Literals \cup {Foreign})
      BY SubjectFacts
    <2> QED  BY <1>1, <2>1, SMT
  <1>4. s[k] # "*" /\ s[k] # ">"
    BY <1>3, TokenFacts
  <1>5. \A i : i \in 1..k <=> i \in 1..Len(n) \/ i = k
    BY <1>1, SMT
  <1> HIDE DEF lit, star
  <1>6. k <= Fixed(p) =>
          /\ \A i : i \in k..Fixed(p) <=> i = k \/ i \in (k + 1)..Fixed(p)
          /\ Len(n) <= Fixed(p) /\ k \in 1..Fixed(p)
    BY <1>1, <1>2, SMT
  <1>7. /\ k <= Fixed(p) \/ Len(n) = Fixed(p) \/ ~ (Len(n) <= Fixed(p))
        /\ Len(n) = Fixed(p) => /\ ~ (k <= Fixed(p)) /\ Len(n) <= Fixed(p) /\ Len(s) > Fixed(p) /\ Len(s) # Fixed(p)
                                /\ \A j \in k..Fixed(p) : FALSE
    BY <1>1, <1>2, SMT
  <1> HIDE DEF k
  <1>8. Continues(p, lit, s) <=> k <= Fixed(p) /\ p[k] = s[k] /\ Continues(p, n, s)
    <2>1. Continues(p, lit, s) <=>
            /\ k <= Fixed(p) /\ \A j \in 1..k : p[j] = lit[j]
            /\ \A j \in (k + 1)..Fixed(p) : p[j] \in {"*", s[j]}
            /\ HasMulti(p) => Len(s) > Fixed(p)
            /\ ~ HasMulti(p) => Len(s) = Fixed(p)
      BY <1>1 DEF Continues
    <2>2. (\A j \in 1..k : p[j] = lit[j]) <=> p[k] = s[k] /\ \A j \in 1..Len(n) : p[j] = n[j]
      BY <1>1, <1>5
    <2> QED  BY <1>6, <2>1, <2>2 DEF Continues, k
  <1>9. Continues(p, star, s) <=> k <= Fixed(p) /\ p[k] = "*" /\ Continues(p, n, s)
    <2>1. Continues(p, star, s) <=>
            /\ k <= Fixed(p) /\ \A j \in 1..k : p[j] = star[j]
            /\ \A j \in (k + 1)..Fixed(p) : p[j] \in {"*", s[j]}
            /\ HasMulti(p) => Len(s) > Fixed(p)
            /\ ~ HasMulti(p) => Len(s) = Fixed(p)
      BY <1>1 DEF Continues
    <2>2. (\A j \in 1..k : p[j] = star[j]) <=> p[k] = "*" /\ \A j \in 1..Len(n) : p[j] = n[j]
      BY <1>1, <1>5
    <2> QED  BY <1>6, <2>1, <2>2 DEF Continues, k
  <1>10. WalkEnds(p) = n <=> Len(n) = Fixed(p) /\ \A i \in 1..Fixed(p) : p[i] = n[i]
    BY WalkEndsFacts
  <1>11. ASSUME Continues(p, n, s), k <= Fixed(p)  PROVE (lit \in Paths /\ p[k] = s[k]) \/ p[k] = "*"
    <2>1. p[k] \in {"*", s[k]}
      BY <1>6, <1>11 DEF Continues, k
    <2>2. p[k] \in Literals \cup {"*", ">"}
      <3>1. k \in 1..Len(p)
        BY <1>6, <1>11, FixedFacts
      <3>2. p \in Seq(Literals \cup {"*", ">"})
        BY PatternFacts
      <3> QED  BY <3>1, <3>2, SMT
    <2> QED  BY <1>1, <1>4, <2>1, <2>2
  <1>12. ASSUME Continues(p, n, s), ~ (k <= Fixed(p))  PROVE HasMulti(p) /\ WalkEnds(p) = n
    <2>1. Len(n) <= Fixed(p)
      BY <1>12 DEF Continues
    <2>2. Len(n) = Fixed(p)
      BY <1>7, <1>12, <2>1
    <2> QED  BY <1>7, <1>10, <1>12, <2>2 DEF Continues
  <1>13. ASSUME HasMulti(p), WalkEnds(p) = n  PROVE Continues(p, n, s)
    BY <1>7, <1>10, <1>13 DEF Continues, k
  <1>14. WalkEnds(p) = n => ~ Continues(p, lit, s) /\ ~ Continues(p, star, s)
    BY <1>7, <1>8, <1>9, <1>10
  <1>15. ~ (Continues(p, lit, s) /\ Continues(p, star, s))
    BY <1>4, <1>8, <1>9
  <1>16. Continues(p, n, s) <=> \/ HasMulti(p) /\ WalkEnds(p) = n
                                \/ lit \in Paths /\ Continues(p, lit, s)
                                \/ Continues(p, star, s)
    BY <1>8, <1>9, <1>11, <1>12, <1>13
  <1> QED  BY <1>14, <1>15, <1>16 DEF lit, star, k

\* What match_recursive returns at a node, from what it returns below.
WalkStep(g, n, s) ==
    MatchHere(n, s) \o
    IF Len(n) >= Len(s) THEN exact_subs[n]
    ELSE (IF Append(n, s[Len(n) + 1]) \in Paths THEN g[Append(n, s[Len(n) + 1])] ELSE << >>)
         \o g[Append(n, "*")]

\* It returns a list of ids, and looks at g only one token further on.
LEMMA WalkStepFacts ==
    ASSUME EngineInv, NEW s \in Subjects, NEW n \in Paths, NEW g \in [Paths -> Seq(SubIds)]
    PROVE  /\ Len(n) \in Nat /\ Len(s) \in Nat
           /\ WalkStep(g, n, s) \in Seq(SubIds)
           /\ Len(n) >= Len(s) => WalkStep(g, n, s) = MatchHere(n, s) \o exact_subs[n]
           /\ \A f \in [Paths -> Seq(SubIds)] :
                (Len(n) < Len(s) => \A c \in Paths : Len(c) = Len(n) + 1 => f[c] = g[c])
                => WalkStep(f, n, s) = WalkStep(g, n, s)
  <1> DEFINE t == s[Len(n) + 1]
  <1>1. Len(n) \in Nat /\ Len(s) \in Nat
    BY PathFacts, SubjectFacts, SMT
  <1>2. << >> \in Seq(SubIds) /\ multi_wildcard_subs[n] \in Seq(SubIds) /\ exact_subs[n] \in Seq(SubIds)
    BY EmptyFacts, SMT DEF EngineInv
  <1>3. MatchHere(n, s) \in Seq(SubIds)
    BY <1>2 DEF MatchHere
  <1>4. CASE Len(n) >= Len(s)
    <2>1. \A f : WalkStep(f, n, s) = MatchHere(n, s) \o exact_subs[n]
      BY <1>4 DEF WalkStep
    <2>2. MatchHere(n, s) \o exact_subs[n] \in Seq(SubIds)
      BY <1>2, <1>3, ConcatFacts
    <2> QED  BY <1>1, <2>1, <2>2
  <1>5. CASE ~ (Len(n) >= Len(s))
    <2>1. Len(n) < Len(s)
      BY <1>1, <1>5, SMT
    <2>2. /\ Len(Append(n, t)) = Len(n) + 1 /\ Len(Append(n, "*")) = Len(n) + 1
          /\ Append(n, "*") \in Paths
      BY <2>1, ChildFacts, SMT
    <2> DEFINE lit(f) == IF Append(n, t) \in Paths THEN f[Append(n, t)] ELSE << >>
    <2>3. \A f : WalkStep(f, n, s) = MatchHere(n, s) \o (lit(f) \o f[Append(n, "*")])
      BY <1>5 DEF WalkStep
    <2>4. lit(g) \in Seq(SubIds) /\ g[Append(n, "*")] \in Seq(SubIds)
      BY <1>2, <2>2
    <2>5. \A f \in [Paths -> Seq(SubIds)] :
            (\A c \in Paths : Len(c) = Len(n) + 1 => f[c] = g[c])
            => lit(f) = lit(g) /\ f[Append(n, "*")] = g[Append(n, "*")]
      BY <2>2
    <2> HIDE DEF lit, t
    <2>6. MatchHere(n, s) \o (lit(g) \o g[Append(n, "*")]) \in Seq(SubIds)
      BY <1>3, <2>4, ConcatFacts
    <2> QED  BY <1>1, <1>5, <2>1, <2>3, <2>5, <2>6
  <1> QED  BY <1>4, <1>5

\* There is a function that does so at every node.
LEMMA WalkExists ==
    ASSUME EngineInv, NEW s \in Subjects
    PROVE  \E f \in [Paths -> Seq(SubIds)] : \A n \in Paths : f[n] = WalkStep(f, n, s)
  <1> DEFINE m == Len(s)
             F == [Paths -> Seq(SubIds)]
             Deep(k) == {n \in Paths : Len(n) + k >= m}
             OK(k) == \E f \in F : \A n \in Deep(k) : f[n] = WalkStep(f, n, s)
             Bad == {k \in 0..m : ~ OK(k)}
  <1>0. m \in Nat /\ \A n \in Paths : Len(n) \in Nat
    BY SubjectFacts, PathFacts, SMT
  <1>1. OK(0)
    <2> DEFINE g == [n \in Paths |-> MatchHere(n, s) \o exact_subs[n]]
    <2>0. multi_wildcard_subs \in F /\ exact_subs \in F
      BY DEF EngineInv
    <2>1. g \in F
      <3>1. ASSUME NEW n \in Paths  PROVE MatchHere(n, s) \o exact_subs[n] \in Seq(SubIds)
        <4>1. MatchHere(n, s) \in Seq(SubIds) /\ exact_subs[n] \in Seq(SubIds)
          BY <2>0, EmptyFacts DEF MatchHere
        <4> QED  BY <4>1, ConcatFacts
      <3> QED  BY <3>1
    <2>2. ASSUME NEW n \in Deep(0)  PROVE g[n] = WalkStep(g, n, s)
      <3>1. n \in Paths /\ Len(n) >= m
        BY <1>0, SMT
      <3> QED  BY <2>1, <3>1, WalkStepFacts
    <2> QED  BY <2>1, <2>2
  <1>2. ASSUME NEW k \in 1..m, OK(k - 1)  PROVE OK(k)
    <2>1. PICK f \in F : \A n \in Deep(k - 1) : f[n] = WalkStep(f, n, s)
      BY <1>2
    <2> DEFINE g == [n \in Paths |-> IF n \in Deep(k - 1) THEN f[n] ELSE WalkStep(f, n, s)]
    <2>2. \A n \in Paths : WalkStep(f, n, s) \in Seq(SubIds)
      BY <2>1, WalkStepFacts
    <2>3. g \in F
      BY <2>1, <2>2
    <2>4. \A n \in Paths : g[n] = WalkStep(f, n, s)
      BY <2>1
    <2>5. \A n \in Deep(k - 1) : n \in Paths /\ g[n] = f[n]
      OBVIOUS
    <2> HIDE DEF g
    <2>6. ASSUME NEW n \in Deep(k)  PROVE g[n] = WalkStep(g, n, s)
      <3>1. n \in Paths /\ Len(n) + k >= m
        OBVIOUS
      <3>2. \A c \in Paths : Len(c) = Len(n) + 1 => Len(c) + (k - 1) >= m
        BY <1>0, <3>1, SMT
      <3>3. \A c \in Paths : Len(c) = Len(n) + 1 => g[c] = f[c]
        BY <2>5, <3>2
      <3>4. WalkStep(g, n, s) = WalkStep(f, n, s)
        BY <2>1, <2>3, <3>1, <3>3, WalkStepFacts
      <3> QED  BY <2>4, <3>1, <3>4
    <2> QED  BY <2>3, <2>6
  <1>3. OK(m)
    <2>1. SUFFICES ASSUME Bad # {}  PROVE FALSE
      <3>1. m \in 0..m
        BY <1>0, SMT
      <3> HIDE DEF OK
      <3> QED  BY <3>1
    <2> HIDE DEF OK
    <2>2. Bad \in SUBSET Nat
      BY <1>0, SMT
    <2>3. PICK k \in Bad : \A j \in Bad : k <= j
      <3> HIDE DEF Bad
      <3> QED  BY <2>1, <2>2, LeastNumber
    <2>4. k \in 0..m /\ ~ OK(k) /\ k # 0
      BY <1>1, <2>3
    <2>5. k \in 1..m /\ k - 1 \in 0..m /\ ~ (k <= k - 1)
      BY <1>0, <2>4, SMT
    <2> QED  BY <1>2, <2>3, <2>4, <2>5
  <1>4. \A n \in Paths : n \in Deep(m)
    BY <1>0, SMT
  <1> QED  BY <1>3, <1>4

\* So that is what match_recursive computes.
LEMMA WalkFacts ==
    ASSUME EngineInv, NEW s \in Subjects
    PROVE  \A n \in Paths : match_recursive(s)[n] = WalkStep(match_recursive(s), n, s)
  <1> DEFINE Eq(g) == g = [n \in Paths |-> WalkStep(g, n, s)]
             W == CHOOSE g : Eq(g)
  <1>1. match_recursive(s) = W
    BY DEF match_recursive, WalkStep
  <1>2. \E f : Eq(f)
    <2>1. PICK f \in [Paths -> Seq(SubIds)] : \A n \in Paths : f[n] = WalkStep(f, n, s)
      BY WalkExists
    <2>2. f = [n \in Paths |-> WalkStep(f, n, s)]
      BY <2>1, SMT
    <2> QED  BY <2>2
  <1>3. Eq(W)
    BY <1>2
  <1> HIDE DEF W
  <1>4. \A n \in Paths : W[n] = WalkStep(W, n, s)
    BY <1>3
  <1> QED  BY <1>1, <1>3, <1>4

\* The wildcard subscriptions that the walk is to find from node n on.
Below(n, s) == {id \in SubIds : live[id] # NoPattern /\ HasWildcard(live[id]) /\ Continues(live[id], n, s)}

\* Two lists with nothing in common, one after the other.
LEMMA HoldsBoth ==
    ASSUME NEW p, NEW q, NEW S, NEW T, Holds(p, S), Holds(q, T), S \cap T = {}
    PROVE  Holds(p \o q, S \cup T)
  <1>1. /\ p \in Seq(SubIds) /\ IsInjective(p) /\ Range(p) = S
        /\ q \in Seq(SubIds) /\ IsInjective(q) /\ Range(q) = T
    BY DEF Holds
  <1>2. Range(p) \cap Range(q) = {}
    BY <1>1
  <1>3. p \o q \in Seq(SubIds) /\ Range(p \o q) = Range(p) \cup Range(q) /\ IsInjective(p \o q)
    BY <1>1, <1>2, ConcatFacts, SMT
  <1> QED  BY <1>1, <1>3 DEF Holds

LEMMA HoldsNone ==
    Holds(<< >>, {})
  BY EmptyFacts DEF Holds

\* At every node the walk reaches, match_recursive finds what lies below and matches, each
\* subscription once.
LEMMA WalkHolds ==
    ASSUME EngineInv, NEW s \in Subjects, NEW n0 \in Paths, Len(n0) <= Len(s)
    PROVE  Holds(match_recursive(s)[n0], Below(n0, s))
  <1> DEFINE m == Len(s)
             W == match_recursive(s)
             OK(k) == \A n \in Paths : Len(n) + k = m => Holds(W[n], Below(n, s))
             Bad == {k \in 0..m : ~ OK(k)}
  <1>0. m \in Nat /\ \A n \in Paths : Len(n) \in Nat
    BY SubjectFacts, PathFacts, SMT
  <1>1. \A n \in Paths : W[n] = WalkStep(W, n, s)
    BY WalkFacts
  <1>2. \A n \in Paths : Holds(multi_wildcard_subs[n], MultiAt(n)) /\ Holds(exact_subs[n], StarAt(n))
    BY DEF EngineInv
  <1>3. \A id \in SubIds : live[id] # NoPattern => live[id] \in Patterns
    BY DEF EngineInv
  <1> HIDE DEF W
  <1>4. OK(0)
    <2> SUFFICES ASSUME NEW n \in Paths, Len(n) + 0 = m  PROVE Holds(W[n], Below(n, s))
      OBVIOUS
    <2>1. Len(n) = Len(s) /\ Len(n) >= Len(s) /\ ~ (Len(n) < Len(s))
      BY <1>0, SMT
    <2>2. W[n] = << >> \o exact_subs[n]
      BY <1>1, <2>1 DEF WalkStep, MatchHere
    <2>3. Below(n, s) = {} \cup StarAt(n)
      <3>1. \A p \in Patterns : Continues(p, n, s) <=> ~ HasMulti(p) /\ p = n
        BY <2>1, ContinuesAtEnd
      <3> QED  BY <1>3, <3>1 DEF Below, StarAt
    <2>4. Holds(<< >> \o exact_subs[n], {} \cup StarAt(n))
      BY <1>2, HoldsNone, HoldsBoth
    <2> QED  BY <2>2, <2>3, <2>4
  <1>5. ASSUME NEW k \in 1..m, OK(k - 1)  PROVE OK(k)
    <2> SUFFICES ASSUME NEW n \in Paths, Len(n) + k = m  PROVE Holds(W[n], Below(n, s))
      OBVIOUS
    <2> DEFINE lit == Append(n, s[Len(n) + 1])
               star == Append(n, "*")
               litIds == IF lit \in Paths THEN Below(lit, s) ELSE {}
               litHits == IF lit \in Paths THEN W[lit] ELSE << >>
    <2>1. Len(n) < Len(s) /\ ~ (Len(n) >= Len(s))
      BY <1>0, SMT
    <2>2. /\ \A p \in Patterns : Continues(p, n, s) <=> \/ HasMulti(p) /\ WalkEnds(p) = n
                                                        \/ lit \in Paths /\ Continues(p, lit, s)
                                                        \/ Continues(p, star, s)
          /\ \A p \in Patterns : WalkEnds(p) = n => ~ Continues(p, lit, s) /\ ~ Continues(p, star, s)
          /\ \A p \in Patterns : ~ (Continues(p, lit, s) /\ Continues(p, star, s))
      BY <2>1, ContinuesBelow
    <2>3. Len(lit) = Len(n) + 1 /\ Len(star) = Len(n) + 1 /\ star \in Paths
      BY <2>1, ChildFacts, SMT
    <2>4. W[n] = multi_wildcard_subs[n] \o (litHits \o W[star])
      BY <1>1, <2>1 DEF WalkStep, MatchHere
    <2> HIDE DEF lit, star
    <2>5. Len(lit) + (k - 1) = m /\ Len(star) + (k - 1) = m
      BY <1>0, <2>3, SMT
    <2>6. Holds(W[star], Below(star, s)) /\ (lit \in Paths => Holds(W[lit], Below(lit, s)))
      BY <1>5, <2>3, <2>5
    <2>7. Holds(litHits, litIds)
      BY <2>6, HoldsNone
    <2>8. litIds \cap Below(star, s) = {}
      BY <1>3, <2>2 DEF Below
    <2>9. MultiAt(n) \cap (litIds \cup Below(star, s)) = {}
      BY <1>3, <2>2 DEF Below, MultiAt
    <2>10. Below(n, s) = MultiAt(n) \cup (litIds \cup Below(star, s))
      <3>1. \A p : HasMulti(p) => HasWildcard(p)
        BY DEF HasMulti, HasWildcard
      <3>2. \A id : id \in litIds <=> lit \in Paths /\ id \in Below(lit, s)
        OBVIOUS
      <3> HIDE DEF litIds
      <3>3. \A id \in Below(n, s) : id \in MultiAt(n) \cup (litIds \cup Below(star, s))
        BY <1>3, <2>2, <3>2 DEF Below, MultiAt
      <3>4. \A id \in MultiAt(n) : id \in Below(n, s)
        BY <1>3, <2>2, <3>1 DEF Below, MultiAt
      <3>5. \A id \in litIds \cup Below(star, s) : id \in Below(n, s)
        BY <1>3, <2>2, <3>2 DEF Below
      <3> QED  BY <3>3, <3>4, <3>5
    <2> HIDE DEF litIds, litHits
    <2>11. Holds(litHits \o W[star], litIds \cup Below(star, s))
      BY <2>6, <2>7, <2>8, HoldsBoth
    <2>12. Holds(multi_wildcard_subs[n] \o (litHits \o W[star]), MultiAt(n) \cup (litIds \cup Below(star, s)))
      BY <1>2, <2>9, <2>11, HoldsBoth
    <2> QED  BY <2>4, <2>10, <2>12
  <1>6. Bad = {}
    <2>1. SUFFICES ASSUME Bad # {}  PROVE FALSE
      OBVIOUS
    <2> HIDE DEF OK
    <2>2. Bad \in SUBSET Nat
      BY <1>0, SMT
    <2>3. PICK k \in Bad : \A j \in Bad : k <= j
      <3> HIDE DEF Bad
      <3> QED  BY <2>1, <2>2, LeastNumber
    <2>4. k \in 0..m /\ ~ OK(k) /\ k # 0
      BY <1>4, <2>3
    <2>5. k \in 1..m /\ k - 1 \in 0..m /\ ~ (k <= k - 1)
      BY <1>0, <2>4, SMT
    <2> QED  BY <1>5, <2>3, <2>4, <2>5
  <1>7. m - Len(n0) \in 0..m /\ Len(n0) + (m - Len(n0)) = m
    BY <1>0, SMT
  <1>8. OK(m - Len(n0))
    BY <1>6, <1>7
  <1> QED  BY <1>7, <1>8 DEF W

\* The invariant gives MatchesAgree.
LEMMA EngineMatches ==
    ASSUME EngineInv
    PROVE  MatchesAgree
  <1> SUFFICES ASSUME NEW s \in Subjects
               PROVE  /\ Holds(match_subject(s), {id \in SubIds : live[id] # NoPattern /\ Selects(live[id], s)})
                      /\ \A id \in SubIds : live[id] # NoPattern => (matches(live[id], s) <=> Selects(live[id], s))
    BY DEF MatchesAgree, Holds
  <1>1. \A id \in SubIds : live[id] # NoPattern => live[id] \in Patterns
    BY DEF EngineInv
  <1>2. \A id \in SubIds : live[id] # NoPattern => (matches(live[id], s) <=> Selects(live[id], s))
    BY <1>1, MatchesSelects
  <1> DEFINE Exact == {id \in SubIds : live[id] # NoPattern /\ live[id] = s}
             Wild == {id \in SubIds : live[id] # NoPattern /\ HasWildcard(live[id]) /\ Selects(live[id], s)}
             first == IF s \in DOMAIN exact THEN exact[s] ELSE << >>
             second == IF has_wildcards THEN match_recursive(s)[<< >>] ELSE << >>
  <1>3. match_subject(s) = first \o second
    BY DEF match_subject
  <1>4. \A i \in 1..Len(s) : s[i] # "*" /\ s[i] # ">"
    <2>1. s \in Seq(Literals \cup {Foreign})
      BY SubjectFacts
    <2>2. \A i \in 1..Len(s) : s[i] \in Literals \cup {Foreign}
      BY <2>1, SMT
    <2> QED  BY <2>2, TokenFacts
  <1>5. ~ HasWildcard(s)
    BY <1>4 DEF HasWildcard
  <1>6. Holds(first, Exact)
    <2>1. DOMAIN exact = Plain /\ \A p \in Plain : Holds(exact[p], {id \in SubIds : live[id] = p})
      BY DEF EngineInv
    <2>2. CASE s \in Plain
      <3>1. s # NoPattern
        BY <2>2, RoutingAssumption DEF Plain
      <3>2. Exact = {id \in SubIds : live[id] = s}
        BY <3>1
      <3> QED  BY <2>1, <2>2, <3>2
    <2>3. CASE s \notin Plain
      <3>1. Exact = {}
        BY <1>1, <1>5, <2>3 DEF Plain
      <3> QED  BY <2>1, <2>3, <3>1, HoldsNone
    <2> QED  BY <2>2, <2>3
  <1>7. Holds(second, Wild)
    <2>1. CASE has_wildcards
      <3>1. << >> \in Paths /\ Len(<< >>) = 0 /\ 0 <= Len(s)
        <4>1. Len(s) \in Nat
          BY SubjectFacts, SMT
        <4>2. Len(<< >>) = 0 /\ 0 <= Len(s)
          BY <4>1, SMT
        <4> QED  BY <4>2 DEF Paths
      <3>2. Holds(match_recursive(s)[<< >>], Below(<< >>, s))
        BY <3>1, WalkHolds
      <3>3. \A p \in Patterns : Continues(p, << >>, s) <=> Selects(p, s)
        <4> TAKE p \in Patterns
        <4>1. Fixed(p) \in Nat
          BY FixedFacts
        <4>2. Len(<< >>) <= Fixed(p) /\ (\A j \in 1..Len(<< >>) : FALSE) /\ (Len(<< >>) + 1)..Fixed(p) = 1..Fixed(p)
          BY <4>1, SMT
        <4> QED  BY <4>2, FixedFacts DEF Continues
      <3>4. Below(<< >>, s) = Wild
        BY <1>1, <3>3 DEF Below
      <3> QED  BY <2>1, <3>2, <3>4
    <2>2. CASE ~ has_wildcards
      <3>1. IsFiniteSet(WildIds) /\ Cardinality(WildIds) = 0
        BY <2>2 DEF EngineInv
      <3>2. WildIds = {}
        BY <3>1, FS_EmptySet
      <3>3. Wild = {}
        BY <3>2 DEF WildIds
      <3> QED  BY <2>2, <3>3, HoldsNone
    <2> QED  BY <2>1, <2>2
  <1> HIDE DEF first, second
  <1>8. Exact \cap Wild = {}
    BY <1>5
  <1>9. \A p \in Plain : Selects(p, s) <=> p = s
    <2> TAKE p \in Plain
    <2>1. p \in Patterns /\ ~ HasMulti(p) /\ \A i \in 1..Len(p) : p[i] # "*"
      BY DEF Plain, HasWildcard, HasMulti
    <2>2. Selects(p, s) <=> Len(s) = Len(p) /\ \A i \in 1..Len(p) : p[i] = s[i]
      <3>1. Fixed(p) = Len(p)
        BY <2>1, FixedFacts
      <3>2. Selects(p, s) <=> Len(s) = Len(p) /\ \A i \in 1..Len(p) : p[i] \in {"*", s[i]}
        BY <2>1, <3>1, FixedFacts
      <3> QED  BY <2>1, <3>2
    <2>3. (Len(s) = Len(p) /\ \A i \in 1..Len(p) : p[i] = s[i]) => p = s
      <3>1. p \in Seq(Literals \cup {"*", ">"}) /\ s \in Seq(Literals \cup {Foreign})
        BY <2>1, PatternFacts, SubjectFacts
      <3> QED  BY <3>1, SMT
    <2> QED  BY <2>2, <2>3
  <1>10. {id \in SubIds : live[id] # NoPattern /\ Selects(live[id], s)} = Exact \cup Wild
    <2>1. \A id \in Exact : live[id] # NoPattern /\ live[id] \in Plain
      BY <1>1, <1>5 DEF Plain
    <2>2. \A id \in SubIds : live[id] # NoPattern /\ ~ HasWildcard(live[id]) => live[id] \in Plain
      BY <1>1 DEF Plain
    <2> QED  BY <1>9, <2>1, <2>2
  <1>11. Holds(first \o second, Exact \cup Wild)
    BY <1>6, <1>7, <1>8, HoldsBoth
  <1> QED  BY <1>2, <1>3, <1>10, <1>11

-----------------------------------------------------------------------------
(* Insert and Remove keep the invariant *)

\* A list with one id more, and with one less.
LEMMA HoldsOneMore ==
    ASSUME NEW q, NEW S, NEW id \in SubIds, Holds(q, S), id \notin S
    PROVE  Holds(Append(q, id), S \cup {id}) /\ Append(q, id) \in Seq(SubIds)
  <1>1. q \in Seq(SubIds) /\ IsInjective(q) /\ Range(q) = S /\ id \notin Range(q)
    BY DEF Holds
  <1>2. Append(q, id) \in Seq(SubIds) /\ Range(Append(q, id)) = Range(q) \cup {id} /\ IsInjective(Append(q, id))
    BY <1>1, AppendFacts, SMT
  <1> QED  BY <1>1, <1>2 DEF Holds

LEMMA HoldsOneLess ==
    ASSUME NEW q, NEW S, NEW id, Holds(q, S)
    PROVE  /\ Holds(Without(q, id), S \ {id}) /\ Without(q, id) \in Seq(SubIds)
           /\ Len(Without(q, id)) < Len(q) <=> id \in S
  <1>1. q \in Seq(SubIds) /\ IsInjective(q) /\ Range(q) = S
    BY DEF Holds
  <1>2. /\ Without(q, id) \in Seq(SubIds) /\ IsInjective(Without(q, id))
        /\ Range(Without(q, id)) = Range(q) \ {id}
        /\ Len(Without(q, id)) < Len(q) <=> id \in Range(q)
    BY <1>1, WithoutFacts
  <1> QED  BY <1>1, <1>2 DEF Holds

\* A plain pattern and a wildcard are different, and ">" is a wildcard.
LEMMA KindFacts ==
    /\ \A p : HasMulti(p) => HasWildcard(p)
    /\ \A p \in Patterns : p \in Plain <=> ~ HasWildcard(p)
    /\ \A p \in Plain : p \in Patterns /\ p # NoPattern
    /\ \A p \in Patterns : p # NoPattern
    /\ \A p : ~ HasMulti(p) => WalkEnds(p) = p
  <1>1. \A p : HasMulti(p) => HasWildcard(p)
    BY DEF HasMulti, HasWildcard
  <1> QED  BY <1>1, RoutingAssumption DEF Plain, WalkEnds

\* Two sets that differ at most in one member, which the first does not have.
LEMMA OneApart ==
    ASSUME NEW S, NEW A, NEW B, NEW x \in S, A \subseteq S, B \subseteq S, x \notin A,
           \A y \in S : y # x => (y \in B <=> y \in A)
    PROVE  (x \in B => B = A \cup {x}) /\ (x \notin B => B = A)
  <1>1. \A y \in A : y \in B
    OBVIOUS
  <1>2. \A y \in B : y \in A \/ y = x
    OBVIOUS
  <1> QED  BY <1>1, <1>2

\* What the lists are to hold once a subscription is routed.
LEMMA InsertSets ==
    ASSUME live \in [SubIds -> Patterns \cup {NoPattern}], NEW p \in Patterns, NEW id \in SubIds,
           live[id] = NoPattern, live' = [live EXCEPT ![id] = p]
    PROVE  /\ live' \in [SubIds -> Patterns \cup {NoPattern}]
           /\ \A n : /\ id \notin MultiAt(n) /\ id \notin StarAt(n)
                     /\ HasMulti(p) /\ WalkEnds(p) = n => MultiAt(n)' = MultiAt(n) \cup {id}
                     /\ ~ (HasMulti(p) /\ WalkEnds(p) = n) => MultiAt(n)' = MultiAt(n)
                     /\ HasWildcard(p) /\ ~ HasMulti(p) /\ p = n => StarAt(n)' = StarAt(n) \cup {id}
                     /\ ~ (HasWildcard(p) /\ ~ HasMulti(p) /\ p = n) => StarAt(n)' = StarAt(n)
           /\ id \notin WildIds
           /\ HasWildcard(p) => WildIds' = WildIds \cup {id}
           /\ ~ HasWildcard(p) => WildIds' = WildIds
           /\ \A q \in Plain :
                /\ id \notin {j \in SubIds : live[j] = q}
                /\ p = q => {j \in SubIds : live'[j] = q} = {j \in SubIds : live[j] = q} \cup {id}
                /\ p # q => {j \in SubIds : live'[j] = q} = {j \in SubIds : live[j] = q}
  <1>1. live' \in [SubIds -> Patterns \cup {NoPattern}]
    OBVIOUS
  <1>2. live'[id] = p /\ \A j \in SubIds : j # id => live'[j] = live[j]
    OBVIOUS
  <1>3. p # NoPattern
    BY KindFacts
  <1>4. \A n : id \notin MultiAt(n) /\ id \notin StarAt(n)
    BY DEF MultiAt, StarAt
  <1>5. ASSUME NEW n
        PROVE  /\ HasMulti(p) /\ WalkEnds(p) = n => MultiAt(n)' = MultiAt(n) \cup {id}
               /\ ~ (HasMulti(p) /\ WalkEnds(p) = n) => MultiAt(n)' = MultiAt(n)
    <2>1. \A j \in SubIds : j # id => (j \in MultiAt(n)' <=> j \in MultiAt(n))
      BY <1>2 DEF MultiAt
    <2>2. id \in MultiAt(n)' <=> HasMulti(p) /\ WalkEnds(p) = n
      BY <1>2, <1>3 DEF MultiAt
    <2>3. MultiAt(n) \subseteq SubIds /\ MultiAt(n)' \subseteq SubIds
      BY DEF MultiAt
    <2>4. (id \in MultiAt(n)' => MultiAt(n)' = MultiAt(n) \cup {id}) /\ (id \notin MultiAt(n)' => MultiAt(n)' = MultiAt(n))
      BY <1>4, <2>1, <2>3, OneApart, SMT
    <2> QED  BY <2>2, <2>4
  <1>6. ASSUME NEW n
        PROVE  /\ HasWildcard(p) /\ ~ HasMulti(p) /\ p = n => StarAt(n)' = StarAt(n) \cup {id}
               /\ ~ (HasWildcard(p) /\ ~ HasMulti(p) /\ p = n) => StarAt(n)' = StarAt(n)
    <2>1. \A j \in SubIds : j # id => (j \in StarAt(n)' <=> j \in StarAt(n))
      BY <1>2 DEF StarAt
    <2>2. id \in StarAt(n)' <=> HasWildcard(p) /\ ~ HasMulti(p) /\ p = n
      BY <1>2, <1>3 DEF StarAt
    <2>3. StarAt(n) \subseteq SubIds /\ StarAt(n)' \subseteq SubIds
      BY DEF StarAt
    <2>4. (id \in StarAt(n)' => StarAt(n)' = StarAt(n) \cup {id}) /\ (id \notin StarAt(n)' => StarAt(n)' = StarAt(n))
      BY <1>4, <2>1, <2>3, OneApart, SMT
    <2> QED  BY <2>2, <2>4
  <1>7. /\ id \notin WildIds
        /\ HasWildcard(p) => WildIds' = WildIds \cup {id}
        /\ ~ HasWildcard(p) => WildIds' = WildIds
    <2>1. \A j \in SubIds : j # id => (j \in WildIds' <=> j \in WildIds)
      BY <1>2 DEF WildIds
    <2>2. id \notin WildIds /\ (id \in WildIds' <=> HasWildcard(p))
      BY <1>2, <1>3 DEF WildIds
    <2>3. WildIds \subseteq SubIds /\ WildIds' \subseteq SubIds
      BY DEF WildIds
    <2>4. (id \in WildIds' => WildIds' = WildIds \cup {id}) /\ (id \notin WildIds' => WildIds' = WildIds)
      BY <2>1, <2>2, <2>3, OneApart, SMT
    <2> QED  BY <2>2, <2>4
  <1>8. ASSUME NEW q \in Plain
        PROVE  /\ id \notin {j \in SubIds : live[j] = q}
               /\ p = q => {j \in SubIds : live'[j] = q} = {j \in SubIds : live[j] = q} \cup {id}
               /\ p # q => {j \in SubIds : live'[j] = q} = {j \in SubIds : live[j] = q}
    <2>1. q # NoPattern
      BY KindFacts
    <2> QED  BY <1>2, <2>1
  <1> QED  BY <1>1, <1>4, <1>5, <1>6, <1>7, <1>8

\* What they are to hold once one is not routed any more.
LEMMA RemoveSets ==
    ASSUME live \in [SubIds -> Patterns \cup {NoPattern}], NEW p \in Patterns, NEW id \in SubIds,
           live[id] \in {p, NoPattern}, live' = [live EXCEPT ![id] = NoPattern]
    PROVE  /\ live' \in [SubIds -> Patterns \cup {NoPattern}]
           /\ \A n : /\ MultiAt(n)' = MultiAt(n) \ {id} /\ StarAt(n)' = StarAt(n) \ {id}
                     /\ id \in MultiAt(n) => HasMulti(p) /\ WalkEnds(p) = n
                     /\ id \in StarAt(n) => ~ HasMulti(p) /\ HasWildcard(p) /\ p = n
           /\ HasMulti(p) => (id \in MultiAt(WalkEnds(p)) <=> id \in WildIds)
           /\ HasWildcard(p) /\ ~ HasMulti(p) => (id \in StarAt(p) <=> id \in WildIds)
           /\ ~ HasWildcard(p) => id \notin WildIds
           /\ WildIds' = WildIds \ {id}
           /\ \A q \in Plain :
                /\ {j \in SubIds : live'[j] = q} = {j \in SubIds : live[j] = q} \ {id}
                /\ id \in {j \in SubIds : live[j] = q} => p = q
  <1>1. live' \in [SubIds -> Patterns \cup {NoPattern}]
    OBVIOUS
  <1>2. live'[id] = NoPattern /\ \A j \in SubIds : j # id => live'[j] = live[j]
    OBVIOUS
  <1>3. \A n : MultiAt(n)' = MultiAt(n) \ {id} /\ StarAt(n)' = StarAt(n) \ {id}
    BY <1>2 DEF MultiAt, StarAt
  <1>4. \A n : /\ id \in MultiAt(n) => HasMulti(p) /\ WalkEnds(p) = n
               /\ id \in StarAt(n) => ~ HasMulti(p) /\ HasWildcard(p) /\ p = n
    BY DEF MultiAt, StarAt
  <1>5. /\ HasMulti(p) => (id \in MultiAt(WalkEnds(p)) <=> id \in WildIds)
        /\ HasWildcard(p) /\ ~ HasMulti(p) => (id \in StarAt(p) <=> id \in WildIds)
        /\ ~ HasWildcard(p) => id \notin WildIds
    BY KindFacts DEF MultiAt, StarAt, WildIds
  <1>6. WildIds' = WildIds \ {id}
    BY <1>2 DEF WildIds
  <1>7. ASSUME NEW q \in Plain
        PROVE  /\ {j \in SubIds : live'[j] = q} = {j \in SubIds : live[j] = q} \ {id}
               /\ id \in {j \in SubIds : live[j] = q} => p = q
    <2>1. q # NoPattern
      BY KindFacts
    <2> QED  BY <1>2, <2>1
  <1> QED  BY <1>1, <1>3, <1>4, <1>5, <1>6, <1>7

\* One entry of a family of lists is replaced.
LEMMA ListChange ==
    ASSUME NEW D, NEW f \in [D -> Seq(SubIds)], NEW d \in D, NEW q \in Seq(SubIds)
    PROVE  /\ [f EXCEPT ![d] = q] \in [D -> Seq(SubIds)]
           /\ [f EXCEPT ![d] = q][d] = q
           /\ \A e \in D : e # d => [f EXCEPT ![d] = q][e] = f[e]
  OBVIOUS

\* RoutingEngine::insert.
LEMMA InsertKeeps ==
    ASSUME EngineInv, NEW p \in Patterns, NEW id \in SubIds, Insert(p, id)
    PROVE  EngineInv'
  <1> DEFINE w == WalkEnds(p)
  <1>1. /\ live \in [SubIds -> Patterns \cup {NoPattern}]
        /\ exact \in [Plain -> Seq(SubIds)]
        /\ multi_wildcard_subs \in [Paths -> Seq(SubIds)] /\ exact_subs \in [Paths -> Seq(SubIds)]
        /\ \A q \in Plain : Holds(exact[q], {j \in SubIds : live[j] = q})
        /\ \A n \in Paths : Holds(multi_wildcard_subs[n], MultiAt(n)) /\ Holds(exact_subs[n], StarAt(n))
        /\ IsFiniteSet(WildIds) /\ subscriber_count = Cardinality(WildIds)
        /\ has_wildcards = (subscriber_count # 0)
    BY DEF EngineInv
  <1>2. live[id] = NoPattern /\ live' = [live EXCEPT ![id] = p]
    BY DEF Insert
  <1>3. /\ live' \in [SubIds -> Patterns \cup {NoPattern}]
        /\ \A n : /\ id \notin MultiAt(n) /\ id \notin StarAt(n)
                  /\ HasMulti(p) /\ w = n => MultiAt(n)' = MultiAt(n) \cup {id}
                  /\ ~ (HasMulti(p) /\ w = n) => MultiAt(n)' = MultiAt(n)
                  /\ HasWildcard(p) /\ ~ HasMulti(p) /\ p = n => StarAt(n)' = StarAt(n) \cup {id}
                  /\ ~ (HasWildcard(p) /\ ~ HasMulti(p) /\ p = n) => StarAt(n)' = StarAt(n)
        /\ id \notin WildIds
        /\ HasWildcard(p) => WildIds' = WildIds \cup {id}
        /\ ~ HasWildcard(p) => WildIds' = WildIds
        /\ \A q \in Plain :
             /\ id \notin {j \in SubIds : live[j] = q}
             /\ p = q => {j \in SubIds : live'[j] = q} = {j \in SubIds : live[j] = q} \cup {id}
             /\ p # q => {j \in SubIds : live'[j] = q} = {j \in SubIds : live[j] = q}
    BY <1>1, <1>2, InsertSets
  <1>4. w \in Paths /\ (~ HasMulti(p) => w = p)
    BY WalkEndsFacts, KindFacts
  <1>5. CASE HasWildcard(p)
    <2>1. /\ TrieInsert(p, id) /\ has_wildcards' = TRUE /\ exact' = exact
          /\ subscriber_count' = subscriber_count + 1
      BY <1>5 DEF Insert, TrieInsert
    <2>2. p \notin Plain
      BY <1>5, KindFacts
    <2>3. \A q \in Plain : Holds(exact'[q], {j \in SubIds : live'[j] = q})
      BY <1>1, <1>3, <2>1, <2>2
    <2>4. IsFiniteSet(WildIds') /\ subscriber_count' = Cardinality(WildIds') /\ has_wildcards' = (subscriber_count' # 0)
      <3>1. IsFiniteSet(WildIds \cup {id}) /\ Cardinality(WildIds \cup {id}) = Cardinality(WildIds) + 1
        BY <1>1, <1>3, FS_AddElement
      <3>2. Cardinality(WildIds) \in Nat
        BY <1>1, FS_CardinalityType
      <3>3. Cardinality(WildIds) + 1 # 0
        BY <3>2, SMT
      <3> QED  BY <1>1, <1>3, <1>5, <2>1, <3>1, <3>3
    <2>5. CASE HasMulti(p)
      <3> DEFINE ids == Append(multi_wildcard_subs[w], id)
      <3>1. multi_wildcard_subs' = [multi_wildcard_subs EXCEPT ![w] = ids] /\ exact_subs' = exact_subs
        BY <2>1, <2>5 DEF TrieInsert
      <3>2. Holds(ids, MultiAt(w) \cup {id}) /\ ids \in Seq(SubIds)
        BY <1>1, <1>3, <1>4, HoldsOneMore
      <3> HIDE DEF ids, w
      <3>3. /\ multi_wildcard_subs' \in [Paths -> Seq(SubIds)] /\ multi_wildcard_subs'[w] = ids
            /\ \A n \in Paths : n # w => multi_wildcard_subs'[n] = multi_wildcard_subs[n]
        BY <1>1, <1>4, <3>1, <3>2, ListChange
      <3>4. \A n \in Paths : Holds(multi_wildcard_subs'[n], MultiAt(n)') /\ Holds(exact_subs'[n], StarAt(n)')
        <4> TAKE n \in Paths
        <4>1. exact_subs'[n] = exact_subs[n] /\ StarAt(n)' = StarAt(n)
          BY <1>3, <2>5, <3>1
        <4>2. CASE n = w
          <5>1. MultiAt(w)' = MultiAt(w) \cup {id}
            BY <1>3, <2>5
          <5> QED  BY <1>1, <3>2, <3>3, <4>1, <4>2, <5>1
        <4>3. CASE n # w
          <5>1. MultiAt(n)' = MultiAt(n) /\ multi_wildcard_subs'[n] = multi_wildcard_subs[n]
            BY <1>3, <3>3, <4>3
          <5> QED  BY <1>1, <4>1, <5>1
        <4> QED  BY <4>2, <4>3
      <3> QED  BY <1>1, <1>3, <2>1, <2>3, <2>4, <3>1, <3>3, <3>4 DEF EngineInv, Holds, Plain
    <2>6. CASE ~ HasMulti(p)
      <3> DEFINE ids == Append(exact_subs[w], id)
      <3>1. exact_subs' = [exact_subs EXCEPT ![w] = ids] /\ multi_wildcard_subs' = multi_wildcard_subs
        BY <2>1, <2>6 DEF TrieInsert
      <3>2. Holds(ids, StarAt(w) \cup {id}) /\ ids \in Seq(SubIds)
        BY <1>1, <1>3, <1>4, HoldsOneMore
      <3> HIDE DEF ids, w
      <3>3. /\ exact_subs' \in [Paths -> Seq(SubIds)] /\ exact_subs'[w] = ids
            /\ \A n \in Paths : n # w => exact_subs'[n] = exact_subs[n]
        BY <1>1, <1>4, <3>1, <3>2, ListChange
      <3>4. \A n \in Paths : Holds(multi_wildcard_subs'[n], MultiAt(n)') /\ Holds(exact_subs'[n], StarAt(n)')
        <4> TAKE n \in Paths
        <4>1. multi_wildcard_subs'[n] = multi_wildcard_subs[n] /\ MultiAt(n)' = MultiAt(n)
          BY <1>3, <2>6, <3>1
        <4>2. CASE n = w
          <5>1. StarAt(w)' = StarAt(w) \cup {id}
            BY <1>3, <1>4, <1>5, <2>6
          <5> QED  BY <1>1, <3>2, <3>3, <4>1, <4>2, <5>1
        <4>3. CASE n # w
          <5>1. StarAt(n)' = StarAt(n) /\ exact_subs'[n] = exact_subs[n]
            BY <1>3, <1>4, <2>6, <3>3, <4>3
          <5> QED  BY <1>1, <4>1, <5>1
        <4> QED  BY <4>2, <4>3
      <3> QED  BY <1>1, <1>3, <2>1, <2>3, <2>4, <3>1, <3>3, <3>4 DEF EngineInv, Holds, Plain
    <2> QED  BY <2>5, <2>6
  <1>6. CASE ~ HasWildcard(p)
    <2> DEFINE ids == Append(exact[p], id)
    <2>1. /\ exact' = [exact EXCEPT ![p] = ids]
          /\ multi_wildcard_subs' = multi_wildcard_subs /\ exact_subs' = exact_subs
          /\ subscriber_count' = subscriber_count /\ has_wildcards' = has_wildcards
      BY <1>6 DEF Insert, trie
    <2>2. p \in Plain /\ ~ HasMulti(p)
      BY <1>6, KindFacts
    <2>3. Holds(ids, {j \in SubIds : live[j] = p} \cup {id}) /\ ids \in Seq(SubIds)
      BY <1>1, <1>3, <2>2, HoldsOneMore
    <2> HIDE DEF ids
    <2>4. /\ exact' \in [Plain -> Seq(SubIds)] /\ exact'[p] = ids
          /\ \A q \in Plain : q # p => exact'[q] = exact[q]
      BY <1>1, <2>1, <2>2, <2>3, ListChange
    <2>5. \A q \in Plain : Holds(exact'[q], {j \in SubIds : live'[j] = q})
      <3> TAKE q \in Plain
      <3>1. CASE q = p
        <4>1. {j \in SubIds : live'[j] = p} = {j \in SubIds : live[j] = p} \cup {id}
          BY <1>3, <2>2
        <4> QED  BY <2>3, <2>4, <3>1, <4>1
      <3>2. CASE q # p
        <4>1. {j \in SubIds : live'[j] = q} = {j \in SubIds : live[j] = q} /\ exact'[q] = exact[q]
          BY <1>3, <2>4, <3>2
        <4> QED  BY <1>1, <4>1
      <3> QED  BY <3>1, <3>2
    <2>6. \A n \in Paths : Holds(multi_wildcard_subs'[n], MultiAt(n)') /\ Holds(exact_subs'[n], StarAt(n)')
      <3> TAKE n \in Paths
      <3>1. MultiAt(n)' = MultiAt(n) /\ StarAt(n)' = StarAt(n)
        BY <1>3, <1>6, <2>2
      <3> QED  BY <1>1, <2>1, <3>1
    <2> QED  BY <1>1, <1>3, <1>6, <2>1, <2>4, <2>5, <2>6 DEF EngineInv, Holds, Plain
  <1> QED  BY <1>5, <1>6

\* RoutingEngine::remove: the counter follows because the one list looked at is the one that can
\* hold the id.
LEMMA RemoveKeeps ==
    ASSUME EngineInv, NEW p \in Patterns, NEW id \in SubIds, Remove(p, id)
    PROVE  EngineInv'
  <1> DEFINE w == WalkEnds(p)
  <1>1. /\ live \in [SubIds -> Patterns \cup {NoPattern}]
        /\ exact \in [Plain -> Seq(SubIds)]
        /\ multi_wildcard_subs \in [Paths -> Seq(SubIds)] /\ exact_subs \in [Paths -> Seq(SubIds)]
        /\ \A q \in Plain : Holds(exact[q], {j \in SubIds : live[j] = q})
        /\ \A n \in Paths : Holds(multi_wildcard_subs[n], MultiAt(n)) /\ Holds(exact_subs[n], StarAt(n))
        /\ IsFiniteSet(WildIds) /\ subscriber_count = Cardinality(WildIds)
        /\ has_wildcards = (subscriber_count # 0)
    BY DEF EngineInv
  <1>2. live[id] \in {p, NoPattern} /\ live' = [live EXCEPT ![id] = NoPattern]
    BY DEF Remove
  <1>3. /\ live' \in [SubIds -> Patterns \cup {NoPattern}]
        /\ \A n : /\ MultiAt(n)' = MultiAt(n) \ {id} /\ StarAt(n)' = StarAt(n) \ {id}
                  /\ id \in MultiAt(n) => HasMulti(p) /\ w = n
                  /\ id \in StarAt(n) => ~ HasMulti(p) /\ HasWildcard(p) /\ p = n
        /\ HasMulti(p) => (id \in MultiAt(w) <=> id \in WildIds)
        /\ HasWildcard(p) /\ ~ HasMulti(p) => (id \in StarAt(p) <=> id \in WildIds)
        /\ ~ HasWildcard(p) => id \notin WildIds
        /\ WildIds' = WildIds \ {id}
        /\ \A q \in Plain :
             /\ {j \in SubIds : live'[j] = q} = {j \in SubIds : live[j] = q} \ {id}
             /\ id \in {j \in SubIds : live[j] = q} => p = q
    BY <1>1, <1>2, RemoveSets
  <1>4. w \in Paths /\ (~ HasMulti(p) => w = p)
    BY WalkEndsFacts, KindFacts
  <1>5. /\ \A n : id \notin MultiAt(n) => MultiAt(n)' = MultiAt(n)
        /\ \A n : id \notin StarAt(n) => StarAt(n)' = StarAt(n)
        /\ id \notin WildIds => WildIds' = WildIds
        /\ \A q \in Plain : p # q => {j \in SubIds : live'[j] = q} = {j \in SubIds : live[j] = q}
    <2>1. \A S : id \notin S => S \ {id} = S
      OBVIOUS
    <2> QED  BY <1>3, <2>1
  <1>6. CASE HasWildcard(p)
    <2> DEFINE ids == IF HasMulti(p) THEN multi_wildcard_subs[w] ELSE exact_subs[w]
               rest == Without(ids, id)
               S == IF HasMulti(p) THEN MultiAt(w) ELSE StarAt(w)
    <2>1. /\ exact' = exact /\ has_wildcards' = (has_wildcards /\ subscriber_count' # 0)
          /\ subscriber_count' = IF Len(rest) < Len(ids) /\ subscriber_count > 0
                                 THEN subscriber_count - 1 ELSE subscriber_count
      BY <1>6 DEF Remove, TrieRemove
    <2>2. /\ HasMulti(p) => multi_wildcard_subs' = [multi_wildcard_subs EXCEPT ![w] = rest] /\ exact_subs' = exact_subs
          /\ ~ HasMulti(p) => exact_subs' = [exact_subs EXCEPT ![w] = rest] /\ multi_wildcard_subs' = multi_wildcard_subs
      BY <1>6 DEF Remove, TrieRemove
    <2>3. Holds(ids, S)
      BY <1>1, <1>4
    <2>4. Holds(rest, S \ {id}) /\ rest \in Seq(SubIds) /\ (Len(rest) < Len(ids) <=> id \in S)
      <3> HIDE DEF ids, S
      <3> QED  BY <2>3, HoldsOneLess
    <2>5. id \in S <=> id \in WildIds
      BY <1>3, <1>4, <1>6
    <2>6. p \notin Plain
      BY <1>6, KindFacts
    <2>7. \A q \in Plain : Holds(exact'[q], {j \in SubIds : live'[j] = q})
      <3> TAKE q \in Plain
      <3>1. {j \in SubIds : live'[j] = q} = {j \in SubIds : live[j] = q}
        BY <1>5, <2>6
      <3> QED  BY <1>1, <2>1, <3>1
    <2>8. IsFiniteSet(WildIds') /\ subscriber_count' = Cardinality(WildIds') /\ has_wildcards' = (subscriber_count' # 0)
      <3> HIDE DEF ids, rest, S
      <3>1. Cardinality(WildIds) \in Nat
        BY <1>1, FS_CardinalityType
      <3>2. CASE id \in WildIds
        <4>1. IsFiniteSet(WildIds \ {id}) /\ Cardinality(WildIds \ {id}) = Cardinality(WildIds) - 1
          BY <1>1, <3>2, FS_RemoveElement
        <4>2. Cardinality(WildIds) # 0
          BY <1>1, <3>2, FS_EmptySet
        <4>3. subscriber_count > 0
          BY <1>1, <3>1, <4>2, SMT
        <4>4. Len(rest) < Len(ids)
          BY <2>4, <2>5, <3>2
        <4>5. subscriber_count' = subscriber_count - 1 /\ has_wildcards = TRUE
          BY <1>1, <2>1, <4>2, <4>3, <4>4
        <4> QED  BY <1>1, <1>3, <2>1, <4>1, <4>5
      <3>3. CASE id \notin WildIds
        <4>1. ~ (Len(rest) < Len(ids))
          BY <2>4, <2>5, <3>3
        <4>2. subscriber_count' = subscriber_count /\ WildIds' = WildIds
          BY <1>5, <2>1, <3>3, <4>1
        <4> QED  BY <1>1, <2>1, <4>2
      <3> QED  BY <3>2, <3>3
    <2>9. CASE HasMulti(p)
      <3>1. multi_wildcard_subs' = [multi_wildcard_subs EXCEPT ![w] = rest] /\ exact_subs' = exact_subs
        BY <2>2, <2>9
      <3>2. Holds(rest, MultiAt(w) \ {id})
        BY <2>4, <2>9
      <3> HIDE DEF ids, rest, S, w
      <3>3. /\ multi_wildcard_subs' \in [Paths -> Seq(SubIds)] /\ multi_wildcard_subs'[w] = rest
            /\ \A n \in Paths : n # w => multi_wildcard_subs'[n] = multi_wildcard_subs[n]
        BY <1>1, <1>4, <2>4, <3>1, ListChange
      <3>4. \A n \in Paths : Holds(multi_wildcard_subs'[n], MultiAt(n)') /\ Holds(exact_subs'[n], StarAt(n)')
        <4> TAKE n \in Paths
        <4>1. exact_subs'[n] = exact_subs[n] /\ StarAt(n)' = StarAt(n)
          BY <1>3, <1>5, <2>9, <3>1
        <4>2. CASE n = w
          <5>1. MultiAt(w)' = MultiAt(w) \ {id}
            BY <1>3
          <5> QED  BY <1>1, <3>2, <3>3, <4>1, <4>2, <5>1
        <4>3. CASE n # w
          <5>1. MultiAt(n)' = MultiAt(n) /\ multi_wildcard_subs'[n] = multi_wildcard_subs[n]
            BY <1>3, <1>5, <3>3, <4>3
          <5> QED  BY <1>1, <4>1, <5>1
        <4> QED  BY <4>2, <4>3
      <3> QED  BY <1>1, <1>3, <2>1, <2>7, <2>8, <3>1, <3>3, <3>4 DEF EngineInv, Holds, Plain
    <2>10. CASE ~ HasMulti(p)
      <3>1. exact_subs' = [exact_subs EXCEPT ![w] = rest] /\ multi_wildcard_subs' = multi_wildcard_subs
        BY <2>2, <2>10
      <3>2. Holds(rest, StarAt(w) \ {id})
        BY <2>4, <2>10
      <3> HIDE DEF ids, rest, S, w
      <3>3. /\ exact_subs' \in [Paths -> Seq(SubIds)] /\ exact_subs'[w] = rest
            /\ \A n \in Paths : n # w => exact_subs'[n] = exact_subs[n]
        BY <1>1, <1>4, <2>4, <3>1, ListChange
      <3>4. \A n \in Paths : Holds(multi_wildcard_subs'[n], MultiAt(n)') /\ Holds(exact_subs'[n], StarAt(n)')
        <4> TAKE n \in Paths
        <4>1. multi_wildcard_subs'[n] = multi_wildcard_subs[n] /\ MultiAt(n)' = MultiAt(n)
          BY <1>3, <1>5, <2>10, <3>1
        <4>2. CASE n = w
          <5>1. StarAt(w)' = StarAt(w) \ {id}
            BY <1>3
          <5> QED  BY <1>1, <3>2, <3>3, <4>1, <4>2, <5>1
        <4>3. CASE n # w
          <5>1. StarAt(n)' = StarAt(n) /\ exact_subs'[n] = exact_subs[n]
            BY <1>3, <1>4, <1>5, <2>10, <3>3, <4>3
          <5> QED  BY <1>1, <4>1, <5>1
        <4> QED  BY <4>2, <4>3
      <3> QED  BY <1>1, <1>3, <2>1, <2>7, <2>8, <3>1, <3>3, <3>4 DEF EngineInv, Holds, Plain
    <2> QED  BY <2>9, <2>10
  <1>7. CASE ~ HasWildcard(p)
    <2> DEFINE rest == Without(exact[p], id)
    <2>1. /\ exact' = [exact EXCEPT ![p] = rest]
          /\ multi_wildcard_subs' = multi_wildcard_subs /\ exact_subs' = exact_subs
          /\ subscriber_count' = subscriber_count /\ has_wildcards' = has_wildcards
      BY <1>7 DEF Remove, trie
    <2>2. p \in Plain /\ ~ HasMulti(p)
      BY <1>7, KindFacts
    <2>3. Holds(rest, {j \in SubIds : live[j] = p} \ {id}) /\ rest \in Seq(SubIds)
      BY <1>1, <2>2, HoldsOneLess
    <2> HIDE DEF rest
    <2>4. /\ exact' \in [Plain -> Seq(SubIds)] /\ exact'[p] = rest
          /\ \A q \in Plain : q # p => exact'[q] = exact[q]
      BY <1>1, <2>1, <2>2, <2>3, ListChange
    <2>5. \A q \in Plain : Holds(exact'[q], {j \in SubIds : live'[j] = q})
      <3> TAKE q \in Plain
      <3>1. CASE q = p
        <4>1. {j \in SubIds : live'[j] = p} = {j \in SubIds : live[j] = p} \ {id}
          BY <1>3, <2>2
        <4> QED  BY <2>3, <2>4, <3>1, <4>1
      <3>2. CASE q # p
        <4>1. {j \in SubIds : live'[j] = q} = {j \in SubIds : live[j] = q} /\ exact'[q] = exact[q]
          BY <1>5, <2>4, <3>2
        <4> QED  BY <1>1, <4>1
      <3> QED  BY <3>1, <3>2
    <2>6. \A n \in Paths : Holds(multi_wildcard_subs'[n], MultiAt(n)') /\ Holds(exact_subs'[n], StarAt(n)')
      <3> TAKE n \in Paths
      <3>1. MultiAt(n)' = MultiAt(n) /\ StarAt(n)' = StarAt(n)
        BY <1>3, <1>5, <1>7, <2>2
      <3> QED  BY <1>1, <2>1, <3>1
    <2>7. WildIds' = WildIds
      BY <1>3, <1>5, <1>7
    <2> QED  BY <1>1, <1>3, <2>1, <2>4, <2>5, <2>6, <2>7 DEF EngineInv, Holds, Plain
  <1> QED  BY <1>6, <1>7

\* It holds of the empty engine.
LEMMA EngineInit ==
    ASSUME Init
    PROVE  EngineInv
  <1>1. live = [id \in SubIds |-> NoPattern] /\ \A id \in SubIds : live[id] = NoPattern
    BY DEF Init
  <1>2. WildIds = {} /\ \A n : MultiAt(n) = {} /\ StarAt(n) = {}
    BY <1>1 DEF WildIds, MultiAt, StarAt
  <1>3. \A p \in Plain : {id \in SubIds : live[id] = p} = {}
    BY <1>1, KindFacts
  <1>4. << >> \in Seq(SubIds)
    BY EmptyFacts
  <1>5. \A p \in Plain : Holds(exact[p], {id \in SubIds : live[id] = p})
    BY <1>3, HoldsNone DEF Init, Plain
  <1>6. \A n \in Paths : Holds(multi_wildcard_subs[n], MultiAt(n)) /\ Holds(exact_subs[n], StarAt(n))
    BY <1>2, HoldsNone DEF Init
  <1>7. IsFiniteSet(WildIds) /\ Cardinality(WildIds) = 0
    BY <1>2, FS_EmptySet
  <1>8. /\ exact \in [Plain -> Seq(SubIds)]
        /\ multi_wildcard_subs \in [Paths -> Seq(SubIds)] /\ exact_subs \in [Paths -> Seq(SubIds)]
    BY <1>4 DEF Init, Plain
  <1>9. subscriber_count = 0 /\ has_wildcards = (subscriber_count # 0)
    BY DEF Init
  <1>10. live \in [SubIds -> Patterns \cup {NoPattern}]
    BY <1>1
  <1> QED  BY <1>5, <1>6, <1>7, <1>8, <1>9, <1>10 DEF EngineInv

-----------------------------------------------------------------------------
(* The theorems *)

\* The inductive invariant of the session with permissions: the engine's, and that whatever the
\* session has subscribed to was covered, and whatever was refused was not.
AccessInv ==
    /\ EngineInv
    /\ subscribe_patterns = {} \/ \E p \in Patterns : subscribe_patterns = {p}
    /\ \A id \in OwnIds : live[id] # NoPattern =>
           subscribe_patterns = {} \/ \E p \in subscribe_patterns : is_pattern_covered(live[id], p)
    /\ refused # << >> => refused \in Patterns /\ ~ can_subscribe(refused)

\* AccessInv holds in every state: of every engine, whatever its patterns, subjects and
\* subscriptions, for permissions of one pattern.
THEOREM AccessInvariant ==
    AccessSpec => []AccessInv
  <1> DEFINE allVars == <<vars, subscribe_patterns, refused>>
  <1>1. ASSUME AccessInit  PROVE AccessInv
    <2>1. EngineInv
      BY <1>1, EngineInit DEF AccessInit
    <2>2. \A id \in SubIds : live[id] = NoPattern
      BY <1>1 DEF AccessInit, Init
    <2>3. (subscribe_patterns = {} \/ \E p \in Patterns : subscribe_patterns = {p}) /\ refused = << >>
      BY <1>1 DEF AccessInit
    <2> QED  BY <2>1, <2>2, <2>3, OwnAssumption DEF AccessInv
  <1>2. ASSUME AccessInv, [AccessNext]_allVars  PROVE AccessInv'
    <2>0. \A id \in OwnIds : id \in SubIds
      BY OwnAssumption
    <2>1. ASSUME NEW raw \in RawPatterns, Refuse(raw)  PROVE AccessInv'
      <3>1. raw \in Patterns
        BY <2>1 DEF Refuse, Patterns
      <3>2. /\ refused' = raw /\ ~ can_subscribe(raw) /\ subscribe_patterns' = subscribe_patterns
            /\ live' = live /\ exact' = exact /\ multi_wildcard_subs' = multi_wildcard_subs
            /\ exact_subs' = exact_subs /\ subscriber_count' = subscriber_count /\ has_wildcards' = has_wildcards
        BY <2>1 DEF Refuse, vars, trie
      <3>3. EngineInv'
        BY <1>2, <3>2 DEF AccessInv, EngineInv, MultiAt, StarAt, WildIds
      <3>4. can_subscribe(raw)' <=> can_subscribe(raw)
        BY <3>2 DEF can_subscribe
      <3>5. ~ can_subscribe(refused)'
        BY <3>2, <3>4 DEF can_subscribe
      <3> QED  BY <1>2, <3>1, <3>2, <3>3, <3>5 DEF AccessInv
    <2>2. ASSUME NEW raw \in RawPatterns, NEW id \in OwnIds, Sub(raw, id)  PROVE AccessInv'
      <3>1. raw \in Patterns
        BY <2>2 DEF Sub, Patterns
      <3>2. /\ refused' = refused /\ refused = << >> /\ can_subscribe(raw) /\ Insert(raw, id)
            /\ subscribe_patterns' = subscribe_patterns
        BY <2>2 DEF Sub
      <3>3. EngineInv'
        BY <1>2, <2>0, <3>1, <3>2, InsertKeeps DEF AccessInv
      <3>4. live'[id] = raw /\ \A j \in SubIds : j # id => live'[j] = live[j]
        BY <1>2, <2>0, <3>2 DEF AccessInv, EngineInv, Insert
      <3>5. \A j \in OwnIds : live'[j] # NoPattern =>
              subscribe_patterns = {} \/ \E p \in subscribe_patterns : is_pattern_covered(live'[j], p)
        BY <1>2, <2>0, <3>2, <3>4 DEF AccessInv, can_subscribe
      <3> QED  BY <1>2, <3>2, <3>3, <3>5 DEF AccessInv
    <2>3. ASSUME NEW p \in Patterns, NEW id \in SubIds, Others(p, id)  PROVE AccessInv'
      <3>1. /\ refused' = refused /\ refused = << >> /\ subscribe_patterns' = subscribe_patterns
            /\ (id \notin OwnIds /\ Insert(p, id)) \/ Remove(p, id)
        BY <2>3 DEF Others
      <3>2. EngineInv'
        BY <1>2, <3>1, InsertKeeps, RemoveKeeps DEF AccessInv
      <3>3. /\ \A j \in SubIds : j # id => live'[j] = live[j]
            /\ id \in OwnIds => live'[id] = NoPattern
        BY <1>2, <3>1 DEF AccessInv, EngineInv, Insert, Remove
      <3>4. \A j \in OwnIds : live'[j] # NoPattern => live'[j] = live[j]
        BY <2>0, <3>3
      <3> QED  BY <1>2, <3>1, <3>2, <3>4 DEF AccessInv
    <2>4. CASE UNCHANGED allVars
      <3>1. /\ refused' = refused /\ subscribe_patterns' = subscribe_patterns
            /\ live' = live /\ exact' = exact /\ multi_wildcard_subs' = multi_wildcard_subs
            /\ exact_subs' = exact_subs /\ subscriber_count' = subscriber_count /\ has_wildcards' = has_wildcards
        BY <2>4 DEF vars, trie
      <3>2. EngineInv'
        BY <1>2, <3>1 DEF AccessInv, EngineInv, MultiAt, StarAt, WildIds
      <3> QED  BY <1>2, <3>1, <3>2 DEF AccessInv, can_subscribe
    <2> QED  BY <1>2, <2>1, <2>2, <2>3, <2>4 DEF AccessNext
  <1> QED  BY <1>1, <1>2, PTL DEF AccessSpec

\* RoutingEngine::match_subject returns exactly the live subscriptions whose pattern selects the
\* subject, each once, after any sequence of inserts and removes.
THEOREM AccessMatchesAgree ==
    AccessSpec => []MatchesAgree
  <1>1. AccessInv => MatchesAgree
    BY EngineMatches DEF AccessInv
  <1> QED  BY <1>1, AccessInvariant, PTL

\* A session with permissions is sent only what they cover: is_pattern_covered at SUB is
\* enough for every subject routed later.
THEOREM AccessWithinPermissions ==
    AccessSpec => []DeliversWithinPermissions
  <1>1. ASSUME AccessInv  PROVE DeliversWithinPermissions
    <2> SUFFICES ASSUME subscribe_patterns # {}, NEW s \in Subjects, Range(match_subject(s)) \cap OwnIds # {}
                 PROVE  \E p \in subscribe_patterns : Selects(p, s)
      BY DEF DeliversWithinPermissions
    <2>1. MatchesAgree
      BY <1>1, EngineMatches DEF AccessInv
    <2>2. PICK id \in OwnIds : id \in SubIds /\ live[id] # NoPattern /\ Selects(live[id], s)
      BY <2>1 DEF MatchesAgree
    <2>3. PICK p \in subscribe_patterns : is_pattern_covered(live[id], p)
      BY <1>1, <2>2 DEF AccessInv
    <2>4. p \in Patterns /\ live[id] \in Patterns
      BY <1>1, <2>2 DEF AccessInv, EngineInv
    <2>5. Selects(p, s)
      BY <2>2, <2>3, <2>4, CoverSound
    <2> QED  BY <2>5
  <1> QED  BY <1>1, AccessInvariant, PTL

\* A SUB is denied only for a pattern that the permissions do not cover: some subject it selects
\* is one the allowed pattern does not.
THEOREM AccessDeniesOnlyTheUncovered ==
    AccessSpec => []DeniesOnlyTheUncovered
  <1>1. ASSUME AccessInv  PROVE DeniesOnlyTheUncovered
    <2> SUFFICES ASSUME refused # << >>, Len(refused) < MaxTokens
                 PROVE  \E s \in Subjects : Selects(refused, s) /\ \A p \in subscribe_patterns : ~ Selects(p, s)
      BY DEF DeniesOnlyTheUncovered
    <2>1. refused \in Patterns /\ ~ can_subscribe(refused)
      BY <1>1 DEF AccessInv
    <2>2. PICK p \in Patterns : subscribe_patterns = {p}
      BY <1>1, <2>1 DEF AccessInv, can_subscribe
    <2>3. ~ is_pattern_covered(refused, p)
      BY <2>1, <2>2 DEF can_subscribe
    <2>4. PICK s \in Subjects : Selects(refused, s) /\ ~ Selects(p, s)
      BY <2>1, <2>3, CoverComplete
    <2> QED  BY <2>2, <2>4
  <1> QED  BY <1>1, AccessInvariant, PTL

===============================================================================

----------------------------- MODULE RewriteProofs -----------------------------
(* Proofs about RewriteFiles and RewriteCommand, for every value of their    *)
(* constants.                                                                *)
EXTENDS RewriteCommand, FiniteSetTheorems, FunctionTheorems, WellFoundedInduction, TLAPS

-----------------------------------------------------------------------------
(* Texts.                                                                    *)

(* What a use is to become is a target and nothing mutable and locked.       *)
LEMMA WantedIsPinned ==
    ASSUME NEW t \in UseTargets
    PROVE  Wanted(t) \in UseTargets \ DOMAIN PinOf
  BY PinsAssumption DEF Wanted

(* The token at a place.  An alias says what its anchor says, and an anchor  *)
(* is spelled out where it stands.                                           *)
LEMMA LineFacts ==
    ASSUME NEW t \in Drafts, NEW l \in Lines, t[l] # Other
    PROVE  /\ l \in TokensIn(t) /\ t[l] \in Token /\ t[l][1] \in SUBSET Paths
           /\ t[l] = <<t[l][1], t[l][2], t[l][3]>>
           /\ \/ t[l][2] = Nowhere /\ t[l][3] = Nowhere
              \/ /\ t[l][2] \in UseTargets /\ t[l][3] \in Lines
                 /\ t[t[l][3]] # Other
                 /\ t[t[l][3]][3] = t[l][3]
                 /\ t[t[l][3]][2] = t[l][2]
<1>1. t \in [Lines -> Token \cup {Other}]
  BY DEF Drafts
<1>2. t[l] \in Token
  BY <1>1
<1>3. l \in TokensIn(t)
  BY DEF TokensIn
<1>4. t[l][3] # Nowhere => /\ t[l][3] \in TokensIn(t)
                           /\ t[t[l][3]][3] = t[l][3]
                           /\ t[t[l][3]][2] = t[l][2]
  BY <1>3 DEF Drafts
<1>5. t[l][3] # Nowhere => t[t[l][3]] # Other
  BY <1>4 DEF TokensIn
<1>6. CASE t[l] \in (SUBSET Paths) \X UseTargets \X Lines
  <2>1. t[l][3] # Nowhere
    BY <1>6, MarksAssumption
  <2> QED
    BY <1>2, <1>3, <1>4, <1>5, <1>6, <2>1
<1>7. CASE t[l] \in (SUBSET Paths) \X {Nowhere} \X {Nowhere}
  BY <1>2, <1>3, <1>7
<1> QED
  BY <1>2, <1>6, <1>7 DEF Token

(* What a candidate has on a line: what the original has there, or the pin   *)
(* of the target parsed there, or, for an alias that is not replaced, of the *)
(* target parsed at its anchor.                                              *)
LEMMA CandidateLine ==
    ASSUME NEW original \in Drafts, NEW result \in Drafts, NEW l \in Lines
    PROVE  LET c == Candidate(original, result)
               a == original[l][3]
           IN  \/ original[l] = Other /\ c[l] = Other
               \/ /\ original[l] # Other
                  /\ l \in Mutable(result) /\ result[l][2] \in DOMAIN PinOf
                  /\ c[l] = <<original[l][1], PinOf[result[l][2]], l>>
               \/ /\ original[l] # Other
                  /\ l \notin Mutable(result)
                  /\ a \in Mutable(result) /\ result[a][2] \in DOMAIN PinOf
                  /\ a \in Lines /\ a # l
                  /\ c[l] = <<original[l][1], PinOf[result[a][2]], a>>
               \/ /\ original[l] # Other
                  /\ l \notin Mutable(result) /\ a \notin Mutable(result)
                  /\ c[l] = original[l]
<1> DEFINE Spelled(k) == IF k \in Mutable(result) THEN k ELSE original[k][3]
<1>1. original # Broken
  BY MarksAssumption
<1>2. Candidate(original, result) =
        [k \in Lines |->
           IF original[k] = Other \/ Spelled(k) \notin Mutable(result) THEN original[k]
           ELSE <<original[k][1], PinOf[result[Spelled(k)][2]], Spelled(k)>>]
  BY <1>1 DEF Candidate
<1>3. \A k \in Mutable(result) : k \in Lines /\ result[k][2] \in DOMAIN PinOf
  BY DEF Mutable, UsesIn, TokensIn
<1> QED
  BY <1>2, <1>3

(* A candidate is a draft with the original's tokens, on the same lines.     *)
LEMMA CandidateTyped ==
    ASSUME NEW original \in Drafts, NEW result \in Drafts
    PROVE  /\ Candidate(original, result) \in Drafts
           /\ TokensIn(Candidate(original, result)) = TokensIn(original)
           /\ \A l \in TokensIn(original) :
                 Candidate(original, result)[l][1] = original[l][1]
<1> DEFINE c == Candidate(original, result)
<1>1. ASSUME NEW l \in Lines, original[l] # Other
      PROVE  /\ c[l] \in Token /\ c[l] # Other /\ c[l][1] = original[l][1]
             /\ c[l][3] # Nowhere => /\ original[c[l][3]] # Other /\ c[l][3] \in Lines
                                     /\ c[c[l][3]][3] = c[l][3]
                                     /\ c[c[l][3]][2] = c[l][2]
  <2> DEFINE a == original[l][3]
  <2>1. /\ original[l] \in Token
        /\ original[l][1] \in SUBSET Paths
        /\ \/ a = Nowhere
           \/ /\ a \in Lines
              /\ original[a] # Other /\ original[a][3] = a
              /\ original[a][2] = original[l][2]
    BY <1>1, LineFacts
  <2>2. \A k \in DOMAIN PinOf : PinOf[k] \in UseTargets
    BY PinsAssumption
  <2>3. CASE /\ l \in Mutable(result) /\ result[l][2] \in DOMAIN PinOf
             /\ c[l] = <<original[l][1], PinOf[result[l][2]], l>>
    <3>1. c[l] \in Token
      BY <2>1, <2>2, <2>3 DEF Token
    <3> QED
      BY <1>1, <2>3, <3>1, MarksAssumption
  <2>4. CASE /\ a \in Mutable(result) /\ result[a][2] \in DOMAIN PinOf /\ a \in Lines
             /\ c[l] = <<original[l][1], PinOf[result[a][2]], a>>
    <3>1. c[l] \in Token
      BY <2>1, <2>2, <2>4 DEF Token
    <3>2. a # Nowhere
      BY <2>4, MarksAssumption
    <3>3. c[a] = <<original[a][1], PinOf[result[a][2]], a>>
      BY <2>1, <2>4, <3>2, CandidateLine
    <3> QED
      BY <2>1, <2>4, <3>1, <3>2, <3>3, MarksAssumption
  <2>5. CASE a \notin Mutable(result) /\ c[l] = original[l]
    <3>1. a # Nowhere => c[a] = original[a]
      BY <2>1, <2>5, CandidateLine
    <3> QED
      BY <1>1, <2>1, <2>5, <3>1
  <2> QED
    BY <1>1, <2>3, <2>4, <2>5, CandidateLine
<1>2. \A l \in Lines : original[l] = Other => c[l] = Other
  BY CandidateLine
<1>3. c \in [Lines -> Token \cup {Other}]
  <2>1. c = [l \in Lines |-> c[l]]
    BY MarksAssumption DEF Candidate
  <2>2. \A l \in Lines : c[l] \in Token \cup {Other}
    BY <1>1, <1>2
  <2> HIDE DEF c
  <2> QED
    BY <2>1, <2>2
<1> HIDE DEF c
<1>4. TokensIn(c) = TokensIn(original)
  BY <1>1, <1>2 DEF TokensIn
<1>5. \A l \in TokensIn(original) : c[l][1] = original[l][1]
  BY <1>1 DEF TokensIn
<1>6. \A l, m \in TokensIn(c) : c[l][1] \cap c[m][1] # {} => l = m
  BY <1>4, <1>5 DEF Drafts
<1>7. ASSUME NEW l \in TokensIn(c), c[l][3] # Nowhere
      PROVE  c[l][3] \in TokensIn(c) /\ c[c[l][3]][3] = c[l][3] /\ c[c[l][3]][2] = c[l][2]
  BY <1>1, <1>4, <1>7 DEF TokensIn
<1>8. c \in Drafts
  BY <1>3, <1>6, <1>7 DEF Drafts
<1> QED
  BY <1>4, <1>5, <1>8 DEF c

(* A use that a checked candidate leaves alone, itself and by its anchor, is *)
(* not one to pin, whatever parse result the candidate was made from; and    *)
(* one that follows its anchor has the pin of its own target.                *)
LEMMA CandidateChecked ==
    ASSUME NEW original \in Drafts, NEW result \in Parsed, Located(original, result),
           Checks(Candidate(original, result), result), NEW l \in Lines, original[l] # Other
    PROVE  LET c == Candidate(original, result)
           IN  \/ /\ l \in AliasesIn(original) \cap Mutable(result)
                  /\ result[l][2] \in DOMAIN PinOf
                  /\ c[l] = <<original[l][1], PinOf[result[l][2]], l>>
               \/ /\ l \notin AliasesIn(original)
                  /\ original[l][2] \in DOMAIN PinOf
                  /\ c[l] = <<original[l][1], PinOf[original[l][2]], l>>
               \/ /\ l \in AliasesIn(original)
                  /\ original[l][2] \in DOMAIN PinOf
                  /\ c[l] = <<original[l][1], PinOf[original[l][2]], original[l][3]>>
               \/ /\ original[l][1] = {} \/ original[l][2] \notin DOMAIN PinOf
                  /\ c[l] = original[l]
<1> DEFINE c == Candidate(original, result)
           a == original[l][3]
<1>1. original # Broken /\ result \in Drafts
  BY MarksAssumption DEF Parsed
<1>2. l \in TokensIn(original)
  BY DEF TokensIn
<1>3. CASE /\ l \in Mutable(result) /\ result[l][2] \in DOMAIN PinOf
           /\ c[l] = <<original[l][1], PinOf[result[l][2]], l>>
  BY <1>1, <1>2, <1>3 DEF Located
<1>4. CASE /\ a \in Mutable(result) /\ result[a][2] \in DOMAIN PinOf
           /\ a \in Lines /\ a # l
           /\ c[l] = <<original[l][1], PinOf[result[a][2]], a>>
  <2>0. a # Nowhere
    BY <1>4, MarksAssumption
  <2>1. original[a] # Other /\ original[a][3] = a /\ original[a][2] = original[l][2]
    BY <1>4, <2>0, LineFacts
  <2>2. a \in TokensIn(original) /\ a \notin AliasesIn(original)
    BY <1>4, <2>1 DEF TokensIn, AliasesIn
  <2>3. original[a][2] = result[a][2]
    BY <1>1, <1>4, <2>2 DEF Located
  <2>4. l \in AliasesIn(original)
    BY <1>2, <1>4 DEF AliasesIn
  <2> QED
    BY <1>4, <2>1, <2>3, <2>4
<1>5. CASE l \notin Mutable(result) /\ a \notin Mutable(result) /\ c[l] = original[l]
  <2>1. CASE original[l][1] = {}
    BY <1>5, <2>1
  <2>2. CASE original[l][1] # {}
    <3>1. l \in UsesIn(c)
      BY <1>5, <2>2 DEF UsesIn, TokensIn
    <3>2. PICK p : p \in c[l][1]
      BY <1>5, <2>2
    <3>3. p \in PathsIn(result)
      BY <3>1, <3>2 DEF Checks, PathsIn
    <3>4. PICK m \in UsesIn(result) : p \in result[m][1]
      BY <3>3 DEF PathsIn
    <3>5. c[l][2] = Wanted(result[m][2])
      BY <3>1, <3>2, <3>4 DEF Checks
    <3>6. m \in Lines /\ result[m] # Other /\ result[m][3] # Nowhere
      BY <3>4 DEF UsesIn, TokensIn, Parsed
    <3>7. result[m][2] \in UseTargets
      BY <1>1, <3>6, LineFacts
    <3> QED
      BY <1>5, <3>5, <3>7, WantedIsPinned
  <2> QED
    BY <2>1, <2>2
<1> QED
  BY <1>1, <1>3, <1>4, <1>5, CandidateLine

(* A text that is its own parse result is pinned by its replacements.        *)
LEMMA OwnCandidate ==
    ASSUME NEW t \in Parsed
    PROVE  /\ Candidate(t, t) = PinText(t) /\ PinText(t) \in Parsed
           /\ Mutable(t) = {} => PinText(t) = t
<1> DEFINE PinnedLine(l) ==
             IF l \in Mutable(t) THEN <<t[l][1], PinOf[t[l][2]], l>>
             ELSE IF l \in AliasesIn(t) /\ t[l][3] \in Mutable(t)
                  THEN <<t[l][1], PinOf[t[l][2]], t[l][3]>>
             ELSE t[l]
<1>1. t \in Drafts /\ t \in [Lines -> Token \cup {Other}]
  BY DEF Parsed, Drafts
<1>2. PinText(t) = [l \in Lines |-> PinnedLine(l)]
  BY DEF PinText
<1>3. /\ Candidate(t, t) \in Drafts
      /\ TokensIn(Candidate(t, t)) = TokensIn(t)
  BY <1>1, CandidateTyped
<1>4. ASSUME NEW l \in Lines, t[l] = Other
      PROVE  Candidate(t, t)[l] = PinnedLine(l)
  BY <1>1, <1>4, CandidateLine DEF Mutable, UsesIn, AliasesIn, TokensIn
<1>5. ASSUME NEW l \in Lines, t[l] # Other
      PROVE  /\ Candidate(t, t)[l] = PinnedLine(l)
             /\ Candidate(t, t)[l][3] # Nowhere
  <2>1. l \in TokensIn(t) /\ t[l][3] # Nowhere /\ t[t[l][3]][2] = t[l][2]
    <3>1. l \in TokensIn(t)
      BY <1>5 DEF TokensIn
    <3> QED
      BY <1>1, <1>5, <3>1, LineFacts DEF Parsed
  <2>2. t[l][3] # l <=> l \in AliasesIn(t)
    BY <2>1 DEF AliasesIn
  <2>3. CASE /\ l \in Mutable(t)
             /\ Candidate(t, t)[l] = <<t[l][1], PinOf[t[l][2]], l>>
    BY <2>3, MarksAssumption
  <2>4. CASE /\ l \notin Mutable(t) /\ t[l][3] \in Mutable(t) /\ t[l][3] # l
             /\ Candidate(t, t)[l] = <<t[l][1], PinOf[t[t[l][3]][2]], t[l][3]>>
    BY <2>1, <2>2, <2>4
  <2>5. CASE /\ l \notin Mutable(t) /\ t[l][3] \notin Mutable(t)
             /\ Candidate(t, t)[l] = t[l]
    BY <2>1, <2>5
  <2> QED
    BY <1>1, <1>5, <2>3, <2>4, <2>5, CandidateLine
<1>6. Candidate(t, t) = PinText(t)
  <2>1. Candidate(t, t) = [l \in Lines |-> Candidate(t, t)[l]]
    BY <1>3 DEF Drafts
  <2>2. \A l \in Lines : Candidate(t, t)[l] = PinnedLine(l)
    BY <1>4, <1>5
  <2> HIDE DEF PinnedLine
  <2> QED
    BY <1>2, <2>1, <2>2
<1>7. PinText(t) \in Parsed
  <2>1. \A l \in TokensIn(t) : l \in Lines /\ t[l] # Other
    BY DEF TokensIn
  <2> QED
    BY <1>3, <1>5, <1>6, <2>1 DEF Parsed
<1>8. ASSUME Mutable(t) = {}
      PROVE  PinText(t) = t
  <2>1. \A l \in Lines : PinnedLine(l) = t[l]
    BY <1>8
  <2> HIDE DEF PinnedLine
  <2> QED
    BY <1>1, <1>2, <2>1
<1> QED
  BY <1>6, <1>7, <1>8

(* A checked candidate is faithful to the text it was made of, and one of    *)
(* its forms; where there is no alias it has the uses of the pinned form.    *)
LEMMA CandidateFaithful ==
    ASSUME NEW original \in Texts, NEW result \in Parsed, Located(original, result),
           Checks(Candidate(original, result), result)
    PROVE  LET c == Candidate(original, result)
           IN  /\ Faithful(original, c, result)
               /\ c \in FormsOf(original)
               /\ (original \in Parsed /\ AliasesIn(original) = {})
                    => \A l \in Lines : UseOn(c, l) = UseOn(PinText(original), l)
<1> DEFINE c == Candidate(original, result)
<1>1. c \in Parsed /\ original \in Drafts /\ original # Broken
  <2>1. c \in Parsed /\ c \in Drafts
    BY DEF Checks, Parsed
  <2>2. original # Broken
    BY <2>1, MarksAssumption DEF Candidate
  <2> QED
    BY <2>1, <2>2 DEF Texts
<1>2. result \in Drafts
  BY DEF Parsed
<1>3. ASSUME NEW l \in Lines, original[l] = Other
      PROVE  c[l] = Other
  BY <1>1, <1>2, <1>3, CandidateLine
<1>4. ASSUME NEW l \in Lines, original[l] # Other
      PROVE  c[l] # Other /\ c[l][1] = original[l][1]
  BY <1>1, <1>2, <1>4, CandidateTyped DEF TokensIn
<1>5. ASSUME NEW l \in Lines, original[l] # Other
      PROVE  \/ c[l][2] = Wanted(original[l][2])
             \/ original[l][1] = {} /\ c[l][2] = original[l][2]
             \/ /\ l \in AliasesIn(original) \cap Mutable(result)
                /\ c[l][2] = PinOf[result[l][2]] /\ result[l][2] \in DOMAIN PinOf
  <2>1. CASE /\ l \in AliasesIn(original) \cap Mutable(result)
             /\ result[l][2] \in DOMAIN PinOf
             /\ c[l] = <<original[l][1], PinOf[result[l][2]], l>>
    BY <2>1
  <2>2. CASE /\ original[l][2] \in DOMAIN PinOf
             /\ \/ c[l] = <<original[l][1], PinOf[original[l][2]], l>>
                \/ c[l] = <<original[l][1], PinOf[original[l][2]], original[l][3]>>
    BY <2>2 DEF Wanted
  <2>3. CASE /\ original[l][1] = {} \/ original[l][2] \notin DOMAIN PinOf
             /\ c[l] = original[l]
    BY <2>3 DEF Wanted
  <2> QED
    BY <1>1, <1>5, <2>1, <2>2, <2>3, CandidateChecked
<1>6. ASSUME original \in Parsed, AliasesIn(original) = {}, NEW l \in Lines
      PROVE  UseOn(c, l) = UseOn(PinText(original), l)
  <2> DEFINE u == PinText(original)
  <2>1. u \in Parsed
    BY <1>6, OwnCandidate
  <2>2. u[l] = IF l \in Mutable(original) THEN <<original[l][1], PinOf[original[l][2]], l>>
               ELSE original[l]
    BY <1>6 DEF PinText
  <2>3. CASE original[l] = Other
    <3>1. l \notin Mutable(original)
      BY <2>3 DEF Mutable, UsesIn, TokensIn
    <3> QED
      BY <1>1, <1>3, <2>1, <2>2, <2>3, <3>1 DEF UseOn, UsesIn, TokensIn
  <2>4. CASE original[l] # Other /\ original[l][1] = {}
    <3>1. l \notin Mutable(original)
      BY <2>4 DEF Mutable, UsesIn
    <3>2. l \notin UsesIn(c) /\ l \notin UsesIn(u)
      BY <1>4, <2>2, <2>4, <3>1 DEF UsesIn
    <3> QED
      BY <1>1, <2>1, <3>2 DEF UseOn
  <2>5. CASE original[l] # Other /\ original[l][1] # {}
    <3>1. l \in Mutable(original) <=> original[l][2] \in DOMAIN PinOf
      BY <2>5 DEF Mutable, UsesIn, TokensIn
    <3>2. c[l] = u[l]
      BY <1>1, <1>6, <2>2, <2>5, <3>1, CandidateChecked
    <3>3. l \in UsesIn(c) <=> l \in UsesIn(u)
      BY <3>2 DEF UsesIn, TokensIn
    <3> QED
      BY <1>1, <2>1, <3>2, <3>3 DEF UseOn
  <2> QED
    BY <2>3, <2>4, <2>5
<1> HIDE DEF c
<1>7. Faithful(original, c, result)
  BY <1>3, <1>4, <1>5 DEF Faithful, PinnedAt
<1>8. c \in FormsOf(original)
  BY <1>1, <1>3, <1>4, <1>5 DEF FormsOf, PinnedAt
<1>9. c = Candidate(original, result)
  BY DEF c
<1> QED
  BY <1>6, <1>7, <1>8, <1>9

-----------------------------------------------------------------------------
(* Types.                                                                    *)

(* A listing names files, each once and in order.                            *)
LEMMA ListingFacts ==
    ASSUME NEW s \in Listings
    PROVE  /\ s \in Seq(Files)
           /\ \A i, j \in DOMAIN s : s[i] = s[j] => i = j
<1>1. IsFiniteSet(Existing)
  BY OrderedFiles, FS_Subset DEF Existing
<1>2. Cardinality(Existing) \in Nat
  BY <1>1, FS_CardinalityType
<1>3. s \in [1 .. Cardinality(Existing) -> Files]
  BY DEF Listings, Existing
<1>4. ASSUME NEW i \in DOMAIN s, NEW j \in DOMAIN s, s[i] = s[j]
      PROVE  i = j
  <2> DEFINE n == Cardinality(Existing)
  <2>1. i \in Nat /\ j \in Nat /\ s[i] \in Nat
    <3>1. n \in Nat /\ s \in [1 .. n -> Files]
      BY <1>2, <1>3
    <3> HIDE DEF n
    <3>2. i \in 1 .. n /\ j \in 1 .. n
      BY <3>1
    <3> QED
      <4>1. i \in Nat /\ j \in Nat
        BY <3>1, <3>2
      <4>2. s[i] \in Files
        BY <3>1, <3>2
      <4> QED
        BY <4>1, <4>2, OrderedFiles
  <2>2. ~(i < j) /\ ~(j < i)
    BY <1>4, <2>1 DEF Listings
  <2> QED
    BY <2>1, <2>2
<1> QED
  BY <1>2, <1>3, <1>4

(* The empty sequence is one of each kind.                                   *)
LEMMA EmptySeqs ==
    /\ <<>> \in Seq(Files) /\ <<>> \in Seq(Texts \cup {Gone})
    /\ <<>> \in Seq(Rewrites) /\ Len(<<>>) = 0
  OBVIOUS

(* What Cleared leaves is typed.                                             *)
LEMMA ClearedTyped ==
    ASSUME TypeOK, Cleared, UNCHANGED <<text, edits>>, listed' \in Seq(Files),
           pc' \in {"idle", "list"}, exit' \in {None, 0, 1}
    PROVE  TypeOK'
<1>1. /\ again' \in Seq(Files) /\ results' \in Seq(Texts \cup {Gone})
      /\ prepared' \in Seq(Rewrites) /\ Len(prepared') = 0
  BY EmptySeqs DEF Cleared
<1>2. committed' \in 0 .. Len(prepared') /\ next' \in Nat \ {0} /\ staged' = FALSE
  BY <1>1 DEF Cleared
<1> QED
  BY <1>1, <1>2 DEF TypeOK, Cleared

(* The rewrite at hand, while there is one.                                  *)
LEMMA CurrentTyped ==
    ASSUME TypeOK,
           \/ pc = "commit" /\ committed < Len(prepared)
           \/ pc = "restore" /\ committed > 0
    PROVE  Current \in Rewrites
<1>1. CASE pc = "commit" /\ committed < Len(prepared)
  BY <1>1 DEF TypeOK, Current
<1>2. CASE pc = "restore" /\ committed > 0
  BY <1>2 DEF TypeOK, Current
<1> QED
  BY <1>1, <1>2

(* Every variable of a rewrite holds a value of its kind: no candidate is    *)
(* made from a rejected parse, and no more files are replaced than prepared. *)
THEOREM RewriteTypeCorrect == Spec => []TypeOK
<1>1. Init => TypeOK
  <2> SUFFICES ASSUME Init PROVE TypeOK
    OBVIOUS
  <2>1. committed \in 0 .. Len(prepared) /\ next \in Nat \ {0}
    BY EmptySeqs DEF Init
  <2>2. text \in [Files -> Texts \cup {Gone}] /\ edits \in 0 .. MaxEdits
    BY EditsAssumption DEF Init
  <2> QED
    BY <2>1, <2>2, EmptySeqs DEF Init, TypeOK
<1>2. TypeOK /\ [Next]_vars => TypeOK'
  <2> SUFFICES ASSUME TypeOK, [Next]_vars PROVE TypeOK'
    OBVIOUS
  <2>1. CASE Start
    BY <2>1, ListingFacts, ClearedTyped DEF Start
  <2>2. CASE ListAgain
    BY <2>2, ListingFacts DEF ListAgain, TypeOK, workVars, history
  <2>3. CASE Parse
    <3>1. text[again[Len(results) + 1]] \in Texts \cup {Gone}
      BY <2>3 DEF Parse, TypeOK
    <3>2. results' \in Seq(Texts \cup {Gone})
      BY <2>3, <3>1 DEF Parse, TypeOK
    <3> QED
      BY <2>3, <3>2 DEF Parse, TypeOK, workVars, history
  <2>4. ASSUME NEW code \in {None, 0, 1}, Ends(code)
        PROVE  TypeOK'
    BY <2>4, ClearedTyped DEF Ends
  <2>5. CASE Accept
    BY <2>5 DEF Accept, TypeOK, planVars, workVars, history
  <2>6. CASE Prepare
    <3> DEFINE f         == listed[next]
               original  == text[f]
               candidate == Candidate(original, results[next])
    <3>1. next \in DOMAIN listed /\ next \in DOMAIN results
      BY <2>6 DEF Prepare, Pairs, TypeOK
    <3>2. f \in Files /\ original \in Texts /\ results[next] \in Parsed
      BY <2>6, <3>1 DEF Prepare, TypeOK
    <3>3. prepared' # prepared => candidate \in Texts
      BY <2>6, <3>2, CandidateFaithful DEF Prepare, FormsOf, Parsed, Texts
    <3> DEFINE r == [file |-> f, original |-> original, candidate |-> candidate]
    <3>4. prepared' \in Seq(Rewrites) /\ committed \in 0 .. Len(prepared')
      <4>1. prepared' # prepared => r \in Rewrites
        BY <3>2, <3>3 DEF Rewrites
      <4>2. prepared' = prepared \/ prepared' = Append(prepared, r)
        BY <2>6 DEF Prepare
      <4> HIDE DEF r
      <4>3. prepared \in Seq(Rewrites) /\ committed \in 0 .. Len(prepared)
        BY DEF TypeOK
      <4>4. CASE prepared' = prepared
        BY <4>3, <4>4
      <4>5. CASE prepared' # prepared /\ prepared' = Append(prepared, r)
        BY <4>1, <4>3, <4>5
      <4> QED
        BY <4>2, <4>4, <4>5
    <3>5. next' \in Nat \ {0}
      BY <2>6 DEF Prepare, TypeOK
    <3> QED
      BY <2>6, <3>4, <3>5 DEF Prepare, TypeOK, planVars, history
  <2>7. CASE Prepared
    BY <2>7 DEF Prepared, TypeOK, planVars, workVars, history
  <2>8. CASE Stage
    BY <2>8 DEF Stage, TypeOK, planVars, history
  <2>9. CASE Replace
    <3>1. committed < Len(prepared) /\ Current \in Rewrites
      BY <2>9, CurrentTyped DEF Replace, TypeOK
    <3>2. text' \in [Files -> Texts \cup {Gone}]
      BY <2>9, <3>1 DEF Replace, TypeOK, Rewrites
    <3>3. committed' \in 0 .. Len(prepared)
      BY <2>9, <3>1 DEF Replace, TypeOK
    <3> QED
      BY <2>9, <3>2, <3>3 DEF Replace, TypeOK, planVars, history
  <2>10. CASE ReplaceFails
    BY <2>10 DEF ReplaceFails, TypeOK, planVars, history
  <2>11. CASE Restore
    <3>1. committed > 0 /\ Current \in Rewrites
      BY <2>11, CurrentTyped DEF Restore, TypeOK
    <3>2. text' \in [Files -> Texts \cup {Gone}]
      BY <2>11, <3>1 DEF Restore, TypeOK, Rewrites
    <3>3. committed' \in 0 .. Len(prepared)
      BY <2>11, <3>1 DEF Restore, TypeOK
    <3> QED
      BY <2>11, <3>2, <3>3 DEF Restore, TypeOK, planVars, history
  <2>12. CASE RestoreFails
    <3>1. committed > 0 /\ Current \in Rewrites
      BY <2>12, CurrentTyped DEF RestoreFails
    <3>2. committed' \in 0 .. Len(prepared) /\ stuck' \subseteq Files
      BY <2>12, <3>1 DEF RestoreFails, TypeOK, Rewrites
    <3> QED
      BY <2>12, <3>2 DEF RestoreFails, TypeOK, planVars
  <2>13. CASE Edit
    <3>1. text' \in [Files -> Texts \cup {Gone}]
      BY <2>13, EditsAssumption DEF Edit, TypeOK
    <3>2. edits' \in 0 .. MaxEdits
      BY <2>13, EditsAssumption DEF Edit, TypeOK
    <3>3. before' \in [Files -> Texts \cup {Gone}] /\ touched' \subseteq Files
      BY <2>13, <3>1 DEF Edit, TypeOK
    <3> QED
      BY <2>13, <3>1, <3>2, <3>3 DEF Edit, TypeOK, planVars, workVars
  <2>14. CASE UNCHANGED vars
    BY <2>14 DEF TypeOK, vars, planVars, workVars, history
  <2> QED
    BY <2>1, <2>2, <2>3, <2>4, <2>5, <2>6, <2>7, <2>8, <2>9, <2>10, <2>11, <2>12,
       <2>13, <2>14 DEF Next, Step, Reject, Abort, Succeed, Restored, Crash
<1> QED
  BY <1>1, <1>2, PTL DEF Spec

-----------------------------------------------------------------------------
(* The plan of a rewrite.                                                    *)

(* No file is listed twice, so none is prepared twice; nothing is replaced   *)
(* before everything is prepared, and nothing is prepared before the parse   *)
(* is accepted.                                                              *)
ListedOnce == \A i, j \in DOMAIN listed : listed[i] = listed[j] => i = j

PreparedInOrder ==
    \A i \in DOMAIN prepared :
       \E j \in DOMAIN listed : j < next /\ prepared[i].file = listed[j]

PreparedOnce ==
    \A i, j \in DOMAIN prepared : prepared[i].file = prepared[j].file => i = j

Phases == /\ pc \in {"idle", "list", "parse"} => prepared = <<>>
          /\ pc \notin {"commit", "restore"} => committed = 0

PlanInv == ListedOnce /\ PreparedInOrder /\ PreparedOnce /\ Phases

LEMMA PlanInvHolds == Spec => []PlanInv
<1>1. Init => PlanInv
  BY DEF Init, PlanInv, ListedOnce, PreparedInOrder, PreparedOnce, Phases
<1>2. TypeOK /\ PlanInv /\ [Next]_vars => PlanInv'
  <2> SUFFICES ASSUME TypeOK, PlanInv, [Next]_vars PROVE PlanInv'
    OBVIOUS
  <2>1. CASE Start
    <3>1. ListedOnce'
      BY <2>1, ListingFacts DEF Start, ListedOnce
    <3> QED
      BY <2>1, <3>1 DEF Start, Cleared, PlanInv, PreparedInOrder, PreparedOnce, Phases
  <2>2. ASSUME NEW code, Ends(code)
        PROVE  PlanInv'
    BY <2>2 DEF Ends, Cleared, PlanInv, ListedOnce, PreparedInOrder, PreparedOnce, Phases
  <2>3. CASE Prepare
    <3> DEFINE f == listed[next]
               r == [file |-> f, original |-> text[f],
                     candidate |-> Candidate(text[f], results[next])]
    <3>1. next \in DOMAIN listed /\ next \in Nat /\ next' = next + 1
      BY <2>3 DEF Prepare, Pairs, TypeOK
    <3>2. ListedOnce' /\ Phases'
      BY <2>3 DEF Prepare, PlanInv, ListedOnce, Phases, planVars
    <3>3. CASE prepared' = prepared
      <4>1. listed' = listed /\ \A j \in DOMAIN listed : j < next => j < next'
        BY <2>3, <3>1 DEF Prepare, planVars, TypeOK
      <4> QED
        BY <3>2, <3>3, <4>1 DEF PlanInv, PreparedInOrder, PreparedOnce
    <3>4. CASE prepared' = Append(prepared, r)
      <4>1. prepared \in Seq(Rewrites) /\ listed' = listed
        BY <2>3 DEF TypeOK, Prepare, planVars
      <4>2. r.file = listed[next]
        OBVIOUS
      <4> HIDE DEF r
      <4>3. ASSUME NEW i \in DOMAIN prepared
            PROVE  /\ prepared[i].file # r.file
                   /\ \E j \in DOMAIN listed : j < next' /\ prepared[i].file = listed[j]
        <5>1. PICK j \in DOMAIN listed : j < next /\ prepared[i].file = listed[j]
          BY <4>3 DEF PlanInv, PreparedInOrder
        <5>2. j \in Nat /\ j # next /\ j < next'
          BY <3>1, <5>1 DEF TypeOK
        <5> QED
          BY <3>1, <4>2, <5>1, <5>2 DEF PlanInv, ListedOnce
      <4>4. ASSUME NEW i \in DOMAIN prepared'
            PROVE  \/ i = Len(prepared) + 1 /\ prepared'[i] = r
                   \/ i \in DOMAIN prepared /\ prepared'[i] = prepared[i]
        BY <3>4, <4>1, <4>4
      <4>5. next < next'
        BY <3>1
      <4>6. PreparedInOrder'
        BY <3>1, <4>1, <4>2, <4>3, <4>4, <4>5 DEF PreparedInOrder
      <4>7. PreparedOnce'
        BY <4>3, <4>4 DEF PlanInv, PreparedOnce
      <4> QED
        BY <3>2, <4>6, <4>7 DEF PlanInv
    <3> QED
      BY <2>3, <3>3, <3>4 DEF Prepare
  <2>4. CASE /\ UNCHANGED <<listed, next, prepared>>
             /\ Phases'
    BY <2>4 DEF PlanInv, ListedOnce, PreparedInOrder, PreparedOnce
  <2>5. CASE ListAgain \/ Parse \/ Accept \/ Prepared \/ Edit \/ UNCHANGED vars
    BY <2>4, <2>5 DEF ListAgain, Parse, Accept, Prepared, Edit, vars, planVars, workVars,
       PlanInv, Phases
  <2>6. CASE Stage \/ Replace \/ ReplaceFails \/ Restore \/ RestoreFails
    BY <2>4, <2>6 DEF Stage, Replace, ReplaceFails, Restore, RestoreFails, planVars,
       PlanInv, Phases
  <2> QED
    BY <2>1, <2>2, <2>3, <2>5, <2>6 DEF Next, Step, Reject, Abort, Succeed, Restored, Crash
<1> QED
  BY <1>1, <1>2, RewriteTypeCorrect, PTL DEF Spec

-----------------------------------------------------------------------------
(* What replaces a file is a pinned form of what was read from it.           *)

(* A file is listed in one place, so its rewrite is judged by the parse      *)
(* result that it was made from.                                             *)
PreparedForms ==
    \A i \in DOMAIN prepared : prepared[i].candidate \in FormsOf(prepared[i].original)

LEMMA FaithfulInvHolds == Spec => [](PreparedFaithful /\ PreparedForms)
<1>1. Init => PreparedFaithful /\ PreparedForms
  BY DEF Init, PreparedFaithful, PreparedForms
<1>2. TypeOK /\ PlanInv /\ PreparedFaithful /\ PreparedForms /\ [Next]_vars
      => PreparedFaithful' /\ PreparedForms'
  <2> SUFFICES ASSUME TypeOK, PlanInv, PreparedFaithful, PreparedForms, [Next]_vars
               PROVE  PreparedFaithful' /\ PreparedForms'
    OBVIOUS
  <2>1. CASE UNCHANGED <<prepared, listed, results>>
    <3>1. Pairs' = Pairs
      BY <2>1 DEF Pairs
    <3> QED
      BY <2>1, <3>1 DEF PreparedFaithful, PreparedForms
  <2>2. CASE prepared' = <<>>
    BY <2>2 DEF PreparedFaithful, PreparedForms
  <2>3. CASE Prepare
    <3> DEFINE f         == listed[next]
               original  == text[f]
               candidate == Candidate(original, results[next])
               r == [file |-> f, original |-> original, candidate |-> candidate]
    <3>1. /\ next \in DOMAIN listed /\ next \in DOMAIN results
          /\ UNCHANGED <<listed, results>>
      BY <2>3 DEF Prepare, Pairs, TypeOK, planVars
    <3>2. f \in Files /\ original \in Texts /\ results[next] \in Parsed
      BY <2>3, <3>1 DEF Prepare, TypeOK
    <3>3. CASE prepared' = prepared
      BY <2>1, <3>1, <3>3
    <3>4. CASE prepared' # prepared
      <4>1. Located(original, results[next]) /\ Checks(candidate, results[next])
        BY <2>3, <3>4 DEF Prepare
      <4>2. Faithful(original, candidate, results[next]) /\ candidate \in FormsOf(original)
        BY <3>2, <4>1, CandidateFaithful
      <4>3. prepared' = Append(prepared, r)
        BY <2>3, <3>4 DEF Prepare
      <4>4. r.file = listed[next] /\ r.original = original /\ r.candidate = candidate
        OBVIOUS
      <4> HIDE DEF r, candidate, original
      <4>5. prepared \in Seq(Rewrites)
        BY DEF TypeOK
      <4>6. ASSUME NEW i \in DOMAIN prepared'
            PROVE  prepared'[i] = r \/ (i \in DOMAIN prepared /\ prepared'[i] = prepared[i])
        BY <4>3, <4>5, <4>6
      <4>7. Pairs' = Pairs /\ 1 .. Pairs \subseteq DOMAIN listed
        BY <3>1 DEF Pairs, TypeOK
      <4>8. \A n \in 1 .. Pairs : listed[n] = listed[next] => n = next
        BY <3>1, <4>7 DEF PlanInv, ListedOnce
      <4>9. ASSUME NEW i \in DOMAIN prepared', NEW n \in 1 .. Pairs,
                   prepared'[i].file = listed[n]
            PROVE  Faithful(prepared'[i].original, prepared'[i].candidate, results[n])
        <5>1. CASE prepared'[i] = r
          BY <4>2, <4>4, <4>8, <4>9, <5>1
        <5>2. CASE i \in DOMAIN prepared /\ prepared'[i] = prepared[i]
          BY <4>9, <5>2 DEF PreparedFaithful
        <5> QED
          BY <4>6, <5>1, <5>2
      <4>10. PreparedFaithful'
        BY <3>1, <4>7, <4>9 DEF PreparedFaithful
      <4>11. PreparedForms'
        BY <4>2, <4>4, <4>6 DEF PreparedForms
      <4> QED
        BY <4>10, <4>11
    <3> QED
      BY <3>3, <3>4
  <2>4. CASE Start \/ ListAgain \/ Parse \/ \E code : Ends(code)
    <3>1. prepared' = <<>>
      BY <2>4 DEF Start, ListAgain, Parse, Ends, Cleared, PlanInv, Phases, workVars
    <3> QED
      BY <2>2, <3>1
  <2>5. CASE \/ Accept \/ Prepared \/ Stage \/ Replace \/ ReplaceFails \/ Restore
             \/ RestoreFails \/ Edit \/ UNCHANGED vars
    BY <2>1, <2>5 DEF Accept, Prepared, Stage, Replace, ReplaceFails, Restore, RestoreFails,
       Edit, planVars, workVars, vars
  <2> QED
    BY <2>3, <2>4, <2>5 DEF Next, Step, Reject, Abort, Succeed, Restored, Crash
<1> QED
  BY <1>1, <1>2, RewriteTypeCorrect, PlanInvHolds, PTL DEF Spec

(* What is about to replace a file is what was read from it with every use   *)
(* that the map pins pinned, even if the file changed since it was parsed,   *)
(* or another file was; only the target of an alias is taken on trust.       *)
THEOREM PreparedFaithfulHolds == Spec => []PreparedFaithful
  BY FaithfulInvHolds, PTL

-----------------------------------------------------------------------------
(* The program implements PinFiles.                                          *)

(* A file that is prepared has been taken on with the text that was read.    *)
LEMMA TakenFacts ==
    ASSUME TypeOK, PlanInv, NEW i \in DOMAIN prepared
    PROVE  /\ prepared[i] \in Rewrites
           /\ Taken(prepared[i].file) = {i}
           /\ SeenTexts[prepared[i].file] = prepared[i].original
           /\ prepared[i].original # Unseen
<1>1. prepared[i] \in Rewrites
  BY DEF TypeOK
<1>2. Taken(prepared[i].file) = {i}
  BY DEF Taken, PlanInv, PreparedOnce
<1>3. (CHOOSE j \in Taken(prepared[i].file) : TRUE) = i
  BY <1>2
<1>4. SeenTexts[prepared[i].file] = prepared[i].original
  BY <1>1, <1>2, <1>3 DEF SeenTexts, Rewrites
<1> QED
  BY <1>1, <1>2, <1>4, MarksAssumption DEF Rewrites

(* Every step of the program is a step of PinFiles or invisible to it.       *)
LEMMA PromiseStep ==
    ASSUME TypeOK, PreparedForms, PlanInv, [Next]_vars
    PROVE  [Promise!Next]_(Promise!vars)
<1>1. CASE UNCHANGED <<text, prepared, committed, exit>>
  <2>1. UNCHANGED SeenTexts /\ UNCHANGED Replaced
    BY <1>1 DEF SeenTexts, Taken, Replaced
  <2> QED
    BY <1>1, <2>1 DEF Promise!vars
<1>2. CASE Start
  <2>1. prepared = <<>> /\ committed = 0
    BY <1>2 DEF Start, PlanInv, Phases
  <2>2. UNCHANGED <<prepared, committed, text>> /\ exit' = None
    BY <1>2, <2>1 DEF Start, Cleared
  <2>3. UNCHANGED SeenTexts /\ UNCHANGED Replaced
    BY <2>2 DEF SeenTexts, Taken, Replaced
  <2> QED
    BY <2>2, <2>3 DEF Promise!Next, Promise!Begin
<1>3. ASSUME NEW code \in {None, 0, 1}, Ends(code),
             code = 0 => Replaced = {f \in Files : SeenTexts[f] # Unseen},
             code = 1 => Replaced = {}
      PROVE  Promise!Next
  <2>1. text' = text /\ exit' = code /\ prepared' = <<>> /\ committed' = 0
    BY <1>3 DEF Ends, Cleared
  <2>2. Replaced' = {}
    BY <2>1 DEF Replaced
  <2>3. SeenTexts' = [f \in Files |-> Unseen]
    BY <2>1 DEF SeenTexts, Taken
  <2> QED
    BY <1>3, <2>1, <2>2, <2>3 DEF Promise!Next, Promise!End
<1>4. committed = 0 => Replaced = {}
  BY DEF Replaced
<1>5. CASE Reject \/ Abort \/ Restored
  <2>1. Ends(1) /\ committed = 0
    BY <1>5 DEF Reject, Abort, Restored, PlanInv, Phases
  <2> QED
    BY <1>3, <1>4, <2>1
<1>6. CASE Crash
  BY <1>3, <1>6, MarksAssumption DEF Crash
<1>7. CASE Succeed
  <2>1. Ends(0) /\ committed = Len(prepared)
    BY <1>7 DEF Succeed
  <2>2. 1 .. committed = DOMAIN prepared
    BY <2>1 DEF TypeOK
  <2>3. ASSUME NEW f \in Replaced
        PROVE  f \in Files /\ SeenTexts[f] # Unseen
    BY <2>2, <2>3, TakenFacts DEF Replaced, Rewrites
  <2>4. ASSUME NEW f \in Files, SeenTexts[f] # Unseen
        PROVE  f \in Replaced
    BY <2>2, <2>4 DEF SeenTexts, Taken, Replaced
  <2>5. Replaced = {f \in Files : SeenTexts[f] # Unseen}
    BY <2>3, <2>4
  <2> QED
    BY <1>3, <2>1, <2>5
<1>8. CASE Prepare
  <2>1. PICK f \in Files : f = listed[next]
    BY <1>8 DEF Prepare, Pairs, TypeOK
  <2> DEFINE r == [file |-> f, original |-> text[f],
                   candidate |-> Candidate(text[f], results[next])]
  <2>2. UNCHANGED <<text, committed, exit>> /\ committed = 0 /\ text[f] # Gone
    BY <1>8, <2>1 DEF Prepare, PlanInv, Phases
  <2>3. Replaced = {} /\ Replaced' = {}
    BY <2>2 DEF Replaced
  <2>4. CASE prepared' = prepared
    BY <1>1, <2>2, <2>4
  <2>5. CASE prepared' = Append(prepared, r)
    <3>1. r.file = f /\ r.original = text[f]
      OBVIOUS
    <3> HIDE DEF r
    <3>2. prepared \in Seq(Rewrites)
      BY DEF TypeOK
    <3>3. /\ DOMAIN prepared' = DOMAIN prepared \cup {Len(prepared) + 1}
          /\ prepared'[Len(prepared) + 1] = r
          /\ \A i \in DOMAIN prepared : prepared'[i] = prepared[i]
          /\ Len(prepared) + 1 \notin DOMAIN prepared
      BY <2>5, <3>2
    <3>4. ASSUME NEW i \in DOMAIN prepared
          PROVE  prepared[i].file # f
      <4>1. PICK j \in DOMAIN listed : j < next /\ prepared[i].file = listed[j]
        BY <3>4 DEF PlanInv, PreparedInOrder
      <4>2. j # next /\ next \in DOMAIN listed
        BY <1>8, <4>1 DEF Prepare, Pairs, TypeOK
      <4> QED
        BY <2>1, <4>1, <4>2 DEF PlanInv, ListedOnce
    <3>5. Taken(f) = {} /\ Taken(f)' = {Len(prepared) + 1}
      <4>1. Taken(f) = {}
        BY <3>4 DEF Taken
      <4>2. Len(prepared) + 1 \in Taken(f)'
        BY <3>1, <3>3 DEF Taken
      <4>3. \A i \in Taken(f)' : i = Len(prepared) + 1
        BY <3>3, <3>4 DEF Taken
      <4> QED
        BY <4>1, <4>2, <4>3
    <3>6. ASSUME NEW g \in Files, g # f
          PROVE  Taken(g)' = Taken(g)
      BY <3>1, <3>3, <3>6 DEF Taken
    <3>7. SeenTexts[f] = Unseen
      BY <2>1, <3>5 DEF SeenTexts
    <3>8. SeenTexts' = [SeenTexts EXCEPT ![f] = text[f]]
      <4>1. SeenTexts'[f] = text[f]
        <5>1. (CHOOSE i \in Taken(f)' : TRUE) = Len(prepared) + 1
          BY <3>5
        <5>2. SeenTexts'[f] = prepared'[CHOOSE i \in Taken(f)' : TRUE].original
          BY <2>1, <3>5 DEF SeenTexts
        <5> QED
          BY <3>1, <3>3, <5>1, <5>2
      <4>2. ASSUME NEW g \in Files, g # f
            PROVE  SeenTexts'[g] = SeenTexts[g]
        <5>1. CASE Taken(g) = {}
          BY <3>6, <4>2, <5>1 DEF SeenTexts
        <5>2. CASE Taken(g) # {}
          <6>1. PICK i : i = (CHOOSE j \in Taken(g) : TRUE)
            OBVIOUS
          <6>2. i \in DOMAIN prepared
            BY <5>2, <6>1 DEF Taken
          <6>3. i = (CHOOSE j \in Taken(g)' : TRUE)
            BY <3>6, <4>2, <6>1
          <6>4. SeenTexts[g] = prepared[i].original
            BY <5>2, <6>1 DEF SeenTexts
          <6>5. SeenTexts'[g] = prepared'[i].original
            BY <3>6, <4>2, <5>2, <6>3 DEF SeenTexts
          <6> QED
            BY <3>3, <6>2, <6>4, <6>5
        <5> QED
          BY <5>1, <5>2
      <4>3. /\ SeenTexts = [g \in Files |-> SeenTexts[g]]
            /\ SeenTexts' = [g \in Files |-> SeenTexts'[g]]
        BY DEF SeenTexts
      <4> QED
        BY <4>1, <4>2, <4>3
    <3>9. Promise!TakeOn(f)
      BY <2>2, <2>3, <3>7, <3>8 DEF Promise!TakeOn
    <3> QED
      BY <2>1, <3>9 DEF Promise!Next
  <2> QED
    BY <1>8, <2>1, <2>4, <2>5 DEF Prepare
<1>9. CASE Replace
  <2> DEFINE i == committed + 1
             f == prepared[i].file
  <2>1. i \in DOMAIN prepared /\ committed \in Nat
    BY <1>9 DEF Replace, TypeOK
  <2>2. f \in Files /\ prepared[i].original \in Texts /\ SeenTexts[f] = prepared[i].original
    BY <2>1, TakenFacts DEF Rewrites
  <2>3. UNCHANGED <<prepared, exit>> /\ UNCHANGED SeenTexts
    BY <1>9 DEF Replace, SeenTexts, Taken
  <2>4. f \notin Replaced
    BY <2>1 DEF Replaced, PlanInv, PreparedOnce, TypeOK
  <2>5. Replaced' = Replaced \cup {f}
    <3>1. committed' = i /\ 1 .. i = (1 .. committed) \cup {i}
      BY <1>9, <2>1 DEF Replace
    <3> QED
      BY <2>3, <3>1 DEF Replaced
  <2>6. text'[f] \in PinnedTexts[SeenTexts[f]] /\ text' = [text EXCEPT ![f] = text'[f]]
    <3>1. text' = [text EXCEPT ![f] = prepared[i].candidate]
      BY <1>9 DEF Replace, Current
    <3>2. prepared[i].candidate \in FormsOf(prepared[i].original)
      BY <2>1 DEF PreparedForms
    <3> QED
      BY <2>2, <3>1, <3>2 DEF PinnedTexts, TypeOK
  <2>7. SeenTexts[f] # Unseen
    BY <2>1, TakenFacts
  <2>8. Promise!Pin(f)
    BY <2>3, <2>4, <2>5, <2>6, <2>7 DEF Promise!Pin
  <2> QED
    BY <2>2, <2>8 DEF Promise!Next
<1>10. CASE Restore \/ RestoreFails
  <2> DEFINE f == prepared[committed].file
  <2>1. committed \in DOMAIN prepared /\ committed \in Nat
    BY <1>10 DEF Restore, RestoreFails, TypeOK
  <2>2. f \in Files /\ SeenTexts[f] = prepared[committed].original
    BY <2>1, TakenFacts DEF Rewrites
  <2>3. UNCHANGED <<prepared, exit>> /\ UNCHANGED SeenTexts
    <3>1. UNCHANGED <<prepared, exit>>
      BY <1>10 DEF Restore, RestoreFails
    <3> QED
      BY <3>1 DEF SeenTexts, Taken
  <2>4. f \in Replaced
    <3>1. committed \in 1 .. committed
      BY <2>1 DEF TypeOK
    <3> QED
      BY <3>1 DEF Replaced
  <2>5. Replaced' = Replaced \ {f}
    <3>1. committed' = committed - 1
      BY <1>10 DEF Restore, RestoreFails
    <3>2. 1 .. committed' = (1 .. committed) \ {committed}
      BY <2>1, <3>1
    <3>3. \A j \in 1 .. committed : j # committed => prepared[j].file # f
      BY <2>1 DEF PlanInv, PreparedOnce, TypeOK
    <3> QED
      BY <2>1, <2>3, <3>2, <3>3 DEF Replaced
  <2>6. text' \in {text, [text EXCEPT ![f] = SeenTexts[f]]}
    BY <1>10, <2>2 DEF Restore, RestoreFails, Current
  <2>7. Promise!ChangeBack(f)
    BY <2>3, <2>4, <2>5, <2>6 DEF Promise!ChangeBack
  <2> QED
    BY <2>2, <2>7 DEF Promise!Next
<1>11. CASE Edit
  <2>1. UNCHANGED <<prepared, committed, exit>>
    BY <1>11 DEF Edit, workVars
  <2>2. UNCHANGED SeenTexts /\ UNCHANGED Replaced
    BY <2>1 DEF SeenTexts, Taken, Replaced
  <2>3. \E f \in Files : text'[f] \in Texts \cup {Gone} /\ text' = [text EXCEPT ![f] = text'[f]]
    BY <1>11, EditsAssumption DEF Edit, TypeOK
  <2> QED
    BY <2>1, <2>2, <2>3 DEF Promise!Next, Promise!Edit
<1>12. CASE \/ ListAgain \/ Parse \/ Accept \/ Prepared \/ Stage \/ ReplaceFails
            \/ UNCHANGED vars
  BY <1>1, <1>12 DEF ListAgain, Parse, Accept, Prepared, Stage, ReplaceFails, vars,
     planVars, workVars
<1> QED
  BY <1>2, <1>5, <1>6, <1>7, <1>8, <1>9, <1>10, <1>11, <1>12 DEF Next, Step

(* Whatever fails, crashes or interferes, files change only as wholes, to    *)
(* a pinned form of what was read or back to it, and the exit code says      *)
(* which: the rewrite implements PinFiles.                                   *)
THEOREM PromiseIsKept == Spec => PromiseKept
<1>1. Init => Promise!Init
  <2> SUFFICES ASSUME Init PROVE Promise!Init
    OBVIOUS
  <2>1. text \in [Files -> Texts \cup {Gone}] /\ exit = None
    BY EditsAssumption DEF Init
  <2>2. SeenTexts = [f \in Files |-> Unseen]
    BY DEF Init, SeenTexts, Taken
  <2>3. Replaced = {}
    BY DEF Init, Replaced
  <2> QED
    BY <2>1, <2>2, <2>3 DEF Promise!Init
<1> QED
  BY <1>1, PromiseStep, RewriteTypeCorrect, FaithfulInvHolds, PlanInvHolds, PTL
     DEF Spec, PromiseKept, Promise!Spec

-----------------------------------------------------------------------------
(* A rewrite nobody disturbs sees one and the same set of texts throughout.  *)
(* Both listings name the files that had a text when it began, each result   *)
(* is the text of the file listed beside it, what is prepared came from      *)
(* there and is its pinned form, and a file passed without a rewrite is its  *)
(* own.                                                                      *)
ExistingIn(t) == {f \in Files : t[f] # Gone}

ListingsOf(t) ==
    {s \in [1 .. Cardinality(ExistingIn(t)) -> ExistingIn(t)] :
       \A i, j \in DOMAIN s : i < j => s[i] < s[j]}

Planned == {prepared[i].file : i \in DOMAIN prepared}

ListedAsBegun ==
    /\ listed \in ListingsOf(before)
    /\ IF pc = "list" THEN again = <<>> ELSE again \in ListingsOf(before)
    /\ Len(results) <= Len(again)
    /\ pc \in {"prepare", "commit", "restore"} => Len(results) = Len(again)
    /\ \A i \in DOMAIN results : results[i] = before[again[i]]

PreparedAsBegun ==
    /\ \A i \in DOMAIN prepared :
          /\ prepared[i].original = before[prepared[i].file]
          /\ prepared[i].candidate = PinText(before[prepared[i].file])
    /\ \A j \in DOMAIN listed : j < next =>
          \/ PinText(before[listed[j]]) = before[listed[j]]
          \/ listed[j] \in Planned
    /\ pc \in {"commit", "restore"} => next > Len(listed)

TextsAsBegun ==
    /\ text = [f \in Files |-> IF f \in Replaced \cup stuck THEN PinText(before[f])
                                                            ELSE before[f]]
    /\ stuck \cap Replaced = {}
    /\ pc # "restore" => stuck = {}

CalmInv == pc # "idle" => /\ exit = None
                          /\ touched = {} => ListedAsBegun /\ PreparedAsBegun /\ TextsAsBegun

(* A set of numbers that is not empty has a least one.                       *)
LEMMA LeastOf ==
    ASSUME NEW T \in SUBSET Nat, T # {}
    PROVE  \E x \in T : \A y \in T : x <= y
<1>1. \E x \in T : \A y \in T : ~ (<<y, x>> \in OpToRel(<, Nat))
  BY NatLessThanWellFounded, WFMin
<1>2. PICK x \in T : \A y \in T : ~ (<<y, x>> \in OpToRel(<, Nat))
  BY <1>1
<1>3. ASSUME NEW y \in T PROVE x <= y
  <2>1. ~ (y < x)
    BY <1>2 DEF OpToRel
  <2> QED BY <2>1
<1> QED BY <1>3

(* The listings of the model are those of the present texts.                 *)
LEMMA ListingsAgree == Listings = ListingsOf(text)
  BY DEF Listings, ListingsOf, Existing, ExistingIn

(* A listing names every file there is, in an order that leaves no choice.   *)
LEMMA ListingCovers ==
    ASSUME NEW t, NEW s \in ListingsOf(t)
    PROVE  /\ Cardinality(ExistingIn(t)) \in Nat
           /\ DOMAIN s = 1 .. Cardinality(ExistingIn(t))
           /\ s \in Seq(Files) /\ Len(s) = Cardinality(ExistingIn(t))
           /\ \A i \in DOMAIN s : s[i] \in ExistingIn(t) /\ s[i] \in Nat
           /\ \A f \in ExistingIn(t) : \E i \in DOMAIN s : s[i] = f
<1> DEFINE E == ExistingIn(t)
           n == Cardinality(E)
<1>1. IsFiniteSet(E) /\ E \subseteq Nat /\ E \subseteq Files
  BY OrderedFiles, FS_Subset DEF ExistingIn
<1>2. n \in Nat
  BY <1>1, FS_CardinalityType
<1>3. s \in [1 .. n -> E] /\ \A i, j \in 1 .. n : i < j => s[i] < s[j]
  BY DEF ListingsOf
<1> HIDE DEF E, n
<1>4. ASSUME NEW i \in 1 .. n, NEW j \in 1 .. n, s[i] = s[j]
      PROVE  i = j
  <2>1. s[i] \in E /\ s[j] \in E /\ i \in Nat /\ j \in Nat
    BY <1>2, <1>3
  <2> s[i] \in Nat /\ s[j] \in Nat
    BY <1>1, <2>1
  <2>2. ~ (i < j) /\ ~ (j < i)
    BY <1>3, <1>4, <2>1
  <2> QED BY <2>1, <2>2
<1>5. s \in Injection(1 .. n, E)
  BY <1>3, <1>4, Fun_IsInj
<1>6. Cardinality(1 .. n) = n
  BY <1>2, FS_Interval
<1>7. s \in Surjection(1 .. n, E)
  BY <1>1, <1>5, <1>6, FS_Injection DEF n
<1>8. \A f \in E : \E i \in 1 .. n : s[i] = f
  BY <1>7 DEF Surjection
<1>9. s \in Seq(Files) /\ Len(s) = n
  <2>1. s \in [1 .. n -> Files]
    BY <1>1, <1>3
  <2> QED BY <1>2, <2>1
<1> QED BY <1>1, <1>2, <1>3, <1>8, <1>9 DEF E, n

(* The first place where two listings differed would name a file one of them *)
(* has already named, or never names.                                        *)
LEMMA OneListing ==
    ASSUME NEW t, NEW r \in ListingsOf(t), NEW s \in ListingsOf(t)
    PROVE  r = s
<1> DEFINE n == Cardinality(ExistingIn(t))
           Apart == {i \in 1 .. n : r[i] # s[i]}
<1>1. /\ n \in Nat
      /\ \A i \in 1 .. n : r[i] \in ExistingIn(t) /\ r[i] \in Nat
      /\ \A i \in 1 .. n : s[i] \in ExistingIn(t) /\ s[i] \in Nat
      /\ \A f \in ExistingIn(t) : \E i \in 1 .. n : s[i] = f
      /\ \A f \in ExistingIn(t) : \E i \in 1 .. n : r[i] = f
  BY ListingCovers
<1>2. /\ \A i, j \in 1 .. n : i < j => r[i] < r[j]
      /\ \A i, j \in 1 .. n : i < j => s[i] < s[j]
      /\ r = [i \in 1 .. n |-> r[i]] /\ s = [i \in 1 .. n |-> s[i]]
  BY DEF ListingsOf
<1> HIDE DEF n
<1>3. ASSUME Apart # {} PROVE FALSE
  <2>1. PICK i \in Apart : \A j \in Apart : i <= j
    <3>1. Apart \subseteq Nat
      BY <1>1
    <3> QED BY <1>3, <3>1, LeastOf
  <2>2. ASSUME NEW j \in 1 .. n, j < i PROVE r[j] = s[j]
    BY <1>1, <2>1, <2>2
  <2>3. ~ (r[i] < s[i])
    <3> SUFFICES ASSUME r[i] < s[i] PROVE FALSE
      OBVIOUS
    <3>1. PICK j \in 1 .. n : s[j] = r[i]
      BY <1>1, <2>1
    <3>2. i \in 1 .. n /\ i \in Nat /\ j \in Nat
      BY <1>1, <2>1
    <3> r[i] \in Nat /\ s[i] \in Nat /\ r[j] \in Nat /\ s[j] \in Nat
      BY <1>1, <3>2
    <3> HIDE DEF Apart
    <3>3. i # j
      BY <3>1
    <3>4. ~ (i < j)
      <4> SUFFICES ASSUME i < j PROVE FALSE
        OBVIOUS
      <4>1. s[i] < s[j]
        BY <1>2, <3>2
      <4> QED BY <3>1, <4>1
    <3>5. j < i
      BY <3>2, <3>3, <3>4
    <3>6. r[j] < r[i] /\ r[j] = s[j]
      BY <1>2, <2>2, <3>2, <3>5
    <3> QED BY <3>1, <3>6
  <2>4. ~ (s[i] < r[i])
    <3> SUFFICES ASSUME s[i] < r[i] PROVE FALSE
      OBVIOUS
    <3>1. PICK j \in 1 .. n : r[j] = s[i]
      BY <1>1, <2>1
    <3>2. i \in 1 .. n /\ i \in Nat /\ j \in Nat
      BY <1>1, <2>1
    <3> r[i] \in Nat /\ s[i] \in Nat /\ r[j] \in Nat /\ s[j] \in Nat
      BY <1>1, <3>2
    <3> HIDE DEF Apart
    <3>3. i # j
      BY <3>1
    <3>4. ~ (i < j)
      <4> SUFFICES ASSUME i < j PROVE FALSE
        OBVIOUS
      <4>1. r[i] < r[j]
        BY <1>2, <3>2
      <4> QED BY <3>1, <4>1
    <3>5. j < i
      BY <3>2, <3>3, <3>4
    <3>6. s[j] < s[i] /\ r[j] = s[j]
      BY <1>2, <2>2, <3>2, <3>5
    <3> QED BY <3>1, <3>6
  <2> QED BY <1>1, <2>1, <2>3, <2>4
<1> QED BY <1>2, <1>3

(* Steps that only pass on what is known.                                    *)
LEMMA CalmKept ==
    ASSUME CalmInv, pc # "idle", touched = {}, pc' # "idle",
           UNCHANGED <<text, planVars, next, prepared, committed, before, stuck>>,
           pc' = "list" => pc = "list", pc' = "restore" \/ pc' = pc \/ pc # "restore",
           pc = "list" => pc' = "list",
           pc' \in {"prepare", "commit", "restore"} => Len(results) = Len(again),
           pc' \in {"commit", "restore"} => next > Len(listed)
    PROVE  ListedAsBegun' /\ PreparedAsBegun' /\ TextsAsBegun'
<1>1. ListedAsBegun /\ PreparedAsBegun /\ TextsAsBegun
  BY DEF CalmInv
<1>2. Planned' = Planned /\ Replaced' = Replaced
  BY DEF Planned, Replaced
<1>3. ListedAsBegun'
  BY <1>1 DEF ListedAsBegun, planVars
<1>4. PreparedAsBegun'
  BY <1>1, <1>2 DEF PreparedAsBegun, planVars
<1>5. TextsAsBegun'
  BY <1>1, <1>2 DEF TextsAsBegun
<1> QED BY <1>3, <1>4, <1>5

(* While nothing is replaced the texts are those of the beginning.           *)
LEMMA NothingReplacedYet ==
    ASSUME TypeOK, PlanInv, TextsAsBegun, pc \notin {"commit", "restore"}
    PROVE  text = before /\ Replaced = {} /\ stuck = {}
<1>1. committed = 0
  BY DEF PlanInv, Phases
<1>2. Replaced = {}
  BY <1>1 DEF Replaced
<1>3. text = [f \in Files |-> before[f]]
  BY <1>2 DEF TextsAsBegun
<1> QED BY <1>2, <1>3 DEF TextsAsBegun, TypeOK

(* Preparing: the text at hand is the result paired with it.                 *)
LEMMA CalmPrepare ==
    ASSUME TypeOK, PlanInv, ListedAsBegun, PreparedAsBegun, TextsAsBegun, Prepare
    PROVE  ListedAsBegun' /\ PreparedAsBegun' /\ TextsAsBegun'
<1> DEFINE f == listed[next]
           r == [file |-> f, original |-> text[f],
                 candidate |-> Candidate(text[f], results[next])]
<1>1. /\ next \in DOMAIN listed /\ next \in DOMAIN results /\ next \in Nat /\ next' = next + 1
      /\ UNCHANGED <<text, pc, listed, again, results, committed, stuck, before>>
      /\ pc = "prepare"
  BY DEF Prepare, Pairs, TypeOK, planVars, history
<1>2. text = before /\ Replaced = {} /\ stuck = {} /\ committed = 0
  BY <1>1, NothingReplacedYet DEF PlanInv, Phases
<1>3. again = listed
  BY <1>1, OneListing DEF ListedAsBegun
<1>4. results[next] = before[f] /\ before[f] \in Parsed
  BY <1>1, <1>3 DEF ListedAsBegun, TypeOK
<1>5. Candidate(text[f], results[next]) = PinText(before[f])
  BY <1>2, <1>4, OwnCandidate
<1>6. ListedAsBegun'
  BY <1>1 DEF ListedAsBegun
<1>7. TextsAsBegun'
  <2>1. Replaced' = {}
    BY <1>1, <1>2 DEF Replaced
  <2> QED BY <1>1, <1>2, <2>1 DEF TextsAsBegun
<1>8. CASE prepared' = prepared
  <2>1. PinText(before[f]) = before[f]
    <3>1. prepared \in Seq(Rewrites)
      BY DEF TypeOK
    <3>2. prepared # Append(prepared, r)
      <4> HIDE DEF r
      <4> QED BY <3>1
    <3>3. Mutable(results[next]) = {}
      BY <1>8, <3>2 DEF Prepare
    <3> QED BY <1>4, <3>3, OwnCandidate
  <2>2. Planned' = Planned
    BY <1>8 DEF Planned
  <2>3. \A j \in DOMAIN listed : j < next' => j < next \/ j = next
    BY <1>1 DEF TypeOK
  <2> QED BY <1>1, <1>6, <1>7, <1>8, <2>1, <2>2, <2>3 DEF PreparedAsBegun
<1>9. CASE prepared' = Append(prepared, r)
  <2>1. r.file = f /\ r.original = before[f] /\ r.candidate = PinText(before[f])
    BY <1>2, <1>5
  <2> HIDE DEF r
  <2>2. prepared \in Seq(Rewrites)
    BY DEF TypeOK
  <2>3. /\ \A i \in DOMAIN prepared : i \in DOMAIN prepared' /\ prepared'[i] = prepared[i]
        /\ Len(prepared) + 1 \in DOMAIN prepared' /\ prepared'[Len(prepared) + 1] = r
        /\ \A i \in DOMAIN prepared' :
              prepared'[i] = r \/ (i \in DOMAIN prepared /\ prepared'[i] = prepared[i])
    BY <1>9, <2>2
  <2>4. Planned \subseteq Planned' /\ f \in Planned'
    BY <2>1, <2>3 DEF Planned
  <2>5. \A j \in DOMAIN listed : j < next' => j < next \/ j = next
    BY <1>1 DEF TypeOK
  <2>6. \A i \in DOMAIN prepared' :
           /\ prepared'[i].original = before[prepared'[i].file]
           /\ prepared'[i].candidate = PinText(before[prepared'[i].file])
    BY <2>1, <2>3 DEF PreparedAsBegun
  <2>7. \A j \in DOMAIN listed : j < next' =>
          PinText(before[listed[j]]) = before[listed[j]] \/ listed[j] \in Planned'
    BY <2>4, <2>5 DEF PreparedAsBegun
  <2> QED BY <1>1, <1>6, <1>7, <2>6, <2>7 DEF PreparedAsBegun
<1> QED BY <1>8, <1>9 DEF Prepare

(* Replacing and changing back move one file between the two forms.          *)
LEMMA CalmReplace ==
    ASSUME TypeOK, PlanInv, ListedAsBegun, PreparedAsBegun, TextsAsBegun,
           Replace \/ Restore \/ RestoreFails
    PROVE  ListedAsBegun' /\ PreparedAsBegun' /\ TextsAsBegun'
<1>1. /\ UNCHANGED <<pc, listed, again, results, next, prepared, before>>
      /\ pc \in {"commit", "restore"}
  BY DEF Replace, Restore, RestoreFails, planVars, history
<1>2. ListedAsBegun' /\ PreparedAsBegun'
  BY <1>1 DEF ListedAsBegun, PreparedAsBegun, Planned
<1>3. /\ committed \in Nat /\ committed <= Len(prepared)
      /\ DOMAIN prepared = 1 .. Len(prepared) /\ Len(prepared) \in Nat
      /\ text \in [Files -> Texts \cup {Gone}]
  BY DEF TypeOK
<1>4. ASSUME NEW i \in DOMAIN prepared
      PROVE  /\ prepared[i].file \in Files
             /\ prepared[i].original = before[prepared[i].file]
             /\ prepared[i].candidate = PinText(before[prepared[i].file])
  <2>1. prepared[i] \in Rewrites
    BY DEF TypeOK
  <2> QED BY <2>1 DEF Rewrites, PreparedAsBegun
<1>5. text = [f \in Files |-> text[f]]
  BY <1>3
<1>6. CASE Replace
  <2> DEFINE g == prepared[committed + 1].file
  <2>1. committed < Len(prepared) /\ committed + 1 \in DOMAIN prepared
    BY <1>3, <1>6 DEF Replace, TypeOK
  <2>2. /\ text' = [text EXCEPT ![g] = PinText(before[g])]
        /\ committed' = committed + 1 /\ stuck' = stuck /\ pc = "commit"
    BY <1>4, <1>6, <2>1 DEF Replace, Current, history
  <2>3. Replaced' = Replaced \cup {g}
    <3>1. 1 .. committed' = (1 .. committed) \cup {committed + 1}
      BY <1>3, <2>2
    <3> QED BY <1>1, <3>1 DEF Replaced
  <2>4. stuck = {} /\ stuck' = {} /\ g \in Files
    BY <1>4, <2>1, <2>2 DEF TextsAsBegun
  <2> HIDE DEF g
  <2>5. ASSUME NEW f \in Files
        PROVE  text'[f] = IF f \in Replaced' \cup stuck' THEN PinText(before[f]) ELSE before[f]
    <3>1. text[f] = IF f \in Replaced \cup stuck THEN PinText(before[f]) ELSE before[f]
      BY DEF TextsAsBegun
    <3> QED BY <1>3, <2>2, <2>3, <2>4, <3>1
  <2>6. text' = [f \in Files |-> text'[f]]
    BY <1>3, <2>2
  <2> QED BY <1>1, <1>2, <2>4, <2>5, <2>6 DEF TextsAsBegun
<1>7. CASE Restore \/ RestoreFails
  <2> DEFINE g == prepared[committed].file
  <2>1. committed \in DOMAIN prepared /\ pc = "restore"
    BY <1>3, <1>7 DEF Restore, RestoreFails, TypeOK
  <2>2. Current = prepared[committed]
    BY <2>1 DEF Current
  <2>3. /\ committed' = committed - 1
        /\ \/ text' = [text EXCEPT ![g] = before[g]] /\ stuck' = stuck
           \/ text' = text /\ stuck' = stuck \cup {g}
    BY <1>4, <1>7, <2>1, <2>2 DEF Restore, RestoreFails, history
  <2>4. g \in Replaced /\ Replaced' = Replaced \ {g}
    <3>1. committed \in 1 .. committed /\ 1 .. committed' = (1 .. committed) \ {committed}
      BY <1>3, <2>1, <2>3
    <3>2. \A j \in 1 .. committed : j # committed => prepared[j].file # g
      BY <1>3, <2>1 DEF PlanInv, PreparedOnce
    <3> QED BY <1>1, <3>1, <3>2 DEF Replaced
  <2>5. g \notin stuck /\ g \in Files
    BY <1>4, <2>1, <2>4 DEF TextsAsBegun
  <2> HIDE DEF g
  <2>6. ASSUME NEW f \in Files
        PROVE  text'[f] = IF f \in Replaced' \cup stuck' THEN PinText(before[f]) ELSE before[f]
    <3>1. text[f] = IF f \in Replaced \cup stuck THEN PinText(before[f]) ELSE before[f]
      BY DEF TextsAsBegun
    <3> QED BY <1>3, <2>3, <2>4, <2>5, <3>1
  <2>7. text' = [f \in Files |-> text'[f]] /\ stuck' \cap Replaced' = {}
    BY <1>3, <1>5, <2>3, <2>4 DEF TextsAsBegun
  <2> QED BY <1>1, <1>2, <2>1, <2>6, <2>7 DEF TextsAsBegun
<1> QED BY <1>6, <1>7

(* What an undisturbed rewrite knows, at every step of every run.            *)
LEMMA CalmInvHolds == Spec => []CalmInv
<1>1. Init => CalmInv
  BY DEF Init, CalmInv
<1>2. TypeOK /\ PlanInv /\ CalmInv /\ [Next]_vars => CalmInv'
  <2> SUFFICES ASSUME TypeOK, PlanInv, CalmInv, [Next]_vars, pc' # "idle"
               PROVE  exit' = None /\ (touched' = {} => /\ ListedAsBegun'
                                                        /\ PreparedAsBegun'
                                                        /\ TextsAsBegun')
    BY DEF CalmInv
  <2>1. ~ \E code : Ends(code)
    BY DEF Ends
  <2>2. CASE Start
    <3>1. /\ exit' = None /\ listed' \in ListingsOf(text) /\ before' = text /\ text' = text
          /\ pc' = "list" /\ again' = <<>> /\ results' = <<>> /\ next' = 1
          /\ prepared' = <<>> /\ committed' = 0 /\ stuck' = {}
      BY <2>2, ListingsAgree DEF Start, Cleared
    <3>2. ListedAsBegun'
      BY <3>1 DEF ListedAsBegun
    <3>3. PreparedAsBegun'
      <4>1. DOMAIN listed' = 1 .. Cardinality(ExistingIn(text)) /\ DOMAIN prepared' = {}
        BY <3>1 DEF ListingsOf
      <4>2. \A j \in DOMAIN listed' : ~ (j < next')
        BY <3>1, <4>1, ListingCovers
      <4> QED BY <3>1, <4>1, <4>2 DEF PreparedAsBegun
    <3>4. TextsAsBegun'
      <4>1. Replaced' = {}
        BY <3>1 DEF Replaced
      <4> QED BY <3>1, <4>1 DEF TextsAsBegun, TypeOK
    <3> QED BY <3>1, <3>2, <3>3, <3>4
  <2>3. CASE Edit
    BY <2>3 DEF Edit, CalmInv
  <2> DEFINE Run == ListAgain \/ Parse \/ Accept \/ Prepare \/ Prepared \/ Stage \/ Replace
                    \/ ReplaceFails \/ Restore \/ RestoreFails \/ UNCHANGED vars
  <2>4. CASE Run
    <3>1. pc # "idle" /\ exit' = exit /\ touched' = touched /\ before' = before
      BY <2>4 DEF ListAgain, Parse, Accept, Prepare, Prepared, Stage, Replace, ReplaceFails,
         Restore, RestoreFails, vars, history
    <3> SUFFICES ASSUME touched = {}
                 PROVE  ListedAsBegun' /\ PreparedAsBegun' /\ TextsAsBegun'
      BY <3>1 DEF CalmInv
    <3>2. ListedAsBegun /\ PreparedAsBegun /\ TextsAsBegun
      BY <3>1 DEF CalmInv
    <3>3. CASE ListAgain
      <4>1. /\ again' \in ListingsOf(text) /\ pc' = "parse" /\ pc = "list"
            /\ UNCHANGED <<text, listed, results, next, prepared, committed, before, stuck>>
        BY <3>3, ListingsAgree DEF ListAgain, workVars, history
      <4>2. text = before
        BY <3>2, <4>1, NothingReplacedYet
      <4>3. results = <<>>
        BY <3>2, <4>1 DEF ListedAsBegun, TypeOK
      <4>4. Len(again') \in Nat
        BY <4>1, ListingCovers
      <4>5. ListedAsBegun'
        BY <3>2, <4>1, <4>2, <4>3, <4>4 DEF ListedAsBegun
      <4>6. PreparedAsBegun' /\ TextsAsBegun'
        BY <3>2, <4>1 DEF PreparedAsBegun, TextsAsBegun, Planned, Replaced
      <4> QED BY <4>5, <4>6
    <3>4. CASE Parse
      <4>1. /\ Len(results) < Len(again) /\ results' = Append(results, text[again[Len(results) + 1]])
            /\ UNCHANGED <<text, pc, listed, again, next, prepared, committed, before, stuck>>
            /\ pc = "parse"
        BY <3>4 DEF Parse, workVars, history
      <4>2. text = before
        BY <3>2, <4>1, NothingReplacedYet
      <4>3. results \in Seq(Texts \cup {Gone}) /\ again \in Seq(Files)
        BY DEF TypeOK
      <4>4. /\ Len(results') <= Len(again)
            /\ \A i \in DOMAIN results' : results'[i] = before[again[i]]
        BY <3>2, <4>1, <4>2, <4>3 DEF ListedAsBegun
      <4>5. ListedAsBegun'
        BY <3>2, <4>1, <4>4 DEF ListedAsBegun
      <4>6. PreparedAsBegun' /\ TextsAsBegun'
        BY <3>2, <4>1 DEF PreparedAsBegun, TextsAsBegun, Planned, Replaced
      <4> QED BY <4>5, <4>6
    <3>5. CASE Prepare
      BY <3>2, <3>5, CalmPrepare
    <3>6. CASE Replace \/ Restore \/ RestoreFails
      BY <3>2, <3>6, CalmReplace
    <3>7. CASE Prepared
      <4>1. again = listed /\ Len(results) = Len(again)
        BY <3>2, <3>7, OneListing DEF Prepared, ListedAsBegun
      <4>2. next > Len(listed)
        BY <3>7, <4>1 DEF Prepared, Pairs
      <4> QED BY <3>1, <3>7, <4>1, <4>2, CalmKept DEF Prepared, workVars, history
    <3>8. CASE Accept
      BY <3>1, <3>8, CalmKept DEF Accept, workVars, history
    <3>9. CASE Stage \/ ReplaceFails \/ UNCHANGED vars
      <4>1. pc = "commit" \/ pc = "restore" => next > Len(listed)
        BY <3>2 DEF PreparedAsBegun
      <4>2. pc \in {"prepare", "commit", "restore"} => Len(results) = Len(again)
        BY <3>2 DEF ListedAsBegun
      <4> QED BY <3>1, <3>9, <4>1, <4>2, CalmKept
              DEF Stage, ReplaceFails, vars, planVars, workVars, history
    <3> QED BY <2>4, <3>3, <3>4, <3>5, <3>6, <3>7, <3>8, <3>9
  <2> QED BY <2>1, <2>2, <2>3, <2>4 DEF Next, Step, Reject, Abort, Succeed, Restored, Crash
<1> QED
  BY <1>1, <1>2, RewriteTypeCorrect, PlanInvHolds, PTL DEF Spec

(* The two ways a command reports how it ended.                              *)
LEMMA HowItEnds ==
    ASSUME CalmInv, [Next]_vars, pc # "idle", exit' # None
    PROVE  /\ text' = text
           /\ \/ exit' = 0 /\ Succeed
              \/ exit' = 1 /\ (Reject \/ Abort \/ Restored)
<1>1. exit = None
  BY DEF CalmInv
<1>2. ~ (Start \/ Crash)
  BY DEF Start, Crash, Ends
<1>3. ~ (Edit \/ UNCHANGED vars)
  BY <1>1 DEF Edit, vars
<1>4. ~ (ListAgain \/ Parse \/ Accept \/ Prepare \/ Prepared \/ Stage \/ Replace
         \/ ReplaceFails \/ Restore \/ RestoreFails)
  BY <1>1 DEF ListAgain, Parse, Accept, Prepare, Prepared, Stage, Replace, ReplaceFails,
     Restore, RestoreFails
<1>5. CASE Succeed
  <2>1. Ends(0)
    BY <1>5 DEF Succeed
  <2>2. text' = text /\ exit' = 0
    BY <2>1 DEF Ends
  <2> QED BY <1>5, <2>2
<1>6. CASE Reject \/ Abort \/ Restored
  <2>1. Ends(1)
    BY <1>6 DEF Reject, Abort, Restored
  <2> QED BY <1>6, <2>1 DEF Ends
<1> QED BY <1>2, <1>3, <1>4, <1>5, <1>6 DEF Next, Step

(* Success without disturbance, as a fact about the one step that reports it.*)
LEMMA SuccessPins ==
    ASSUME TypeOK, PlanInv, CalmInv, [Next]_vars,
           pc = "commit", exit' = 0, touched = {}
    PROVE  /\ text' = [f \in Files |-> IF before[f] = Gone THEN Gone ELSE PinText(before[f])]
           /\ \A f \in Files : f \notin Replaced /\ before[f] # Gone
                                => PinText(before[f]) = before[f]
<1>1. ListedAsBegun /\ PreparedAsBegun /\ TextsAsBegun
  BY DEF CalmInv
<1>2. text' = text /\ Succeed
  BY HowItEnds, MarksAssumption
<1>3. committed = Len(prepared) /\ Replaced = Planned
  <2>1. committed = Len(prepared) /\ DOMAIN prepared = 1 .. Len(prepared)
    BY <1>2 DEF Succeed, TypeOK
  <2> QED BY <2>1 DEF Replaced, Planned
<1>4. ASSUME NEW f \in Files, before[f] = Gone
      PROVE  f \notin Planned
  <2> SUFFICES ASSUME NEW i \in DOMAIN prepared, f = prepared[i].file PROVE FALSE
    BY DEF Planned
  <2>1. prepared[i] \in Rewrites /\ prepared[i].original = Gone
    BY <1>1, <1>4 DEF TypeOK, PreparedAsBegun
  <2> QED BY <2>1, MarksAssumption DEF Rewrites
<1>5. ASSUME NEW f \in Files, before[f] # Gone, f \notin Planned
      PROVE  PinText(before[f]) = before[f]
  <2>1. PICK j \in DOMAIN listed : listed[j] = f
    <3>1. f \in ExistingIn(before) /\ listed \in ListingsOf(before)
      BY <1>1, <1>5 DEF ListedAsBegun, ExistingIn
    <3> QED BY <3>1, ListingCovers
  <2>2. j < next
    <3>1. next > Len(listed) /\ next \in Nat /\ listed \in Seq(Files)
      BY <1>1 DEF PreparedAsBegun, TypeOK
    <3> QED BY <3>1
  <2> QED BY <1>1, <1>5, <2>1, <2>2 DEF PreparedAsBegun
<1>6. text = [f \in Files |-> IF f \in Planned THEN PinText(before[f]) ELSE before[f]]
  BY <1>1, <1>3 DEF TextsAsBegun
<1> QED BY <1>2, <1>3, <1>4, <1>5, <1>6

(* When nobody else writes the files, a rewrite that exits 0 leaves every    *)
(* file in its pinned form, however many files and uses there are.           *)
THEOREM SuccessPinsAllHolds == Spec => SuccessPinsAll
<1> DEFINE Pins == pc = "commit" /\ exit' = 0 /\ touched = {} =>
                     text' = [f \in Files |-> IF before[f] = Gone THEN Gone
                                              ELSE PinText(before[f])]
<1>1. TypeOK /\ PlanInv /\ CalmInv /\ [Next]_vars => Pins
  BY SuccessPins
<1> QED
  BY <1>1, RewriteTypeCorrect, PlanInvHolds, CalmInvHolds, PTL DEF Spec, SuccessPinsAll, Pins

(* When nobody else writes the files, a rewrite that refuses leaves those it *)
(* could change back as they were and the others in their pinned form.       *)
THEOREM RefusalUndoesHolds == Spec => RefusalUndoes
<1> DEFINE Undoes == pc # "idle" /\ exit' = 1 /\ touched = {} =>
                       text' = [f \in Files |-> IF f \in stuck THEN PinText(before[f])
                                                ELSE before[f]]
<1>1. TypeOK /\ PlanInv /\ CalmInv /\ [Next]_vars => Undoes
  <2> SUFFICES ASSUME TypeOK, PlanInv, CalmInv, [Next]_vars,
                      pc # "idle", exit' = 1, touched = {}
               PROVE  text' = [f \in Files |-> IF f \in stuck THEN PinText(before[f])
                                               ELSE before[f]]
    OBVIOUS
  <2>1. TextsAsBegun
    BY DEF CalmInv
  <2>2. text' = text /\ (Reject \/ Abort \/ Restored)
    BY HowItEnds, MarksAssumption
  <2>3. committed = 0
    BY <2>2 DEF Reject, Abort, Restored, PlanInv, Phases
  <2>4. Replaced = {}
    BY <2>3 DEF Replaced
  <2> QED BY <2>1, <2>2, <2>4 DEF TextsAsBegun
<1> QED
  BY <1>1, RewriteTypeCorrect, PlanInvHolds, CalmInvHolds, PTL DEF Spec, RefusalUndoes, Undoes

-----------------------------------------------------------------------------
(* A file nobody else writes, whatever happens to the others: it is parsed   *)
(* and prepared from the text it had when the command began, and holds that  *)
(* text or what was prepared, which has the uses of its pinned form if the   *)
(* targets come from no other file.                                          *)
AsPinned(t, u) == \A l \in Lines : UseOn(t, l) = UseOn(PinText(u), l)

AloneResults ==
    /\ pc = "list" => results = <<>>
    /\ \A n \in DOMAIN results : again[n] \notin touched => results[n] = before[again[n]]

AlonePrepared ==
    \A i \in DOMAIN prepared :
        prepared[i].file \notin touched =>
            /\ prepared[i].original = before[prepared[i].file]
            /\ OwnTargets(prepared[i].file) =>
                  AsPinned(prepared[i].candidate, before[prepared[i].file])

AloneTexts ==
    \A f \in Files \ touched :
        IF f \in Replaced \cup stuck THEN OwnTargets(f) => AsPinned(text[f], before[f])
                                     ELSE text[f] = before[f]

AloneInv == pc # "idle" => /\ AloneResults /\ AlonePrepared /\ AloneTexts
                           /\ stuck \subseteq Planned \ Replaced
                           /\ pc # "restore" => stuck = {}

(* Where its targets come from is settled once the parse is accepted.        *)
LEMMA TargetsKept ==
    ASSUME UNCHANGED <<listed, again, results, before>>, NEW f
    PROVE  OwnTargets(f)' = OwnTargets(f)
  BY DEF OwnTargets, Pairs

(* What is prepared is kept, and may grow by one.                            *)
LEMMA AlonePrepare ==
    ASSUME TypeOK, PlanInv, AloneInv, Prepare
    PROVE  AloneInv'
<1> DEFINE f == listed[next]
           r == [file |-> f, original |-> text[f],
                 candidate |-> Candidate(text[f], results[next])]
<1>1. /\ pc = "prepare" /\ UNCHANGED <<text, pc, committed, before, touched, stuck>>
      /\ UNCHANGED <<listed, again, results>>
      /\ next \in DOMAIN listed /\ next \in DOMAIN results /\ next \in 1 .. Pairs
  BY DEF Prepare, history, planVars, Pairs, TypeOK
<1>2. committed = 0 /\ stuck = {} /\ AlonePrepared /\ AloneTexts /\ AloneResults
  BY <1>1 DEF PlanInv, Phases, AloneInv
<1>3. Replaced = {} /\ Replaced' = {}
  BY <1>1, <1>2 DEF Replaced
<1>4. AloneTexts' /\ AloneResults'
  BY <1>1, <1>2, <1>3 DEF AloneTexts, AloneResults
<1>5. ASSUME prepared' # prepared, f \notin touched
      PROVE  /\ text[f] = before[f]
             /\ OwnTargets(f) => AsPinned(Candidate(text[f], results[next]), before[f])
  <2>1. /\ Located(text[f], results[next])
        /\ Checks(Candidate(text[f], results[next]), results[next])
        /\ text[f] # Gone
    BY <1>5 DEF Prepare
  <2>2. f \in Files /\ text[f] \in Texts /\ results[next] \in Parsed
    BY <1>1, <2>1 DEF TypeOK
  <2>3. text[f] = before[f]
    BY <1>2, <1>3, <1>5, <2>2 DEF AloneTexts
  <2>4. CASE before[f] \in Parsed /\ AliasesIn(before[f]) = {}
    BY <2>1, <2>2, <2>3, <2>4, CandidateFaithful DEF AsPinned
  <2>5. CASE again[next] = f
    <3>1. results[next] = before[f]
      BY <1>1, <1>2, <1>5, <2>5 DEF AloneResults
    <3> QED BY <2>2, <2>3, <3>1, OwnCandidate DEF AsPinned
  <2>6. OwnTargets(f) => (before[f] \in Parsed /\ AliasesIn(before[f]) = {}) \/ again[next] = f
    BY <1>1 DEF OwnTargets
  <2> QED BY <2>3, <2>4, <2>5, <2>6
<1>6. CASE prepared' = prepared
  <2>1. AlonePrepared'
    BY <1>1, <1>2, <1>6, TargetsKept DEF AlonePrepared
  <2> QED BY <1>1, <1>2, <1>4, <2>1 DEF AloneInv
<1>7. CASE prepared' # prepared
  <2>1. prepared \in Seq(Rewrites) /\ prepared' = Append(prepared, r)
    BY <1>7 DEF TypeOK, Prepare
  <2>2. r.file = f /\ r.original = text[f] /\ r.candidate = Candidate(text[f], results[next])
    OBVIOUS
  <2>3. f \notin touched => /\ r.original = before[f]
                            /\ OwnTargets(f) => AsPinned(r.candidate, before[f])
    BY <1>5, <1>7, <2>2
  <2> HIDE DEF r, f
  <2>4. \A i \in DOMAIN prepared' :
           prepared'[i] = r \/ (i \in DOMAIN prepared /\ prepared'[i] = prepared[i])
    BY <2>1
  <2>5. ASSUME NEW i \in DOMAIN prepared', prepared'[i].file \notin touched
        PROVE  /\ prepared'[i].original = before[prepared'[i].file]
               /\ OwnTargets(prepared'[i].file) =>
                     AsPinned(prepared'[i].candidate, before[prepared'[i].file])
    <3>1. CASE prepared'[i] = r
      BY <2>2, <2>3, <2>5, <3>1
    <3>2. CASE i \in DOMAIN prepared /\ prepared'[i] = prepared[i]
      BY <1>2, <2>5, <3>2 DEF AlonePrepared
    <3> QED BY <2>4, <3>1, <3>2
  <2>6. AlonePrepared'
    BY <1>1, <2>5, TargetsKept DEF AlonePrepared
  <2> QED BY <1>1, <1>2, <1>4, <2>6, <1>3 DEF AloneInv
<1> QED BY <1>6, <1>7

(* Replacing and changing back move one file between its two forms.          *)
LEMMA AloneReplace ==
    ASSUME TypeOK, PlanInv, AloneInv, Replace \/ Restore \/ RestoreFails
    PROVE  AloneInv'
<1>1. /\ UNCHANGED <<pc, prepared, before, touched, listed, again, results>>
      /\ pc \in {"commit", "restore"}
  BY DEF Replace, Restore, RestoreFails, history, planVars
<1>2. AlonePrepared /\ AloneTexts /\ AloneResults /\ stuck \subseteq Planned \ Replaced
  BY <1>1 DEF AloneInv
<1> HIDE DEF OwnTargets
<1>3. AlonePrepared' /\ AloneResults' /\ Planned' = Planned
  BY <1>1, <1>2, TargetsKept DEF AlonePrepared, AloneResults, Planned
<1>4. /\ committed \in Nat /\ committed <= Len(prepared)
      /\ DOMAIN prepared = 1 .. Len(prepared) /\ Len(prepared) \in Nat
      /\ text \in [Files -> Texts \cup {Gone}]
  BY DEF TypeOK
<1>5. ASSUME NEW i \in DOMAIN prepared
      PROVE  /\ prepared[i].file \in Files /\ prepared[i].file \in Planned
             /\ prepared[i].file \notin touched =>
                   /\ prepared[i].original = before[prepared[i].file]
                   /\ OwnTargets(prepared[i].file) =>
                         AsPinned(prepared[i].candidate, before[prepared[i].file])
  <2>1. prepared[i] \in Rewrites
    BY DEF TypeOK
  <2> QED BY <1>2, <2>1 DEF Rewrites, AlonePrepared, Planned
<1>6. CASE Replace
  <2> DEFINE g == prepared[committed + 1].file
  <2>1. committed < Len(prepared) /\ committed + 1 \in DOMAIN prepared
    BY <1>4, <1>6 DEF Replace, TypeOK
  <2>2. /\ text' = [text EXCEPT ![g] = prepared[committed + 1].candidate]
        /\ committed' = committed + 1 /\ stuck' = stuck /\ pc = "commit"
    BY <1>6 DEF Replace, Current, history
  <2>3. Replaced' = Replaced \cup {g}
    <3>1. 1 .. committed' = (1 .. committed) \cup {committed + 1}
      BY <1>4, <2>2
    <3> QED BY <1>1, <3>1 DEF Replaced
  <2>4. stuck = {} /\ stuck' = {}
    BY <2>2 DEF AloneInv
  <2>5. /\ g \in Files
        /\ g \notin touched /\ OwnTargets(g) => 
                 AsPinned(prepared[committed + 1].candidate, before[g])
    BY <1>5, <2>1
  <2> HIDE DEF g
  <2>6. ASSUME NEW f \in Files \ touched
        PROVE  IF f \in Replaced' \cup stuck' THEN OwnTargets(f) => AsPinned(text'[f], before[f])
                                               ELSE text'[f] = before[f]
    <3>1. IF f \in Replaced \cup stuck THEN OwnTargets(f) => AsPinned(text[f], before[f])
                                       ELSE text[f] = before[f]
      BY <1>2 DEF AloneTexts
    <3> QED BY <1>4, <2>2, <2>3, <2>4, <2>5, <3>1
  <2>7. AloneTexts'
    BY <1>1, <2>6, TargetsKept DEF AloneTexts
  <2> QED BY <1>1, <1>3, <2>4, <2>7 DEF AloneInv
<1>7. CASE Restore \/ RestoreFails
  <2> DEFINE g == prepared[committed].file
  <2>1. committed \in DOMAIN prepared /\ pc = "restore"
    BY <1>4, <1>7 DEF Restore, RestoreFails, TypeOK
  <2>2. Current = prepared[committed]
    BY <2>1 DEF Current
  <2>3. /\ committed' = committed - 1
        /\ \/ text' = [text EXCEPT ![g] = prepared[committed].original] /\ stuck' = stuck
           \/ text' = text /\ stuck' = stuck \cup {g}
    BY <1>7, <2>2 DEF Restore, RestoreFails, history
  <2>4. g \in Replaced /\ Replaced' = Replaced \ {g}
    <3>1. committed \in 1 .. committed /\ 1 .. committed' = (1 .. committed) \ {committed}
      BY <1>4, <2>1, <2>3
    <3>2. \A j \in 1 .. committed : j # committed => prepared[j].file # g
      BY <1>4, <2>1 DEF PlanInv, PreparedOnce
    <3> QED BY <1>1, <3>1, <3>2 DEF Replaced
  <2>5. /\ g \in Files /\ g \in Planned /\ g \notin stuck
        /\ g \notin touched => prepared[committed].original = before[g]
    BY <1>2, <1>5, <2>1, <2>4
  <2> HIDE DEF g
  <2>6. ASSUME NEW f \in Files \ touched
        PROVE  IF f \in Replaced' \cup stuck' THEN OwnTargets(f) => AsPinned(text'[f], before[f])
                                               ELSE text'[f] = before[f]
    <3>1. IF f \in Replaced \cup stuck THEN OwnTargets(f) => AsPinned(text[f], before[f])
                                       ELSE text[f] = before[f]
      BY <1>2 DEF AloneTexts
    <3> QED BY <1>4, <2>3, <2>4, <2>5, <3>1
  <2>7. AloneTexts'
    BY <1>1, <2>6, TargetsKept DEF AloneTexts
  <2>8. stuck' \subseteq Planned \ Replaced'
    BY <1>2, <2>3, <2>4, <2>5
  <2> QED BY <1>1, <1>3, <2>1, <2>7, <2>8 DEF AloneInv
<1> QED BY <1>6, <1>7

(* What holds of the files left alone, at every step of every run.           *)
LEMMA AloneInvHolds == Spec => []AloneInv
<1>1. Init => AloneInv
  BY DEF Init, AloneInv
<1>2. TypeOK /\ PlanInv /\ AloneInv /\ [Next]_vars => AloneInv'
  <2> SUFFICES ASSUME TypeOK, PlanInv, AloneInv, [Next]_vars, pc' # "idle"
               PROVE  AloneInv'
    BY DEF AloneInv
  <2>1. ~ \E code : Ends(code)
    BY DEF Ends
  <2>2. CASE Start
    <3>1. /\ prepared' = <<>> /\ committed' = 0 /\ stuck' = {} /\ results' = <<>>
          /\ before' = text /\ text' = text
      BY <2>2 DEF Start, Cleared
    <3>2. Replaced' = {}
      BY <3>1 DEF Replaced
    <3> QED BY <3>1, <3>2 DEF AloneInv, AloneResults, AlonePrepared, AloneTexts
  <2>3. CASE Edit
    <3>1. /\ pc' = pc /\ UNCHANGED <<prepared, committed, stuck, listed, again, results>>
          /\ \E f \in Files, t \in Written : /\ text' = [text EXCEPT ![f] = t]
                                            /\ touched' = touched \cup {f}
          /\ before' = before
      BY <2>3 DEF Edit, planVars, workVars
    <3>2. PICK f \in Files, t \in Written : /\ text' = [text EXCEPT ![f] = t]
                                          /\ touched' = touched \cup {f}
      BY <3>1
    <3>3. Replaced' = Replaced /\ Planned' = Planned
      BY <3>1 DEF Replaced, Planned
    <3>4. AloneTexts /\ AlonePrepared /\ AloneResults /\ stuck \subseteq Planned \ Replaced
      BY <3>1 DEF AloneInv
    <3>5. AloneTexts'
      <4> HIDE DEF OwnTargets
      <4> QED BY <3>1, <3>2, <3>3, <3>4, TargetsKept DEF AloneTexts, TypeOK
    <3>6. AlonePrepared' /\ AloneResults'
      <4> HIDE DEF OwnTargets
      <4> QED BY <3>1, <3>2, <3>4, TargetsKept DEF AlonePrepared, AloneResults
    <3> QED BY <3>1, <3>3, <3>4, <3>5, <3>6 DEF AloneInv
  <2>4. CASE Prepare
    BY <2>4, AlonePrepare
  <2>5. CASE Replace \/ Restore \/ RestoreFails
    BY <2>5, AloneReplace
  <2>6. CASE ListAgain \/ Parse
    <3>1. /\ UNCHANGED <<text, before, touched, stuck>> /\ pc \in {"list", "parse"}
          /\ pc' = "parse" /\ prepared' = <<>> /\ committed = 0 /\ committed' = 0
      BY <2>6 DEF ListAgain, Parse, workVars, history, PlanInv, Phases
    <3>2. Replaced = {} /\ Replaced' = {} /\ stuck = {}
      BY <3>1 DEF Replaced, AloneInv
    <3>3. AloneTexts /\ AloneResults
      BY <3>1 DEF AloneInv
    <3>4. AloneTexts'
      BY <3>1, <3>2, <3>3 DEF AloneTexts
    <3>5. AloneResults'
      <4>1. CASE ListAgain
        BY <3>1, <3>3, <4>1 DEF ListAgain, AloneResults
      <4>2. CASE Parse
        <5> DEFINE n == Len(results) + 1
        <5>1. /\ results \in Seq(Texts \cup {Gone}) /\ again \in Seq(Files)
              /\ Len(results) < Len(again) /\ again' = again
              /\ results' = Append(results, text[again[n]])
          BY <4>2 DEF Parse, TypeOK
        <5>2. n \in DOMAIN again /\ again[n] \in Files
          BY <5>1
        <5>3. again[n] \notin touched => text[again[n]] = before[again[n]]
          BY <3>2, <3>3, <5>2 DEF AloneTexts
        <5>4. \A m \in DOMAIN results' : \/ m = n /\ results'[m] = text[again[n]]
                                         \/ m \in DOMAIN results /\ results'[m] = results[m]
          BY <5>1
        <5> HIDE DEF n
        <5> QED BY <3>1, <3>3, <5>1, <5>3, <5>4 DEF AloneResults
      <4> QED BY <2>6, <4>1, <4>2
    <3> QED BY <3>1, <3>2, <3>4, <3>5 DEF AloneInv, AlonePrepared
  <2>7. CASE Accept \/ Prepared \/ Stage \/ ReplaceFails \/ UNCHANGED vars
    <3>1. /\ UNCHANGED <<text, listed, again, results, prepared, committed>>
          /\ UNCHANGED <<before, touched, stuck>>
          /\ pc # "idle" /\ (pc' = "list" => pc = "list")
          /\ pc' # "restore" => pc # "restore"
      BY <2>7 DEF Accept, Prepared, Stage, ReplaceFails, vars, planVars, workVars, history
    <3>2. Replaced' = Replaced /\ Planned' = Planned
      BY <3>1 DEF Replaced, Planned
    <3> HIDE DEF OwnTargets
    <3> QED BY <3>1, <3>2, TargetsKept
            DEF AloneInv, AloneResults, AlonePrepared, AloneTexts
  <2> QED BY <2>1, <2>2, <2>3, <2>4, <2>5, <2>6, <2>7
          DEF Next, Step, Reject, Abort, Succeed, Restored, Crash
<1> QED
  BY <1>1, <1>2, RewriteTypeCorrect, PlanInvHolds, PTL DEF Spec

-----------------------------------------------------------------------------
(* A rewrite is the one step Locker takes for it.                            *)

(* The pinned form of a text refers to what Locker pins the uses of it to.   *)
LEMMA UsePinned ==
    ASSUME NEW t \in Texts, NEW l \in Lines
    PROVE  UseOn(PinText(t), l) = Command!Pinned(UseOn(t, l))
<1>1. Command!Pinned(NoUse) = NoUse
  BY LockfileAssumption DEF Command!Pinned
<1>2. CASE t \notin Parsed
  BY <1>1, <1>2 DEF PinText, UseOn
<1>3. CASE t \in Parsed
  <2> DEFINE u == PinText(t)
  <2>1. t \in Drafts /\ u \in Parsed /\ u = Candidate(t, t)
    BY <1>3, OwnCandidate DEF Parsed
  <2>2. TokensIn(u) = TokensIn(t) /\ \A m \in TokensIn(t) : u[m][1] = t[m][1]
    BY <2>1, CandidateTyped
  <2>3. l \in UsesIn(u) <=> l \in UsesIn(t)
    BY <2>2 DEF UsesIn
  <2>4. CASE l \notin UsesIn(t)
    BY <1>1, <1>3, <2>1, <2>3, <2>4 DEF UseOn
  <2>5. CASE l \in UsesIn(t)
    <3>1. t[l] # Other /\ t[l][1] # {}
      BY <2>5 DEF UsesIn, TokensIn
    <3>2. u[l][2] = Wanted(t[l][2])
      <4>1. CASE t[l][2] \in DOMAIN PinOf
        BY <1>3, <2>5, <4>1 DEF PinText, Mutable, Wanted
      <4>2. CASE t[l][2] \notin DOMAIN PinOf
        <5>1. l \notin Mutable(t)
          BY <4>2 DEF Mutable
        <5>2. t[l][3] \in Mutable(t) => t[l][3] \in Lines /\ t[t[l][3]][2] \in DOMAIN PinOf
          BY DEF Mutable, UsesIn, TokensIn
        <5>3. t[l][3] \notin Mutable(t)
          BY <2>1, <3>1, <4>2, <5>2, LineFacts, MarksAssumption
        <5> QED BY <1>3, <4>2, <5>1, <5>3 DEF PinText, Wanted
      <4> QED BY <4>1, <4>2
    <3>3. UseOn(u, l) = Wanted(t[l][2]) /\ UseOn(t, l) = t[l][2]
      BY <1>3, <2>1, <2>3, <2>5, <3>2 DEF UseOn
    <3>4. Wanted(t[l][2]) = Command!Pinned(t[l][2])
      BY MapAssumption DEF Wanted, Command!Pinned, Command!Ref, Command!Action
    <3> QED BY <3>3, <3>4
  <2> QED BY <2>4, <2>5
<1> QED BY <1>2, <1>3

(* The step in which a command ends, seen from outside.                      *)
LEMMA EndsAsOneStep ==
    ASSUME TypeOK, PlanInv, CalmInv, AloneInv, [Next]_vars,
           pc # "idle", pc' = "idle",
           touched = {} \/ (exit' # 0 /\ \A f \in Files \ touched : OwnTargets(f))
    PROVE  Command!Rewrite(RewriteCall)
<1> DEFINE changed == {f \in Files \ touched : /\ f \in Replaced \cup stuck
                                               /\ f \in Command!Affected}
           uses == UsesOf(Shown)
<1>1. text' = text /\ exit' \in {None, 0, 1}
  <2>1. \E code \in {None, 0, 1} : Ends(code)
    BY DEF Next, Step, Start, ListAgain, Parse, Reject, Accept, Prepare, Abort, Prepared, Stage,
       Replace, ReplaceFails, Succeed, Restore, RestoreFails, Restored, Crash, Edit, vars
  <2> QED BY <2>1 DEF Ends
<1>2. Shown' = text
  BY <1>1 DEF Shown, TypeOK
<1>3. AloneTexts /\ stuck \subseteq Planned
  BY DEF AloneInv
<1>4. ASSUME NEW f \in Files
      PROVE  Shown[f] = IF f \in touched THEN text[f] ELSE before[f]
  BY DEF Shown
<1>5. ASSUME NEW f \in Files \ touched, f \in Replaced \cup stuck
      PROVE  before[f] \in Texts /\ AsPinned(text[f], before[f])
  <2>1. PICK i \in DOMAIN prepared : prepared[i].file = f
    <3>1. committed \in Nat /\ committed <= Len(prepared) /\ DOMAIN prepared = 1 .. Len(prepared)
      BY DEF TypeOK
    <3>2. 1 .. committed \subseteq DOMAIN prepared
      BY <3>1
    <3>3. Replaced \subseteq Planned
      BY <3>2 DEF Replaced, Planned
    <3> QED BY <1>3, <1>5, <3>3 DEF Planned
  <2>2. prepared[i].original = before[f] /\ prepared[i] \in Rewrites
    BY <2>1 DEF AloneInv, AlonePrepared, TypeOK
  <2>3. CASE touched = {}
    BY <1>5, <2>2, <2>3 DEF Rewrites, CalmInv, TextsAsBegun, AsPinned
  <2>4. CASE OwnTargets(f)
    BY <1>3, <1>5, <2>2, <2>4 DEF Rewrites, AloneTexts
  <2> QED BY <2>2, <2>3, <2>4 DEF Rewrites
<1>6. ASSUME NEW f \in Files, NEW l \in Lines
      PROVE  /\ <<f, l>> \in Files \X Lines
             /\ uses[<<f, l>>] = UseOn(Shown[f], l)
             /\ UsesOf(text)[<<f, l>>] = UseOn(text[f], l)
  BY DEF UsesOf
<1>7. ASSUME NEW f \in Files, f \notin Command!Affected, NEW l \in Lines
      PROVE  Command!Pinned(uses[<<f, l>>]) = uses[<<f, l>>]
  BY <1>6, <1>7 DEF Command!Affected
<1>8. ASSUME NEW s \in Files \X Lines
      PROVE  UsesOf(text)[s] = IF s[1] \in changed THEN Command!Pinned(uses[s]) ELSE uses[s]
  <2>1. PICK f \in Files, l \in Lines : s = <<f, l>>
    OBVIOUS
  <2>2. CASE f \in touched
    BY <1>4, <1>6, <2>1, <2>2
  <2>3. CASE f \notin touched /\ f \notin Replaced \cup stuck
    BY <1>3, <1>4, <1>6, <2>1, <2>3 DEF AloneTexts
  <2>4. CASE f \notin touched /\ f \in Replaced \cup stuck
    <3>1. UseOn(text[f], l) = Command!Pinned(uses[s])
      BY <1>4, <1>5, <1>6, <2>1, <2>4, UsePinned DEF AsPinned
    <3> QED BY <1>6, <1>7, <2>1, <2>4, <3>1
  <2> QED BY <2>2, <2>3, <2>4
<1>9. UsesOf(Shown)' = [s \in Files \X Lines |->
                          IF s[1] \in changed THEN Command!Pinned(uses[s]) ELSE uses[s]]
  BY <1>2, <1>8 DEF UsesOf
<1>10. ASSUME exit' = 0
       PROVE  changed = Command!Affected
  <2>1. touched = {} /\ pc = "commit"
    BY <1>10, HowItEnds, MarksAssumption DEF Succeed
  <2>2. ASSUME NEW f \in Command!Affected
        PROVE  f \in Files /\ f \in Replaced
    <3>1. PICK g \in Files, l \in Lines :
             f = g /\ Command!Pinned(uses[<<g, l>>]) # uses[<<g, l>>]
      BY DEF Command!Affected
    <3>2. before[f] # Gone
      <4>1. Command!Pinned(NoUse) = NoUse
        BY LockfileAssumption DEF Command!Pinned
      <4> QED BY <1>4, <1>6, <2>1, <3>1, <4>1, MarksAssumption DEF UseOn, Texts, Parsed
    <3>3. before[f] \in Texts /\ uses[<<g, l>>] = UseOn(before[f], l)
      BY <1>4, <1>6, <2>1, <3>1, <3>2 DEF TypeOK
    <3>4. PinText(before[f]) # before[f]
      BY <3>1, <3>3, UsePinned
    <3> QED BY <1>10, <2>1, <3>1, <3>2, <3>4, SuccessPins
  <2> QED BY <2>1, <2>2
<1>11. /\ Locked \notin {Torn, Command!NoLocks}
       /\ \E k \in DOMAIN Locked : Command!Ref(k) \in Tags
  BY LockfileAssumption DEF Command!NoLocks, Command!Ref
<1>12. Status' \in IF changed = Command!Affected THEN {0, 1} ELSE {1}
  BY <1>1, <1>10 DEF Status
<1>13. changed \in SUBSET Command!Affected
  OBVIOUS
<1> HIDE DEF changed
<1> QED BY <1>9, <1>11, <1>12, <1>13 DEF Command!Rewrite, RewriteCall

(* Locker's one step for a rewrite is what the rewrite does, whatever files  *)
(* there are, however many calls it makes and whichever fails.               *)
THEOREM RewriteIsOneStepHolds == Spec => RewriteIsOneStep
<1> DEFINE OneStep == (/\ pc # "idle" /\ pc' = "idle"
                       /\ \/ touched = {}
                          \/ exit' # 0 /\ \A f \in Files \ touched : OwnTargets(f))
                        => Command!Rewrite(RewriteCall)
<1>1. TypeOK /\ PlanInv /\ CalmInv /\ AloneInv /\ [Next]_vars => OneStep
  BY EndsAsOneStep
<1> QED
  BY <1>1, RewriteTypeCorrect, PlanInvHolds, CalmInvHolds, AloneInvHolds, PTL
     DEF Spec, RewriteIsOneStep, OneStep


-----------------------------------------------------------------------------
(* Every step brings a rewrite nearer to its end.                            *)

(* What the bound counts starts at its beginning, and neither the parsing    *)
(* nor the checking goes beyond the end of its list.                         *)
Counts == /\ pc \in {"idle", "list"} => results = <<>>
          /\ pc \in {"idle", "list", "parse"} => next = 1
          /\ pc = "parse" => Len(results) <= Len(again)
          /\ pc = "prepare" => next <= Pairs + 1

(* The bound, phase by phase, before a step and after it.                    *)
Half == IF staged THEN 1 ELSE 0
LEMMA PhaseBounds ==
    /\ pc = "idle"    => Remaining = 0
    /\ pc = "list"    => Remaining = 6 * Cardinality(Files) + 5
    /\ pc = "parse"   => Remaining = 6 * Len(again) - Len(results) + 4
    /\ pc = "prepare" => Remaining = 5 * (Pairs + 1 - next) + 4 * Len(prepared) + 3
    /\ pc = "commit"  => Remaining = 4 * Len(prepared) - 2 * committed - Half + 2
    /\ pc = "restore" => Remaining = 2 * committed - Half + 1
    /\ pc' = "idle"    => Remaining' = 0
    /\ pc' = "parse"   => Remaining' = 6 * Len(again') - Len(results') + 4
    /\ pc' = "prepare" => Remaining' = 5 * (Pairs' + 1 - next') + 4 * Len(prepared') + 3
    /\ pc' = "commit"  => Remaining' = 4 * Len(prepared') - 2 * committed' - Half' + 2
    /\ pc' = "restore" => Remaining' = 2 * committed' - Half' + 1
  BY DEF Remaining, Half

(* A listing is no longer than there are files.                              *)
LEMMA ListingLength ==
    ASSUME NEW s \in Listings
    PROVE  Len(s) \in Nat /\ Cardinality(Files) \in Nat /\ Len(s) <= Cardinality(Files)
<1>1. /\ IsFiniteSet(Existing) /\ Cardinality(Existing) <= Cardinality(Files)
  BY OrderedFiles, FS_Subset DEF Existing
<1>2. Cardinality(Existing) \in Nat /\ Cardinality(Files) \in Nat
  BY <1>1, OrderedFiles, FS_CardinalityType
<1>3. s \in [1 .. Cardinality(Existing) -> Existing]
  BY DEF Listings
<1>4. Len(s) = Cardinality(Existing)
  BY <1>2, <1>3, ListingFacts
<1> QED BY <1>1, <1>2, <1>4

(* The numbers the bound is made of.                                         *)
LEMMA CountFacts ==
    ASSUME TypeOK
    PROVE  /\ Len(again) \in Nat /\ Len(results) \in Nat /\ Len(listed) \in Nat
           /\ Len(prepared) \in Nat /\ committed \in Nat /\ next \in Nat \ {0}
           /\ committed <= Len(prepared) /\ Half \in {0, 1}
           /\ Pairs \in Nat /\ Pairs <= Len(results)
           /\ Half = 1 => \/ pc = "commit" /\ committed < Len(prepared)
                          \/ pc = "restore" /\ committed > 0
<1>1. /\ Len(again) \in Nat /\ Len(results) \in Nat /\ Len(listed) \in Nat
      /\ Len(prepared) \in Nat
  BY DEF TypeOK
<1>2. committed \in Nat /\ committed <= Len(prepared) /\ next \in Nat \ {0}
  BY <1>1 DEF TypeOK
<1>3. Pairs \in Nat /\ Pairs <= Len(results)
  BY <1>1 DEF Pairs
<1>4. Half \in {0, 1} /\ (Half = 1 => staged)
  BY DEF Half
<1> QED BY <1>1, <1>2, <1>3, <1>4 DEF TypeOK

(* Every step keeps the counts so.                                           *)
LEMMA NextCounts ==
    ASSUME TypeOK, Counts, [Next]_vars
    PROVE  Counts'
<1>1. CASE Start
  BY <1>1 DEF Start, Cleared, Counts
<1>2. ASSUME NEW code, Ends(code) PROVE Counts'
  BY <1>2 DEF Ends, Cleared, Counts
<1>3. CASE ListAgain
  <2>1. results' = <<>> /\ next' = 1 /\ pc' = "parse" /\ again' \in Listings
    BY <1>3 DEF ListAgain, Counts, workVars
  <2>2. Len(again') \in Nat /\ Len(again') >= Len(results')
    BY <2>1, ListingLength, ListingFacts
  <2> QED BY <2>1, <2>2 DEF Counts
<1>4. CASE Parse
  <2>1. /\ next' = next /\ pc' = "parse" /\ pc = "parse" /\ again' = again
        /\ Len(results) < Len(again) /\ Len(results') = Len(results) + 1
    BY <1>4 DEF Parse, workVars, TypeOK
  <2>2. Len(results') <= Len(again')
    BY <2>1, CountFacts
  <2> QED BY <2>1, <2>2 DEF Counts
<1>5. CASE Accept
  <2>1. next' = 1 /\ pc' = "prepare" /\ UNCHANGED <<listed, results>>
    BY <1>5 DEF Accept, Counts, workVars, planVars
  <2>2. Pairs' = Pairs
    BY <2>1 DEF Pairs
  <2>3. next' <= Pairs' + 1
    BY <2>1, <2>2, CountFacts
  <2> QED BY <2>1, <2>3 DEF Counts
<1>6. CASE Prepare
  <2>1. /\ next' = next + 1 /\ next <= Pairs /\ pc = "prepare" /\ pc' = pc
        /\ UNCHANGED <<listed, results>>
    BY <1>6 DEF Prepare, planVars
  <2>2. Pairs' = Pairs
    BY <2>1 DEF Pairs
  <2>3. next' <= Pairs' + 1
    BY <2>1, <2>2, CountFacts
  <2> QED BY <2>1, <2>3 DEF Counts
<1>7. CASE Prepared \/ Stage \/ Replace \/ ReplaceFails \/ Restore \/ RestoreFails
  <2>1. pc' \in {"commit", "restore"}
    BY <1>7 DEF Prepared, Stage, Replace, ReplaceFails, Restore, RestoreFails
  <2> QED BY <2>1 DEF Counts
<1>8. CASE Edit \/ UNCHANGED vars
  <2>1. UNCHANGED <<pc, listed, again, results, next>>
    BY <1>8 DEF Edit, planVars, workVars, vars
  <2> QED BY <2>1 DEF Counts, Pairs
<1> QED BY <1>1, <1>2, <1>3, <1>4, <1>5, <1>6, <1>7, <1>8
        DEF Next, Step, Reject, Abort, Succeed, Restored, Crash

(* The bound is a number, and only an idle command has nothing left.         *)
LEMMA RemainingIsNat ==
    ASSUME TypeOK, Counts
    PROVE  Remaining \in Nat /\ (pc # "idle" => Remaining > 0)
<1>1. CASE pc = "idle"
  BY <1>1, PhaseBounds
<1>2. CASE pc = "list"
  <2>1. Cardinality(Files) \in Nat
    BY OrderedFiles, FS_CardinalityType
  <2> QED BY <1>2, <2>1, PhaseBounds
<1>3. CASE pc = "parse"
  <2>1. Remaining = 6 * Len(again) - Len(results) + 4
    BY <1>3, PhaseBounds
  <2> QED BY <1>3, <2>1, CountFacts DEF Counts
<1>4. CASE pc = "prepare"
  <2>1. Remaining = 5 * (Pairs + 1 - next) + 4 * Len(prepared) + 3
    BY <1>4, PhaseBounds
  <2> QED BY <1>4, <2>1, CountFacts DEF Counts
<1>5. CASE pc = "commit"
  <2>1. Remaining = 4 * Len(prepared) - 2 * committed - Half + 2
    BY <1>5, PhaseBounds
  <2>2. \A l, c \in Nat, h \in {0, 1} :
          c <= l => 4 * l - 2 * c - h + 2 \in Nat /\ 4 * l - 2 * c - h + 2 > 0
    OBVIOUS
  <2>3. /\ Len(prepared) \in Nat /\ committed \in Nat
        /\ committed <= Len(prepared) /\ Half \in {0, 1}
    BY CountFacts
  <2> QED BY <1>5, <2>1, <2>2, <2>3
<1>6. CASE pc = "restore"
  <2>1. Remaining = 2 * committed - Half + 1
    BY <1>6, PhaseBounds
  <2>2. \A c \in Nat, h \in {0, 1} :
          (h = 1 => c > 0) => 2 * c - h + 1 \in Nat /\ 2 * c - h + 1 > 0
    OBVIOUS
  <2>3. committed \in Nat /\ Half \in {0, 1} /\ (Half = 1 => committed > 0)
    BY <1>6, CountFacts
  <2> QED BY <1>6, <2>1, <2>2, <2>3
<1> QED BY <1>1, <1>2, <1>3, <1>4, <1>5, <1>6 DEF TypeOK

(* A step of the command, or its death.                                      *)
LEMMA StepAdvances ==
    ASSUME TypeOK, Phases, Counts, Step \/ Crash, TypeOK', Counts'
    PROVE  Remaining' < Remaining
<1>1. pc # "idle" /\ Remaining \in Nat /\ Remaining > 0
  <2>1. pc # "idle"
    BY DEF Step, ListAgain, Parse, Reject, Accept, Prepare, Abort, Prepared, Stage, Replace,
           ReplaceFails, Succeed, Restore, RestoreFails, Restored, Crash
  <2> QED BY <2>1, RemainingIsNat
<1>2. ASSUME NEW code, Ends(code) PROVE Remaining' < Remaining
  <2>1. Remaining' = 0
    BY <1>2, PhaseBounds DEF Ends
  <2> QED BY <1>1, <2>1
<1>3. CASE ListAgain
  <2>1. pc = "list" /\ pc' = "parse" /\ results' = <<>> /\ again' \in Listings
    BY <1>3 DEF ListAgain, Counts
  <2>2. /\ Remaining = 6 * Cardinality(Files) + 5
        /\ Remaining' = 6 * Len(again') - Len(results') + 4
    BY <2>1, PhaseBounds
  <2>3. /\ Len(again') \in Nat /\ Cardinality(Files) \in Nat /\ Len(again') <= Cardinality(Files)
        /\ Len(results') = 0
    BY <2>1, ListingLength, EmptySeqs
  <2> QED BY <2>2, <2>3
<1>4. CASE Parse
  <2>1. /\ pc = "parse" /\ pc' = "parse" /\ again' = again
        /\ Len(results') = Len(results) + 1
    BY <1>4 DEF Parse, TypeOK
  <2>2. /\ Remaining = 6 * Len(again) - Len(results) + 4
        /\ Remaining' = 6 * Len(again') - Len(results') + 4
    BY <2>1, PhaseBounds
  <2> QED BY <2>1, <2>2, CountFacts
<1>5. CASE Accept
  <2>1. /\ pc = "parse" /\ pc' = "prepare" /\ Len(results) = Len(again)
        /\ next' = 1 /\ prepared' = <<>> /\ UNCHANGED <<listed, results>>
    BY <1>5 DEF Accept, planVars, workVars, Counts, Phases
  <2>2. Pairs' = Pairs /\ Len(prepared') = 0
    BY <2>1, EmptySeqs DEF Pairs
  <2>3. /\ Remaining = 6 * Len(again) - Len(results) + 4
        /\ Remaining' = 5 * (Pairs' + 1 - next') + 4 * Len(prepared') + 3
    BY <2>1, PhaseBounds
  <2> QED BY <2>1, <2>2, <2>3, CountFacts
<1>6. CASE Prepare
  <2>1. /\ pc = "prepare" /\ pc' = "prepare" /\ next' = next + 1
        /\ UNCHANGED <<listed, results>>
    BY <1>6 DEF Prepare, planVars
  <2>2. Pairs' = Pairs
    BY <2>1 DEF Pairs
  <2>3. Len(prepared') \in {Len(prepared), Len(prepared) + 1}
    <3>1. prepared \in Seq(Rewrites)
      BY DEF TypeOK
    <3>2. ASSUME NEW r, prepared' = Append(prepared, r) PROVE Len(prepared') = Len(prepared) + 1
      BY <3>1, <3>2
    <3> QED BY <1>6, <3>2 DEF Prepare
  <2>4. /\ Remaining = 5 * (Pairs + 1 - next) + 4 * Len(prepared) + 3
        /\ Remaining' = 5 * (Pairs' + 1 - next') + 4 * Len(prepared') + 3
    BY <2>1, PhaseBounds
  <2>5. \A a, b, l, m \in Nat :
          b <= a /\ b > 0 /\ m \in {l, l + 1}
            => 5 * (a + 1 - (b + 1)) + 4 * m + 3 < 5 * (a + 1 - b) + 4 * l + 3
    OBVIOUS
  <2>6. /\ Pairs \in Nat /\ next \in Nat /\ next > 0 /\ next <= Pairs
        /\ Len(prepared) \in Nat /\ Len(prepared') \in Nat
    BY <1>6, <2>3, CountFacts DEF Prepare
  <2> QED BY <2>1, <2>2, <2>3, <2>4, <2>5, <2>6
<1>7. CASE Prepared
  <2>1. /\ pc = "prepare" /\ pc' = "commit" /\ committed' = 0 /\ UNCHANGED <<prepared, staged>>
    BY <1>7 DEF Prepared, workVars, Phases
  <2>2. /\ Remaining = 5 * (Pairs + 1 - next) + 4 * Len(prepared) + 3
        /\ Remaining' = 4 * Len(prepared') - 2 * committed' - Half' + 2
    BY <2>1, PhaseBounds
  <2>3. /\ Half' \in {0, 1} /\ Len(prepared') = Len(prepared)
        /\ Len(prepared) \in Nat /\ Pairs \in Nat /\ next \in Nat /\ next <= Pairs + 1
    BY <2>1, CountFacts DEF Half, Counts
  <2>4. \A a, b, l \in Nat, h \in {0, 1} :
          b <= a + 1 => 4 * l - 2 * 0 - h + 2 < 5 * (a + 1 - b) + 4 * l + 3
    OBVIOUS
  <2> QED BY <2>1, <2>2, <2>3, <2>4
<1>8. CASE Stage
  <2>1. /\ pc \in {"commit", "restore"} /\ UNCHANGED <<pc, prepared, committed>>
        /\ Half = 0 /\ Half' = 1
    BY <1>8 DEF Stage, Half
  <2>2. CASE pc = "commit"
    <3>1. /\ Remaining = 4 * Len(prepared) - 2 * committed - Half + 2
          /\ Remaining' = 4 * Len(prepared') - 2 * committed' - Half' + 2
      BY <2>1, <2>2, PhaseBounds
    <3> QED BY <2>1, <3>1, CountFacts
  <2>3. CASE pc = "restore"
    <3>1. /\ Remaining = 2 * committed - Half + 1
          /\ Remaining' = 2 * committed' - Half' + 1
      BY <2>1, <2>3, PhaseBounds
    <3> QED BY <2>1, <3>1, CountFacts
  <2> QED BY <2>1, <2>2, <2>3
<1>9. CASE Replace
  <2>1. /\ pc = "commit" /\ pc' = "commit" /\ prepared' = prepared
        /\ committed' = committed + 1 /\ Half = 1 /\ Half' = 0
    BY <1>9 DEF Replace, Half
  <2>2. /\ Remaining = 4 * Len(prepared) - 2 * committed - 1 + 2
        /\ Remaining' = 4 * Len(prepared) - 2 * (committed + 1) - 0 + 2
    BY <2>1, PhaseBounds
  <2>3. \A l, c \in Nat : 4 * l - 2 * (c + 1) - 0 + 2 < 4 * l - 2 * c - 1 + 2
    OBVIOUS
  <2>4. Len(prepared) \in Nat /\ committed \in Nat
    BY CountFacts
  <2> QED BY <2>2, <2>3, <2>4
<1>10. CASE ReplaceFails
  <2>1. /\ pc = "commit" /\ pc' = "restore" /\ UNCHANGED <<prepared, committed>>
        /\ committed < Len(prepared) /\ Half' = 0
    BY <1>10 DEF ReplaceFails, Half
  <2>2. /\ Remaining = 4 * Len(prepared) - 2 * committed - Half + 2
        /\ Remaining' = 2 * committed' - Half' + 1
    BY <2>1, PhaseBounds
  <2> QED BY <2>1, <2>2, CountFacts
<1>11. CASE Restore \/ RestoreFails
  <2>1. /\ pc = "restore" /\ pc' = "restore"
        /\ committed' = committed - 1 /\ Half' = 0
    BY <1>11 DEF Restore, RestoreFails, Half
  <2>2. /\ Remaining = 2 * committed - Half + 1
        /\ Remaining' = 2 * committed' - Half' + 1
    BY <2>1, PhaseBounds
  <2> QED BY <2>1, <2>2, CountFacts
<1> QED BY <1>2, <1>3, <1>4, <1>5, <1>6, <1>7, <1>8, <1>9, <1>10, <1>11
        DEF Step, Reject, Abort, Succeed, Restored, Crash

(* However many files there are, and whatever fails or interferes, a rewrite *)
(* takes a bounded number of steps: none is taken that does not bring it     *)
(* nearer to its end.                                                        *)
THEOREM RewriteBoundHolds == Spec => RewriteIsBounded /\ [](Remaining \in Nat)
<1>1. Init => Counts
  BY DEF Init, Counts
<1>2. TypeOK /\ Counts /\ [Next]_vars => Counts'
  BY NextCounts
<1>3. TypeOK /\ Counts => Remaining \in Nat
  BY RemainingIsNat
<1>4. TypeOK /\ PlanInv /\ Counts /\ TypeOK' /\ Counts' /\ [Next]_vars
      => [IF edits' = edits THEN pc # "idle" => Remaining' < Remaining
                            ELSE Remaining' = Remaining]_vars
  <2> SUFFICES ASSUME TypeOK, PlanInv, Counts, TypeOK', Counts', Next
               PROVE  IF edits' = edits THEN pc # "idle" => Remaining' < Remaining
                                        ELSE Remaining' = Remaining
    OBVIOUS
  <2>1. CASE Edit
    <3>1. edits' # edits
      BY <2>1 DEF Edit, TypeOK
    <3>2. Remaining' = Remaining
      BY <2>1 DEF Edit, planVars, workVars, Remaining, Pairs
    <3> QED BY <3>1, <3>2
  <2>2. CASE Step \/ Crash
    <3>1. edits' = edits
      BY <2>2 DEF Step, ListAgain, Parse, Reject, Accept, Prepare, Abort, Prepared, Stage, Replace,
                  ReplaceFails, Succeed, Restore, RestoreFails, Restored, Crash, Ends
    <3> QED BY <2>2, <3>1, StepAdvances DEF PlanInv
  <2>3. CASE Start
    BY <2>3 DEF Start
  <2> QED BY <2>1, <2>2, <2>3 DEF Next
<1> QED BY <1>1, <1>2, <1>3, <1>4, RewriteTypeCorrect, PlanInvHolds, PTL DEF Spec, RewriteIsBounded
=============================================================================

------------------------------ MODULE YamlProofs ------------------------------
(***************************************************************************)
(* The parser and the scanner, for every text.                             *)
(*                                                                         *)
(* The stack of the parser: what it returns to is always one of its own    *)
(* methods, the end of the document lies at the bottom, and the            *)
(* collections that are open are the ones the stack and the current method *)
(* stand for.                                                              *)
(*                                                                         *)
(* The keys of the scanner: each one that is pending points at its token,  *)
(* the keys of the inner levels were made later than those of the outer    *)
(* ones, and the token that is handed out next has none any more.          *)
(***************************************************************************)
EXTENDS WorkflowParsers, FiniteSetTheorems, SequenceTheorems, WellFoundedInduction, TLAPS

(* ------------------------------ the invariant ---------------------------- *)
(* Methods between documents, and those that stand for an open collection.   *)
Between == {"stream start", "implicit document start", "document start", "directives",
            "document end", "document ended", "done"}
Counted == {"block sequence", "block mapping key", "block mapping value", "flow sequence",
            "flow sequence item", "flow pair key", "flow pair value", "flow pair end",
            "flow mapping item", "flow mapping key", "flow mapping value",
            "flow mapping empty value"}
Frames == Counted \cup {"indentless sequence"}
Within == Frames \cup {"document content", "node", "flow sequence first",
                       "flow mapping first", "block sequence first", "block mapping first"}

Frame == [f : Frames \cup {"document end"}]
Weigh(name) == IF name \in Counted THEN 1 ELSE 0
CountOf(s) == Cardinality({j \in DOMAIN s : s[j].f \in Counted})

Grounded(s) == /\ s \in Seq(Frame) /\ s # <<>>
               /\ \A j \in 1..Len(s) : (s[j].f = "document end") <=> (j = 1)
InDocument == Grounded(states)
Shape == \/ state.f \in Between /\ states = <<>>
         \/ state.f \in Within /\ InDocument
         \/ state.f = "item" /\ state.next \in Frames /\ InDocument
Stands == Weigh(IF state.f = "item" THEN state.next ELSE state.f)
Balanced == marks = CountOf(states) + Stands
StackInv == Shape /\ Balanced

(* --------------------------------- counting ------------------------------ *)
LEMMA CountEmpty == CountOf(<<>>) = 0
<1>1. {j \in DOMAIN <<>> : <<>>[j].f \in Counted} = {}
  OBVIOUS
<1> QED BY <1>1, FS_EmptySet DEF CountOf

LEMMA CountIsNatural ==
    ASSUME NEW s \in Seq(Frame)
    PROVE  CountOf(s) \in Nat
<1>1. IsFiniteSet(1..Len(s))
  BY LenProperties, FS_Interval
<1>2. {j \in DOMAIN s : s[j].f \in Counted} \subseteq 1..Len(s)
  OBVIOUS
<1> QED BY <1>1, <1>2, FS_Subset, FS_CardinalityType DEF CountOf

LEMMA CountAppend ==
    ASSUME NEW s \in Seq(Frame), NEW x \in Frame
    PROVE  /\ CountOf(s) \in Nat
           /\ CountOf(Append(s, x)) = CountOf(s) + Weigh(x.f)
<1> DEFINE S == {j \in DOMAIN s : s[j].f \in Counted}
           t == Append(s, x)
           T == {j \in DOMAIN t : t[j].f \in Counted}
<1>1. IsFiniteSet(1..Len(s))
  BY FS_Interval
<1>2. S \subseteq 1..Len(s)
  OBVIOUS
<1>3. IsFiniteSet(S) /\ Cardinality(S) \in Nat
  BY <1>1, <1>2, FS_Subset, FS_CardinalityType
<1>4. Len(s) + 1 \notin S
  OBVIOUS
<1>5. /\ \A j \in DOMAIN s : t[j] = s[j]
      /\ t[Len(s) + 1] = x /\ DOMAIN t = DOMAIN s \cup {Len(s) + 1}
  OBVIOUS
<1>6. Cardinality(T) = Cardinality(S) + Weigh(x.f)
  <2>1. CASE x.f \in Counted
    <3>1. T = S \cup {Len(s) + 1}
      BY <1>5, <2>1
    <3>2. Cardinality(T) = Cardinality(S) + 1
      BY <1>3, <1>4, <3>1, FS_AddElement
    <3> QED BY <2>1, <3>2 DEF Weigh
  <2>2. CASE x.f \notin Counted
    <3>1. T = S
      BY <1>4, <1>5, <2>2
    <3>2. Weigh(x.f) = 0
      BY <2>2 DEF Weigh
    <3> HIDE DEF S, T
    <3> QED BY <1>3, <3>1, <3>2
  <2> QED BY <2>1, <2>2
<1>7. CountOf(s) = Cardinality(S) /\ CountOf(t) = Cardinality(T)
  BY DEF CountOf
<1> HIDE DEF S, T, t
<1> QED BY <1>3, <1>6, <1>7 DEF t

LEMMA FrontFacts ==
    ASSUME NEW s \in Seq(Frame), s # <<>>
    PROVE  /\ Len(s) \in Nat \ {0}
           /\ Front(s) \in Seq(Frame) /\ Len(Front(s)) = Len(s) - 1
           /\ \A j \in 1..(Len(s) - 1) : Front(s)[j] = s[j]
           /\ Top(s) \in Frame
           /\ s = Append(Front(s), Top(s))
<1>1. Len(s) \in Nat \ {0} /\ \A j \in 1..Len(s) : s[j] \in Frame
  BY EmptySeq, ElementOfSeq
<1> DEFINE n == Len(s) - 1
           r == SubSeq(s, 1, n)
<1>2. n \in Nat /\ Len(s) = n + 1 /\ \A j \in 1..n : s[j] \in Frame
  BY <1>1
<1> HIDE DEF n
<1>3. /\ r \in Seq(Frame)
      /\ Len(r) = IF 1 <= n THEN n - 1 + 1 ELSE 0
      /\ \A j \in 1..n - 1 + 1 : r[j] = s[1 + j - 1]
  BY <1>2, SubSeqProperties
<1> HIDE DEF r
<1>4. Len(r) = n /\ \A j \in 1..n : r[j] = s[j]
  BY <1>2, <1>3
<1>5. Front(s) = r
  BY DEF Front, r, n
<1>6. Top(s) = s[n + 1] /\ Top(s) \in Frame
  BY <1>1, <1>2 DEF Top
<1> DEFINE t == Append(r, Top(s))
<1>7. /\ t \in Seq(Frame) /\ Len(t) = n + 1
      /\ \A j \in 1..n : t[j] = r[j]
      /\ t[n + 1] = Top(s)
  BY <1>2, <1>3, <1>4, <1>6, AppendProperties
<1> HIDE DEF t
<1>8. \A j \in 1..Len(s) : s[j] = t[j]
  BY <1>2, <1>4, <1>6, <1>7
<1>9. s = t
  BY <1>2, <1>7, <1>8, SeqEqual
<1> QED BY <1>1, <1>2, <1>3, <1>4, <1>5, <1>6, <1>9 DEF t, n

LEMMA CountFront ==
    ASSUME NEW s \in Seq(Frame), s # <<>>
    PROVE  /\ CountOf(Front(s)) \in Nat
           /\ CountOf(s) = CountOf(Front(s)) + Weigh(Top(s).f)
BY FrontFacts, CountAppend

LEMMA NotTheFirst ==
    ASSUME NEW n \in Nat \ {0}, NEW j \in 1..(n + 1)
    PROVE  j \in 1..n \/ (j = n + 1 /\ j # 1)
OBVIOUS

LEMMA GroundedAppend ==
    ASSUME NEW s \in Seq(Frame), Grounded(s), NEW x \in Frame, x.f # "document end"
    PROVE  Grounded(Append(s, x))
<1> DEFINE t == Append(s, x)
<1>1. Len(s) \in Nat \ {0} /\ \A j \in 1..Len(s) : (s[j].f = "document end") <=> (j = 1)
  BY EmptySeq DEF Grounded
<1>2. /\ t \in Seq(Frame) /\ t # <<>> /\ Len(t) = Len(s) + 1
      /\ \A j \in 1..Len(s) : t[j] = s[j]
      /\ t[Len(s) + 1] = x
  BY AppendProperties
<1> HIDE DEF t
<1>3. ASSUME NEW j \in 1..(Len(s) + 1)
      PROVE  (t[j].f = "document end") <=> (j = 1)
  <2>1. CASE j \in 1..Len(s)
    BY <1>1, <1>2, <2>1
  <2>2. CASE j = Len(s) + 1 /\ j # 1
    BY <1>2, <2>2
  <2> QED BY <1>1, <2>1, <2>2, NotTheFirst
<1>4. Grounded(t)
  BY <1>2, <1>3 DEF Grounded
<1> QED BY <1>4 DEF t

LEMMA GroundedFront ==
    ASSUME NEW s \in Seq(Frame), Grounded(s), Len(s) # 1
    PROVE  Grounded(Front(s))
<1> DEFINE n == Len(s)
           r == Front(s)
<1>1. s # <<>> /\ \A j \in 1..n : (s[j].f = "document end") <=> (j = 1)
  BY DEF Grounded
<1>2. /\ n \in Nat \ {0, 1}
      /\ r \in Seq(Frame) /\ Len(r) = n - 1
      /\ \A j \in 1..(n - 1) : r[j] = s[j]
  BY <1>1, FrontFacts
<1> HIDE DEF n, r
<1>3. ASSUME NEW j \in 1..(n - 1)
      PROVE  (r[j].f = "document end") <=> (j = 1)
  <2>1. j \in 1..n
    BY <1>2
  <2> QED BY <1>1, <1>2, <2>1
<1>4. r # <<>>
  BY <1>2, Len(<<>>) = 0
<1>5. Grounded(r)
  BY <1>2, <1>3, <1>4 DEF Grounded
<1> QED BY <1>5 DEF r

LEMMA Single ==
    ASSUME NEW S, NEW x \in S
    PROVE  /\ Append(<<>>, x) = <<x>>
           /\ <<x>> \in Seq(S) /\ <<x>> # <<>> /\ Len(<<x>>) = 1
           /\ \A j \in DOMAIN <<x>> : j = 1 /\ <<x>>[j] = x
OBVIOUS

LEMMA OnlyTheEnd ==
    ASSUME NEW x \in Frame, x.f = "document end"
    PROVE  Grounded(Append(<<>>, x)) /\ CountOf(Append(<<>>, x)) = 0
<1> DEFINE T == {j \in DOMAIN <<x>> : <<x>>[j].f \in Counted}
<1>1. x.f \notin Counted
  BY DEF Counted
<1>2. T = {}
  BY <1>1, Single
<1>3. CountOf(<<x>>) = 0
  BY <1>2, FS_EmptySet DEF CountOf
<1>4. ASSUME NEW j \in DOMAIN <<x>>
      PROVE  (<<x>>[j].f = "document end") <=> (j = 1)
  BY Single
<1>5. Grounded(<<x>>)
  <2>1. <<x>> \in Seq(Frame) /\ <<x>> # <<>>
    BY Single
  <2>2. 1..Len(<<x>>) = DOMAIN <<x>>
    BY <2>1, LenProperties
  <2> QED BY <1>4, <2>1, <2>2, Zenon DEF Grounded
<1> QED BY <1>3, <1>5, Single

(* ------------------------ going, calling, returning ---------------------- *)
(* Another method of the same weight takes over.                             *)
LEMMA GotoKeeps ==
    ASSUME StackInv, InDocument, UNCHANGED <<states, marks>>,
           \/ state'.f \in Within /\ Weigh(state'.f) = Stands
           \/ state'.f = "item" /\ state'.next \in Frames /\ Weigh(state'.next) = Stands
    PROVE  StackInv'
<1>1. InDocument'
  BY DEF InDocument, Grounded
<1>2. Shape'
  BY <1>1 DEF Shape
<1>3. Stands' = Stands
  BY DEF Stands, Within, Frames, Counted
<1> QED BY <1>2, <1>3 DEF StackInv, Balanced, CountOf

(* A node is parsed, and then the method that waits on the stack goes on.    *)
LEMMA CallKeeps ==
    ASSUME StackInv, InDocument, NEW back \in Frames, Weigh(back) = Stands,
           NEW node, Call(node, back), UNCHANGED marks
    PROVE  StackInv'
<1>1. Next_(back) \in Frame /\ Next_(back).f = back /\ back # "document end"
  BY DEF Next_, Frame, Frames, Counted
<1>2. states' = Append(states, Next_(back)) /\ state'.f = "node"
  BY DEF Call, Node
<1>3. states \in Seq(Frame) /\ Grounded(states)
  BY DEF InDocument, Grounded
<1>4. Grounded(Append(states, Next_(back)))
  BY <1>1, <1>3, GroundedAppend
<1>5. InDocument'
  BY <1>2, <1>4 DEF InDocument, Grounded
<1>6. CountOf(Append(states, Next_(back))) = CountOf(states) + Weigh(back)
      /\ CountOf(states) \in Nat
  BY <1>1, <1>3, CountAppend
<1>7. Stands' = 0 /\ Stands \in {0, 1}
  BY <1>2 DEF Stands, Weigh, Counted
<1>8. Shape'
  BY <1>2, <1>5 DEF Shape, Within
<1>9. Balanced'
  <2>1. marks' = CountOf(states) + Weigh(back)
    BY DEF StackInv, Balanced
  <2>2. CountOf(states)' = CountOf(states) + Weigh(back)
    BY <1>2, <1>6 DEF CountOf
  <2> QED BY <1>6, <1>7, <2>1, <2>2 DEF Balanced, Weigh
<1> QED BY <1>8, <1>9 DEF StackInv

(* The last method that was pushed takes over.                               *)
LEMMA ReturnKeeps ==
    ASSUME StackInv, InDocument, Return, marks' = marks - Stands
    PROVE  StackInv'
<1>1. states \in Seq(Frame) /\ Grounded(states) /\ states # <<>>
  BY DEF InDocument, Grounded
<1>2. /\ Len(states) \in Nat \ {0}
      /\ Front(states) \in Seq(Frame) /\ Len(Front(states)) = Len(states) - 1
      /\ Top(states) \in Frame
      /\ CountOf(Front(states)) \in Nat
      /\ CountOf(states) = CountOf(Front(states)) + Weigh(Top(states).f)
  BY <1>1, FrontFacts, CountFront
<1>3. state' = Top(states) /\ states' = Front(states)
  BY DEF Return
<1>4. state'.f \in Frames \cup {"document end"}
  BY <1>2, <1>3 DEF Frame
<1>5. (state'.f = "document end") <=> (Len(states) = 1)
  <2>1. Len(states) \in 1..Len(states) /\ state' = states[Len(states)]
    BY <1>2, <1>3 DEF Top
  <2> QED BY <1>1, <2>1 DEF Grounded
<1>6. Shape'
  <2>1. CASE Len(states) = 1
    <3>1. states' = <<>>
      BY <1>2, <1>3, <2>1, EmptySeq
    <3> QED BY <1>5, <2>1, <3>1 DEF Shape, Between
  <2>2. CASE Len(states) # 1
    <3>1. Grounded(Front(states))
      BY <1>1, <2>2, GroundedFront
    <3>2. InDocument'
      BY <1>3, <3>1 DEF InDocument, Grounded
    <3> QED BY <1>4, <1>5, <2>2, <3>2 DEF Shape, Within
  <2> QED BY <2>1, <2>2
<1>7. Stands' = Weigh(Top(states).f) /\ Stands \in {0, 1}
  BY <1>3, <1>4 DEF Stands, Frames, Counted, Weigh
<1>8. Balanced'
  BY <1>2, <1>3, <1>7 DEF StackInv, Balanced, CountOf, Weigh
<1> QED BY <1>6, <1>8 DEF StackInv

(* Between documents the stack stays empty.                                  *)
LEMMA BetweenKeeps ==
    ASSUME StackInv, state.f \in Between, state'.f \in Between, UNCHANGED <<states, marks>>
    PROVE  StackInv'
<1>1. states = <<>> /\ states' = <<>>
  BY DEF StackInv, Shape, Between, Within, Frames, Counted
<1>2. Shape'
  BY <1>1 DEF Shape
<1>3. Stands = 0 /\ Stands' = 0
  BY DEF Stands, Weigh, Between, Counted
<1> QED BY <1>2, <1>3 DEF StackInv, Balanced, CountOf

(* A document begins: its end is what lies at the bottom.                    *)
LEMMA BeginKeeps ==
    ASSUME StackInv, state.f \in Between, UNCHANGED marks,
           states' = Append(states, Next_("document end")),
           state'.f \in {"node", "document content"}
    PROVE  StackInv'
<1>1. states = <<>>
  BY DEF StackInv, Shape, Between, Within, Frames, Counted
<1>2. Next_("document end") \in Frame /\ Next_("document end").f = "document end"
  BY DEF Next_, Frame
<1>3. Grounded(states') /\ CountOf(states') = 0
  BY <1>1, <1>2, OnlyTheEnd
<1>4. Shape'
  BY <1>3 DEF Shape, Within, InDocument, Grounded
<1>5. Stands = 0 /\ Stands' = 0
  BY DEF Stands, Weigh, Between, Counted
<1>6. CountOf(states)' = 0
  BY <1>3 DEF CountOf
<1>7. CountOf(states) = 0
  BY <1>1, CountEmpty
<1>8. Balanced'
  BY <1>5, <1>6, <1>7 DEF StackInv, Balanced
<1> QED BY <1>4, <1>8 DEF StackInv

LEMMA SameKeeps ==
    ASSUME StackInv, UNCHANGED <<state, states, marks>>
    PROVE  StackInv'
BY DEF StackInv, Shape, Balanced, Stands, InDocument, Grounded, CountOf

(* What is known of the stack and of the marks inside a document.            *)
LEMMA InsideFacts ==
    ASSUME StackInv
    PROVE  /\ state.f \in Within \cup {"item"} => InDocument
           /\ state.f = "item" => state.next \in Frames
           /\ InDocument => marks \in Int
<1>1. state.f \in Within \cup {"item"} => InDocument
  BY DEF StackInv, Shape, Between, Within, Frames, Counted
<1>2. state.f = "item" => state.next \in Frames
  BY DEF StackInv, Shape, Between, Within, Frames, Counted
<1>3. InDocument => CountOf(states) \in Nat
  BY CountIsNatural DEF InDocument, Grounded
<1>4. Stands \in {0, 1}
  BY DEF Stands, Weigh
<1> QED BY <1>1, <1>2, <1>3, <1>4 DEF StackInv, Balanced

LEMMA LightKeeps ==
    ASSUME StackInv, Return, UNCHANGED marks, state.f \in Within, state.f \notin Counted
    PROVE  StackInv'
<1>1. Stands = 0
  BY DEF Stands, Weigh, Within, Frames
<1> QED BY <1>1, InsideFacts, ReturnKeeps

(* --------------------------------- the steps ----------------------------- *)
LEMMA NextIs == ASSUME NEW name PROVE Next_(name).f = name
BY DEF Next_

LEMMA DocumentSteps ==
    ASSUME StackInv,
           \/ ParseStreamStart \/ ParseImplicitDocumentStart \/ ParseDocumentStart
           \/ ParseDocumentContent \/ ParseDocumentEnd \/ ParseDocumentEnded
    PROVE  StackInv'
<1>1. CASE ParseStreamStart
  BY <1>1, BetweenKeeps DEF ParseStreamStart, Parses, Goto, Next_, Between
<1>2. CASE ParseImplicitDocumentStart
  <2>0. state.f \in Between
    BY <1>2 DEF ParseImplicitDocumentStart, Parses, Between
  <2>1. CASE Looks({"Directive", "DocumentStart", "StreamEnd"})
    <3>1. state' = Next_("document start") /\ UNCHANGED <<states, marks>>
      BY <1>2, <2>1 DEF ParseImplicitDocumentStart, Goto
    <3>2. state'.f \in Between
      BY <3>1, NextIs DEF Between
    <3> QED BY <2>0, <3>1, <3>2, BetweenKeeps
  <2>2. CASE ~Looks({"Directive", "DocumentStart", "StreamEnd"})
    <3>1. Call("block", "document end") /\ UNCHANGED marks
      BY <1>2, <2>2 DEF ParseImplicitDocumentStart
    <3>2. state'.f = "node" /\ states' = Append(states, Next_("document end"))
      BY <3>1 DEF Call, Node
    <3> QED BY <2>0, <3>1, <3>2, BeginKeeps
  <2> QED BY <2>1, <2>2
<1>3. CASE ParseDocumentStart
  <2>1. state.f \in Between
    BY <1>3 DEF ParseDocumentStart, Parses, Between
  <2>2. CASE UNCHANGED parser
    BY <2>2, SameKeeps DEF parser
  <2>3. CASE /\ state' \in {Next_("done"), Next_("directives")}
             /\ UNCHANGED <<states, marks>>
    <3>1. state'.f \in Between
      BY <2>3, NextIs DEF Between
    <3> QED BY <2>1, <2>3, <3>1, BetweenKeeps
  <2>4. CASE /\ state' = Next_("document content")
             /\ states' = Append(states, Next_("document end")) /\ UNCHANGED marks
    BY <2>1, <2>4, BeginKeeps DEF Next_
  <2> QED BY <1>3, <2>2, <2>3, <2>4 DEF ParseDocumentStart, Goto, RaiseHere
<1>4. CASE ParseDocumentContent
  <2>1. state.f = "document content" /\ state.f \in Within /\ state.f \notin Counted
    BY <1>4 DEF ParseDocumentContent, Parses, Within, Counted
  <2>2. CASE Return /\ UNCHANGED marks
    BY <2>1, <2>2, LightKeeps
  <2>3. CASE state' = Node("block") /\ UNCHANGED <<states, marks>>
    BY <2>1, <2>3, InsideFacts, GotoKeeps DEF Node, Within, Weigh, Stands, Counted
  <2> QED BY <1>4, <2>2, <2>3 DEF ParseDocumentContent, Goto
<1>5. CASE ParseDocumentEnd
  <2>1. state.f \in Between /\ UNCHANGED <<states, marks>>
    BY <1>5 DEF ParseDocumentEnd, Parses, Between
  <2>2. \/ \E ln : state' = [f |-> "document ended", ln |-> ln]
        \/ state' = Next_("document start")
    BY <1>5, Zenon DEF ParseDocumentEnd, Goto
  <2>3. state' = Next_("document start") => state'.f \in Between
    BY NextIs DEF Between
  <2>4. ASSUME NEW ln, state' = [f |-> "document ended", ln |-> ln] PROVE state'.f \in Between
    <3>1. [f |-> "document ended", ln |-> ln].f = "document ended"
      OBVIOUS
    <3> QED BY <2>4, <3>1, Zenon DEF Between
  <2>5. state'.f \in Between
    BY <2>2, <2>3, <2>4
  <2> QED BY <2>1, <2>5, BetweenKeeps
<1>6. CASE ParseDocumentEnded
  <2>1. CASE UNCHANGED parser
    BY <2>1, SameKeeps DEF parser
  <2>2. CASE /\ state.f = "document ended" /\ state' = Next_("implicit document start")
             /\ UNCHANGED <<states, marks>>
    BY <2>2, BetweenKeeps DEF Next_, Between
  <2> QED BY <1>6, <2>1, <2>2 DEF ParseDocumentEnded, Parses, Goto, RaiseHere
<1> QED BY <1>1, <1>2, <1>3, <1>4, <1>5, <1>6

LEMMA NodeSteps ==
    ASSUME StackInv,
           \/ ParseAlias \/ ParseProperty \/ ParseScalar \/ ParseCollection \/ ParseEmptyNode
    PROVE  StackInv'
<1>1. state.f = "node"
  BY DEF ParseAlias, ParseProperty, ParseScalar, ParseCollection, ParseEmptyNode, Parses
<1>2. state.f \in Within /\ state.f \notin Counted /\ Stands = 0 /\ InDocument
  BY <1>1, InsideFacts DEF Within, Counted, Stands, Weigh
<1>3. CASE UNCHANGED <<state, states, marks>>
  BY <1>3, SameKeeps
<1>4. CASE Return /\ UNCHANGED marks
  BY <1>2, <1>4, LightKeeps
<1>5. CASE ParseCollection
  <2>1. CASE state' = Next_("indentless sequence")
    BY <1>2, <1>5, <2>1, GotoKeeps
       DEF ParseCollection, Next_, Within, Frames, Weigh, Counted
  <2>2. CASE Looks(Begins) /\ state' = Next_(First[Head_.t].f)
    <3>1. Head_.t \in DOMAIN First
      BY <2>2 DEF Looks, Begins, First
    <3>2. First[Head_.t].f \in Within /\ First[Head_.t].f \notin Counted
      BY <3>1 DEF First, Within, Counted
    <3> QED BY <1>2, <1>5, <2>2, <3>2, GotoKeeps DEF ParseCollection, Next_, Weigh
  <2> QED BY <1>5, <2>1, <2>2 DEF ParseCollection, Goto
<1> QED BY <1>3, <1>4, <1>5
     DEF ParseAlias, ParseProperty, ParseScalar, ParseEmptyNode, RaiseHere, parser

LEMMA CollectionSteps ==
    ASSUME StackInv,
           \/ ParseFirst \/ ParseIndicator \/ ParseItem \/ ParseNothing \/ ParseComma
           \/ ParseFlowItem \/ ParsePairEnd \/ ParseEnd \/ ParseIndentlessEnd \/ ParseWrong
    PROVE  StackInv'
<1>1. CASE ParseFirst
  <2>1. /\ state.f \in Within /\ state.f \notin Counted /\ state.f # "item"
        /\ Entry[state.f] \in Counted
    BY <1>1 DEF ParseFirst, Entry, Within, Counted
  <2>2. InDocument /\ marks \in Int
    BY <2>1, InsideFacts
  <2>3. state'.f = Entry[state.f] /\ marks' = marks + 1 /\ UNCHANGED states
    BY <1>1 DEF ParseFirst, Goto, Next_
  <2>4. Stands = 0 /\ Stands' = 1
    BY <2>1, <2>3 DEF Stands, Weigh, Counted
  <2>5. Shape'
    BY <2>1, <2>2, <2>3 DEF Shape, Within, Frames, InDocument, Grounded
  <2>6. CountOf(states)' = CountOf(states) /\ CountOf(states) \in Nat
    BY <2>2, <2>3, CountIsNatural DEF CountOf, InDocument, Grounded
  <2>7. Balanced'
    BY <2>3, <2>4, <2>6 DEF StackInv, Balanced
  <2> QED BY <2>5, <2>7 DEF StackInv
<1>2. CASE ParseIndicator
  <2>1. /\ state.f \in Frames /\ state.f # "item"
        /\ Rules[state.f].item.f = "item"
        /\ Rules[state.f].item.next \in Frames
        /\ Weigh(Rules[state.f].item.next) = Weigh(state.f)
    BY <1>2 DEF ParseIndicator, Rules, Rule, Item, Frames, Counted, Weigh
  <2>2. InDocument /\ Stands = Weigh(state.f)
    BY <2>1, InsideFacts DEF Within, Stands
  <2>3. state' = Rules[state.f].item /\ UNCHANGED <<states, marks>>
    BY <1>2 DEF ParseIndicator, Goto
  <2> QED BY <2>1, <2>2, <2>3, GotoKeeps
<1>3. CASE ParseItem
  <2>1. state.f = "item" /\ state.next \in Frames /\ InDocument /\ Stands = Weigh(state.next)
    BY <1>3, InsideFacts DEF ParseItem, Parses, Stands
  <2>2. CASE state' = Next_(state.next) /\ UNCHANGED <<states, marks>>
    <3>1. state'.f \in Within /\ Weigh(state'.f) = Stands
      BY <2>1, <2>2 DEF Next_, Within
    <3> QED BY <2>1, <2>2, <3>1, GotoKeeps
  <2>3. CASE Call(state.node, state.next) /\ UNCHANGED marks
    BY <2>1, <2>3, CallKeeps
  <2> QED BY <1>3, <2>2, <2>3 DEF ParseItem, Goto
<1>4. CASE ParseNothing \/ ParseComma \/ ParsePairEnd
  <2>1. state.f \in Counted /\ state.f # "item"
    BY <1>4 DEF ParseNothing, ParseComma, ParsePairEnd, Parses, NextAfterNothing, Counted
  <2>2. PICK name \in Counted : state' = Next_(name) /\ UNCHANGED <<states, marks>>
    BY <1>4 DEF ParseNothing, ParseComma, ParsePairEnd, NextAfterNothing, Goto, Counted
  <2>3. InDocument /\ Stands = 1
    BY <2>1, InsideFacts DEF Within, Frames, Stands, Weigh
  <2>4. state'.f \in Within /\ Weigh(state'.f) = 1
    BY <2>2, NextIs DEF Within, Frames, Weigh
  <2> QED BY <2>2, <2>3, <2>4, GotoKeeps
<1>5. CASE ParseFlowItem
  <2>1. state.f \in Counted /\ state.f # "item"
    BY <1>5 DEF ParseFlowItem, Parses, Counted
  <2>2. InDocument /\ Stands = 1
    BY <2>1, InsideFacts DEF Within, Frames, Stands, Weigh
  <2>3. CASE state' = Next_("flow pair key") /\ UNCHANGED <<states, marks>>
    <3>1. state'.f \in Within /\ Weigh(state'.f) = 1
      BY <2>3 DEF Next_, Within, Frames, Counted, Weigh
    <3> QED BY <2>2, <2>3, <3>1, GotoKeeps
  <2>4. CASE /\ \E back \in {"flow sequence", "flow mapping empty value"} : Call("flow", back)
             /\ UNCHANGED marks
    <3>1. PICK back \in {"flow sequence", "flow mapping empty value"} : Call("flow", back)
      BY <2>4
    <3>2. back \in Frames /\ Weigh(back) = 1
      BY DEF Frames, Counted, Weigh
    <3> QED BY <2>2, <2>4, <3>1, <3>2, CallKeeps
  <2> QED BY <1>5, <2>3, <2>4 DEF ParseFlowItem, Goto
<1>6. CASE ParseEnd
  <2>1. state.f \in Counted /\ state.f # "item" /\ Return /\ marks' = marks - 1
    BY <1>6 DEF ParseEnd, Closer, Counted
  <2>2. InDocument /\ Stands = 1
    BY <2>1, InsideFacts DEF Within, Frames, Stands, Weigh
  <2> QED BY <2>1, <2>2, ReturnKeeps
<1>7. CASE ParseIndentlessEnd
  <2>1. state.f \in Within /\ state.f \notin Counted /\ Return /\ UNCHANGED marks
    BY <1>7 DEF ParseIndentlessEnd, Parses, Within, Frames, Counted
  <2> QED BY <2>1, LightKeeps
<1>8. CASE ParseWrong
  BY <1>8, SameKeeps DEF ParseWrong, RaiseHere, parser
<1> QED BY <1>1, <1>2, <1>3, <1>4, <1>5, <1>6, <1>7, <1>8

(* ------------------------------- the theorem ----------------------------- *)
LEMMA StackInit == Init => StackInv
<1> SUFFICES ASSUME Init PROVE StackInv
  OBVIOUS
<1>1. state = Next_("stream start") /\ states = <<>> /\ marks = 0
  BY DEF Init, StableInit, ParserInit
<1>2. state.f = "stream start"
  BY <1>1, NextIs
<1>3. Stands = 0
  BY <1>2 DEF Stands, Weigh, Counted
<1>4. Shape
  BY <1>1, <1>2 DEF Shape, Between
<1>5. CountOf(states) = 0
  BY <1>1, CountEmpty
<1>6. marks = 0
  BY <1>1
<1>7. Balanced
  BY <1>6, <1>3, <1>5, SMT DEF Balanced
<1> QED BY <1>4, <1>7 DEF StackInv

LEMMA StackNext == StackInv /\ [Next]_vars => StackInv'
<1> SUFFICES ASSUME StackInv, [Next]_vars PROVE StackInv'
  OBVIOUS
<1>1. CASE UNCHANGED <<state, states, marks>>
  BY <1>1, SameKeeps
<1>2. CASE ScanToken \/ Composing
  <2>1. UNCHANGED <<state, states, marks>>
    BY <1>2 DEF ScanToken, parser, Composing, BeginDocument, ComposeNode, ComposeAlias,
                UndefinedAlias, CloseNode, EndDocument, Takes
  <2> QED BY <1>1, <2>1
<1>3. CASE ParseEvent
  BY <1>3, DocumentSteps, NodeSteps, CollectionSteps DEF ParseEvent, Parsing
<1>4. CASE ReadLine \/ UNCHANGED vars
  BY <1>1, <1>4 DEF ReadLine, vars, stable, parser
<1> QED BY <1>2, <1>3, <1>4 DEF Next, Load, Loading

LEMMA StackSuffices == StackInv => NothingLeftOpen
<1> SUFFICES ASSUME StackInv, state.f = "done" PROVE states = <<>> /\ marks = 0
  BY DEF NothingLeftOpen
<1>1. states = <<>>
  BY DEF StackInv, Shape, Within, Frames, Counted
<1>2. Stands = 0
  BY DEF Stands, Weigh, Counted
<1> QED BY <1>1, <1>2, CountEmpty DEF StackInv, Balanced

(* The assertions of parse_document_start hold for every text: when the      *)
(* stream has ended nothing is left to return to, and every collection that  *)
(* was opened is closed.                                                     *)
THEOREM StackIsClosed == Spec => []NothingLeftOpen
<1>1. Spec => []StackInv
  BY StackInit, StackNext, PTL DEF Spec
<1>2. StackInv => NothingLeftOpen
  BY StackSuffices
<1> QED BY <1>1, <1>2, PTL

(* ----------------------------- pending keys ------------------------------ *)

(* ------------------------------- sequences ------------------------------- *)
IsSeq(s) == \E S : s \in Seq(S)

LEMMA SeqFacts ==
    ASSUME NEW s, IsSeq(s)
    PROVE  /\ Len(s) \in Nat /\ DOMAIN s = 1..Len(s)
           /\ s = <<>> <=> Len(s) = 0
<1>1. PICK S : s \in Seq(S)
  BY DEF IsSeq
<1> QED BY <1>1

(* What was there stays where it was.                                        *)
Grows(s, t) == /\ IsSeq(t) /\ Len(t) >= Len(s)
               /\ \A j \in 1..Len(s) : t[j] = s[j]

LEMMA AppendGrows ==
    ASSUME NEW s, IsSeq(s), NEW e
    PROVE  /\ Grows(s, Append(s, e)) /\ Len(Append(s, e)) = Len(s) + 1
           /\ Append(s, e)[Len(s) + 1] = e
<1>1. PICK S : s \in Seq(S)
  BY DEF IsSeq
<1>2. s \in Seq(S \cup {e}) /\ e \in S \cup {e}
  BY <1>1, SeqMonotonic
<1>3. Append(s, e) \in Seq(S \cup {e})
  BY <1>2, AppendProperties
<1>4. Len(s) \in Nat
  BY <1>1
<1> QED BY <1>2, <1>3, <1>4, AppendProperties DEF Grows, IsSeq

LEMMA RepeatGrows ==
    ASSUME NEW s, IsSeq(s), NEW n \in Nat, NEW e
    PROVE  /\ Grows(s, s \o [j \in 1..n |-> e])
           /\ Len(s \o [j \in 1..n |-> e]) = Len(s) + n
<1> DEFINE r == [j \in 1..n |-> e]
<1>1. PICK S : s \in Seq(S)
  BY DEF IsSeq
<1>2. s \in Seq(S \cup {e})
  BY <1>1, SeqMonotonic
<1>3. r \in Seq(S \cup {e}) /\ Len(r) = n
  <2>1. r \in [1..n -> S \cup {e}]
    OBVIOUS
  <2> QED BY <2>1, SeqDef
<1>4. Len(s) \in Nat
  BY <1>1
<1> HIDE DEF r
<1>5. /\ s \o r \in Seq(S \cup {e}) /\ Len(s \o r) = Len(s) + n
      /\ \A j \in 1..(Len(s) + n) : (s \o r)[j] = IF j <= Len(s) THEN s[j] ELSE r[j - Len(s)]
  BY <1>2, <1>3, ConcatProperties
<1>6. \A j \in 1..Len(s) : j \in 1..(Len(s) + n) /\ j <= Len(s)
  BY <1>4
<1> QED BY <1>4, <1>5, <1>6 DEF Grows, IsSeq, r

LEMMA GrowsOn ==
    ASSUME NEW s, NEW t, NEW u, IsSeq(s), Grows(s, t), Grows(t, u)
    PROVE  Grows(s, u)
<1>1. Len(s) \in Nat /\ Len(t) \in Nat /\ Len(u) \in Nat
  BY SeqFacts DEF Grows
<1> QED BY <1>1 DEF Grows

LEMMA InsertFacts ==
    ASSUME NEW s, IsSeq(s), NEW p \in 1..Len(s), NEW e
    PROVE  /\ IsSeq(InsertAt(s, p, e)) /\ Len(InsertAt(s, p, e)) = Len(s) + 1
           /\ \A j \in 1..(p - 1) : InsertAt(s, p, e)[j] = s[j]
<1>1. PICK S : s \in Seq(S)
  BY DEF IsSeq
<1> DEFINE T == S \cup {e}
           a == SubSeq(s, 1, p - 1)
           b == SubSeq(s, p, Len(s))
<1>2. s \in Seq(T) /\ Len(s) \in Nat /\ \A j \in 1..Len(s) : s[j] \in T
  BY <1>1, SeqMonotonic
<1>3. a \in Seq(T) /\ Len(a) = p - 1 /\ \A j \in 1..(p - 1) : a[j] = s[j]
  BY <1>2, SubSeqProperties
<1>4. b \in Seq(T) /\ Len(b) = Len(s) - p + 1
  BY <1>2, SubSeqProperties
<1>5. <<e>> \in Seq(T) /\ Len(<<e>>) = 1
  OBVIOUS
<1> DEFINE c == a \o <<e>>
<1> HIDE DEF T, a, b
<1>6. c \in Seq(T) /\ Len(c) = p /\ \A j \in 1..(p - 1) : c[j] = a[j]
  BY <1>2, <1>3, <1>5, ConcatProperties
<1> HIDE DEF c
<1>7. /\ c \o b \in Seq(T) /\ Len(c \o b) = Len(c) + Len(b)
      /\ \A j \in 1..(Len(c) + Len(b)) : (c \o b)[j] = IF j <= Len(c) THEN c[j] ELSE b[j - Len(c)]
  BY <1>4, <1>6, ConcatProperties
<1>8. p \in Nat /\ Len(c) + Len(b) = Len(s) + 1
  BY <1>2, <1>4, <1>6
<1>9. ASSUME NEW j \in 1..(p - 1) PROVE (c \o b)[j] = s[j]
  <2>1. j \in 1..(Len(c) + Len(b)) /\ j <= Len(c)
    BY <1>2, <1>6, <1>8
  <2> QED BY <1>3, <1>6, <1>7, <2>1
<1>10. InsertAt(s, p, e) = c \o b
  BY DEF InsertAt, a, b, c
<1> QED BY <1>7, <1>8, <1>9, <1>10 DEF IsSeq

LEMMA RemoveFacts ==
    ASSUME NEW s, IsSeq(s), NEW p \in 1..Len(s)
    PROVE  /\ IsSeq(RemoveAt(s, p)) /\ Len(RemoveAt(s, p)) = Len(s) - 1
           /\ \A j \in 1..(p - 1) : RemoveAt(s, p)[j] = s[j]
           /\ \A j \in p..(Len(s) - 1) : RemoveAt(s, p)[j] = s[j + 1]
<1>1. PICK S : s \in Seq(S)
  BY DEF IsSeq
<1> DEFINE a == SubSeq(s, 1, p - 1)
           b == SubSeq(s, p + 1, Len(s))
<1>2. Len(s) \in Nat /\ \A j \in 1..Len(s) : s[j] \in S
  BY <1>1
<1>3. a \in Seq(S) /\ Len(a) = p - 1 /\ \A j \in 1..(p - 1) : a[j] = s[j]
  BY <1>2, SubSeqProperties
<1>4. b \in Seq(S) /\ Len(b) = Len(s) - p /\ \A j \in 1..(Len(s) - p) : b[j] = s[p + j]
  BY <1>2, SubSeqProperties
<1> HIDE DEF a, b
<1>5. /\ a \o b \in Seq(S) /\ Len(a \o b) = Len(s) - 1
      /\ \A j \in 1..(Len(s) - 1) : (a \o b)[j] = IF j <= p - 1 THEN a[j] ELSE b[j - (p - 1)]
  <2>1. /\ a \o b \in Seq(S) /\ Len(a \o b) = Len(a) + Len(b)
        /\ \A j \in 1..(Len(a) + Len(b)) :
              (a \o b)[j] = IF j <= Len(a) THEN a[j] ELSE b[j - Len(a)]
    BY <1>3, <1>4, ConcatProperties
  <2>2. Len(a) + Len(b) = Len(s) - 1
    BY <1>2, <1>3, <1>4
  <2> QED BY <1>3, <2>1, <2>2
<1>6. \A j \in 1..(p - 1) : (a \o b)[j] = s[j]
  BY <1>2, <1>3, <1>5
<1>7. ASSUME NEW j \in p..(Len(s) - 1) PROVE (a \o b)[j] = s[j + 1]
  <2>1. j \in 1..(Len(s) - 1) /\ ~(j <= p - 1) /\ j - (p - 1) \in 1..(Len(s) - p)
    BY <1>2
  <2>2. p + (j - (p - 1)) = j + 1
    BY <1>2
  <2> QED BY <1>4, <1>5, <2>1, <2>2
<1>8. RemoveAt(s, p) = a \o b
  BY DEF RemoveAt, a, b
<1> QED BY <1>5, <1>6, <1>7, <1>8 DEF IsSeq

LEMMA TailFacts ==
    ASSUME NEW s, IsSeq(s), s # <<>>
    PROVE  /\ IsSeq(Tail(s)) /\ Len(Tail(s)) = Len(s) - 1
           /\ \A j \in 1..(Len(s) - 1) : Tail(s)[j] = s[j + 1]
<1>1. PICK S : s \in Seq(S)
  BY DEF IsSeq
<1> QED BY <1>1, HeadTailProperties DEF IsSeq

(* A set of numbers that is not empty has a least one.                       *)
LEMMA LeastOf ==
    ASSUME NEW T \in SUBSET Nat, T # {}
    PROVE  \E x \in T : \A y \in T : x <= y
<1>1. \E x \in T : \A y \in T : ~ (<<y, x>> \in OpToRel(<, Nat))
  BY NatLessThanWellFounded, WFMin
<1>2. PICK x \in T : \A y \in T : ~ (<<y, x>> \in OpToRel(<, Nat))
  BY <1>1
<1>3. ASSUME NEW y \in T PROVE x <= y
  <2>1. ~ (y < x)
    BY <1>2 DEF OpToRel
  <2> QED BY <2>1
<1> QED BY <1>3


(* -------------------------------- the text ------------------------------- *)
(* What stands somewhere from p on has a first place.                        *)
LEMMA FirstIn ==
    ASSUME NEW p \in Nat, NEW n \in Nat, NEW T \in SUBSET (p..n), T # {}
    PROVE  \E q \in p..n : q \in T /\ \A r \in p..(q - 1) : r \notin T
<1>1. T \in SUBSET Nat
  OBVIOUS
<1>2. PICK q \in T : \A r \in T : q <= r
  BY <1>1, LeastOf
<1>3. \A r \in p..(q - 1) : r \in Nat /\ ~(q <= r)
  BY <1>1
<1> QED BY <1>2, <1>3

LEMMA TextFacts ==
    ASSUME IsText(text), NEW p \in DOMAIN text, text[p].k # "end"
    PROVE  /\ p \in Nat \ {0} /\ Len(text) \in Nat /\ p < Len(text)
           /\ p + 1 \in DOMAIN text /\ text[p].ln <= text[p + 1].ln
           /\ Len(text) \in DOMAIN text /\ text[Len(text)].k = "end"
           /\ text[p].ln < text[Len(text)].ln
           /\ \A q \in DOMAIN text : q \in Nat /\ text[q].ln \in Nat
<1>1. /\ p \in Nat \ {0} /\ Len(text) \in Nat /\ p < Len(text)
      /\ p + 1 \in DOMAIN text /\ Len(text) \in DOMAIN text
  BY DEF IsText
<1>2. p <= p + 1 /\ p # Len(text)
  BY <1>1
<1> QED BY <1>1, <1>2 DEF IsText

(* The end of the text is on a line of its own, so there is a next line.     *)
LEMMA NextLineFacts ==
    ASSUME IsText(text), NEW p \in DOMAIN text, text[p].k # "end"
    PROVE  /\ NextLine(p) \in DOMAIN text /\ NextLine(p) \in p..Len(text)
           /\ text[p].ln < text[NextLine(p)].ln
<1> DEFINE T == {q \in p..Len(text) : text[q].ln > text[p].ln}
<1>1. T \in SUBSET (p..Len(text)) /\ Len(text) \in T
  BY TextFacts
<1>2. \E q \in p..Len(text) : q \in T /\ \A r \in p..(q - 1) : r \notin T
  <2> HIDE DEF T
  <2> QED BY <1>1, TextFacts, FirstIn
<1>3. PICK q \in p..Len(text) : text[q].ln > text[p].ln /\ \A r \in p..(q - 1) : r \notin T
  BY <1>2
<1>4. \A r \in p..(q - 1) : text[r].ln = text[p].ln
  <2> SUFFICES ASSUME NEW r \in p..(q - 1) PROVE text[r].ln = text[p].ln
    OBVIOUS
  <2>1. r \in p..Len(text) /\ r \in DOMAIN text /\ p <= r
    BY TextFacts DEF IsText
  <2>2. ~(text[r].ln > text[p].ln) /\ text[p].ln <= text[r].ln
    BY <1>3, <2>1 DEF IsText
  <2> QED BY <2>1, <2>2, TextFacts
<1>5. NextLine(p) \in p..Len(text) /\ text[NextLine(p)].ln > text[p].ln
  BY <1>3, <1>4 DEF NextLine
<1>6. NextLine(p) \in DOMAIN text
  BY <1>5, TextFacts DEF IsText
<1> QED BY <1>5, <1>6, TextFacts

(* A plain scalar ends in the text.                                          *)
LEMMA PlainFacts ==
    ASSUME IsText(text), pos \in DOMAIN text, Here.k # "end"
    PROVE  FirstOf(pos + 1, PlainStops) \in (pos + 1)..Len(text)
<1> DEFINE T == {q \in (pos + 1)..Len(text) : PlainStops(q)}
<1>1. /\ pos + 1 \in Nat /\ Len(text) \in Nat
      /\ T \in SUBSET ((pos + 1)..Len(text)) /\ Len(text) \in T
  <2>1. PlainStops(Len(text))
    BY TextFacts DEF PlainStops, Here
  <2>2. pos \in Nat /\ Len(text) \in Nat /\ pos < Len(text)
    BY TextFacts DEF Here
  <2> HIDE DEF PlainStops
  <2> QED BY <2>1, <2>2
<1>2. \E q \in (pos + 1)..Len(text) : q \in T /\ \A r \in (pos + 1)..(q - 1) : r \notin T
  <2> HIDE DEF T
  <2> QED BY <1>1, FirstIn
<1>3. PICK q \in (pos + 1)..Len(text) : PlainStops(q) /\ \A r \in (pos + 1)..(q - 1) : r \notin T
  BY <1>2
<1>4. \A r \in (pos + 1)..(q - 1) : r \in (pos + 1)..Len(text)
  BY <1>1
<1>5. \A r \in (pos + 1)..(q - 1) : ~PlainStops(r)
  BY <1>3, <1>4
<1> QED BY <1>3, <1>5 DEF FirstOf

(* So does a quoted one, or the text ends before it.                         *)
LEMMA QuoteFacts ==
    ASSUME IsText(text), pos \in DOMAIN text, Here.k # "end"
    PROVE  FirstOf(pos + 1, Unquotes) \in (pos + 1)..Len(text)
<1> DEFINE T == {q \in (pos + 1)..Len(text) : Unquotes(q)}
<1>1. /\ pos + 1 \in Nat /\ Len(text) \in Nat
      /\ T \in SUBSET ((pos + 1)..Len(text)) /\ Len(text) \in T
  BY TextFacts DEF Unquotes, Here
<1>2. \E q \in (pos + 1)..Len(text) : q \in T /\ \A r \in (pos + 1)..(q - 1) : r \notin T
  <2> HIDE DEF T
  <2> QED BY <1>1, FirstIn
<1>3. PICK q \in (pos + 1)..Len(text) : Unquotes(q) /\ \A r \in (pos + 1)..(q - 1) : r \notin T
  BY <1>2
<1>4. \A r \in (pos + 1)..(q - 1) : r \in (pos + 1)..Len(text)
  BY <1>1
<1>5. \A r \in (pos + 1)..(q - 1) : ~Unquotes(r)
  BY <1>3, <1>4
<1> QED BY <1>3, <1>5 DEF FirstOf

(* A block scalar is over before the text is.                                *)
LEMMA BodyFacts ==
    ASSUME IsText(text), pos \in DOMAIN text, Here.k # "end"
    PROVE  Body.next \in DOMAIN text /\ Here.ln <= text[Body.next].ln
<1> DEFINE first == NextLine(pos)
           Ends_(q) == \/ text[q].k = "end"
                       \/ (q = first \/ NewLine(q)) /\ text[q].col < Depth(first)
                       \/ q > first /\ Least = 0 /\ Marker(q)
           last == FirstOf(first, Ends_)
           Solid(q) == text[q].k # "#" /\ (q = last \/ NewLine(q))
           n == Len(text)
           next_ == IF text[last].ln > text[last - 1].ln + 1 THEN FirstOf(last, Solid) ELSE last
<1>0. Body.next = next_
  BY DEF Body
<1>1. /\ n \in Nat /\ n \in DOMAIN text /\ text[n].k = "end" /\ DOMAIN text = 1..n
      /\ pos \in Nat \ {0} /\ pos < n
      /\ \A q \in DOMAIN text : text[q].ln \in Nat
  BY TextFacts DEF IsText, Here
<1>2. first \in pos..n /\ first \in Nat /\ Here.ln < text[first].ln
  BY <1>1, NextLineFacts DEF Here
<1>3. last \in first..n
  <2> DEFINE T == {q \in first..n : Ends_(q)}
  <2>1. T \in SUBSET (first..n) /\ n \in T
    BY <1>1, <1>2
  <2>2. \E q \in first..n : q \in T /\ \A r \in first..(q - 1) : r \notin T
    <3>1. T # {} /\ first \in Nat /\ n \in Nat
      BY <1>1, <1>2, <2>1
    <3> HIDE DEF T, first, n
    <3> QED BY <2>1, <3>1, FirstIn
  <2>3. PICK q \in first..n : Ends_(q) /\ \A r \in first..(q - 1) : r \notin T
    BY <2>2
  <2>4. \A r \in first..(q - 1) : r \in first..n
    BY <1>1, <1>2
  <2>5. \A r \in first..(q - 1) : ~Ends_(r)
    BY <2>3, <2>4
  <2> HIDE DEF Ends_, first, T
  <2> QED BY <2>3, <2>5 DEF FirstOf
<1>4. last \in Nat /\ last \in DOMAIN text
  BY <1>1, <1>2, <1>3
<1>5. FirstOf(last, Solid) \in last..n
  <2> DEFINE T == {q \in last..n : Solid(q)}
  <2>1. n # last => NewLine(n)
    <3> SUFFICES ASSUME n # last PROVE NewLine(n)
      OBVIOUS
    <3>1. n - 1 \in DOMAIN text /\ n - 1 # n
      <4> HIDE DEF n
      <4> QED BY <1>1
    <3> HIDE DEF last
    <3> QED BY <3>1 DEF NewLine, IsText
  <2>2. T \in SUBSET (last..n) /\ n \in T
    <3>1. n \in last..n
      BY <1>1, <1>3, <1>4
    <3> QED BY <1>1, <2>1, <3>1
  <2>3. \E q \in last..n : q \in T /\ \A r \in last..(q - 1) : r \notin T
    <3> HIDE DEF T, last
    <3> QED BY <1>1, <1>4, <2>2, FirstIn
  <2>4. PICK q \in last..n : Solid(q) /\ \A r \in last..(q - 1) : r \notin T
    BY <2>3
  <2>5. \A r \in last..(q - 1) : r \in last..n
    <3> HIDE DEF last
    <3> QED BY <1>1, <1>4
  <2>6. \A r \in last..(q - 1) : ~Solid(r)
    BY <2>4, <2>5
  <2> HIDE DEF Solid, last, T
  <2> QED BY <2>4, <2>6 DEF FirstOf
<1>6. next_ \in last..n
  <2> HIDE DEF last, Solid
  <2> QED BY <1>1, <1>3, <1>4, <1>5
<1> HIDE DEF first, last, next_, Solid
<1>7. next_ \in DOMAIN text /\ first \in DOMAIN text /\ first <= next_
  BY <1>1, <1>2, <1>3, <1>4, <1>6
<1>8. text[first].ln <= text[next_].ln
  BY <1>7 DEF IsText
<1>9. text[first].ln \in Nat /\ text[next_].ln \in Nat /\ Here.ln \in Nat
  BY <1>1, <1>7 DEF Here
<1> QED BY <1>0, <1>2, <1>7, <1>8, <1>9

(* --------------------------- blocks that are closed ---------------------- *)
LEMMA KeptFacts ==
    ASSUME IsSeq(indents), NEW col
    PROVE  Closed(col) \in Nat /\ IsSeq(Kept(col))
<1> DEFINE D == {j \in DOMAIN indents : indents[j] > col}
           n == Len(indents)
<1>1. n \in Nat /\ DOMAIN indents = 1..n
  BY SeqFacts
<1>2. IsFiniteSet(1..n) /\ Cardinality(1..n) = n
  <2> HIDE DEF n
  <2>1. n \in Int /\ 1 \in Int /\ (1 > n => n = 0)
    BY <1>1
  <2> QED BY <1>1, <2>1, FS_Interval
<1>3. D \in SUBSET (1..n)
  BY <1>1
<1>4. Cardinality(D) \in Nat /\ Cardinality(D) <= n
  <2> HIDE DEF D
  <2> QED BY <1>2, <1>3, FS_Subset, FS_CardinalityType
<1>5. Closed(col) \in 0..n
  <2>1. CASE InBlock
    <3>1. Closed(col) = Cardinality(D)
      BY <2>1 DEF Closed
    <3> HIDE DEF D
    <3> QED BY <1>1, <1>4, <3>1
  <2>2. CASE ~InBlock
    BY <1>1, <2>2 DEF Closed
  <2> QED BY <2>1, <2>2
<1>6. IsSeq(Kept(col))
  <2>1. PICK S : indents \in Seq(S)
    BY DEF IsSeq
  <2> DEFINE c == n - Closed(col)
  <2>2. c \in Int /\ \A i \in 1..c : i \in 1..n
    BY <1>1, <1>5
  <2>3. \A i \in 1..n : indents[i] \in S
    BY <2>1
  <2>4. \A i \in 1..c : indents[i] \in S
    BY <2>2, <2>3
  <2>5. SubSeq(indents, 1, c) \in Seq(S)
    <3> HIDE DEF c
    <3> QED BY <2>2, <2>4, SubSeqProperties
  <2> QED BY <2>5 DEF IsSeq, Kept
<1>7. Closed(col) \in Nat
  BY <1>5
<1> QED BY <1>6, <1>7

LEMMA UnwoundFacts ==
    ASSUME IsSeq(indents), IsSeq(toks), NEW col
    PROVE  IsSeq(Kept(col)) /\ Grows(toks, Unwound(col))
<1> DEFINE e == Token("BlockEnd", pos)
           k == Closed(col)
<1>1. k \in Nat /\ IsSeq(Kept(col))
  BY KeptFacts
<1>2. Unwound(col) = toks \o [j \in 1..k |-> e]
  BY DEF Unwound
<1> HIDE DEF e, k
<1> QED BY <1>1, <1>2, RepeatGrows

LEMMA OpeningFacts ==
    ASSUME IsSeq(indents), IsSeq(toks)
    PROVE  /\ IsSeq(Ind) /\ Grows(toks, Base)
           /\ \A col : IsSeq(Indented(col))
           /\ \A t : Grows(toks, Opening(t))
<1>1. IsSeq(Ind) /\ Grows(toks, Base)
  BY UnwoundFacts DEF Ind, Base
<1>2. ASSUME NEW col PROVE IsSeq(Indented(col))
  BY <1>1, AppendGrows DEF Indented, Grows
<1>3. ASSUME NEW t PROVE Grows(toks, Opening(t))
  <2> DEFINE e == Token(t, pos)
  <2>1. IsSeq(Base)
    BY <1>1 DEF Grows
  <2>2. Grows(Base, Append(Base, e))
    BY <2>1, AppendGrows
  <2>3. Grows(toks, Append(Base, e))
    BY <1>1, <2>2, GrowsOn
  <2> HIDE DEF e
  <2> QED BY <1>1, <2>3 DEF Opening, e
<1> QED BY <1>1, <1>2, <1>3

(* ------------------------------ the invariant ---------------------------- *)
LiveKeys == DOMAIN Live(line, pos)
Place(l) == keys[l].num - taken + 1
KeyTyped ==
    \A l \in DOMAIN keys : /\ l \in 0..Level /\ keys[l].num \in Nat
                           /\ keys[l].at \in Nat /\ keys[l].ln \in Nat /\ keys[l].ln <= line
Pointed ==
    \A l \in LiveKeys : /\ Place(l) \in 1..Len(toks) /\ toks[Place(l)].at = keys[l].at
                        /\ toks[Place(l)].t \notin {"Comment", "BlockEnd"}
Ordered == \A l, m \in LiveKeys : l < m => keys[l].num < keys[m].num
Passed == phase \in {"post", "posted", "refetch", "ready"} =>
             toks # <<>> /\ \A l \in LiveKeys : keys[l].num > taken
Reader == /\ text \in Texts /\ pos \in DOMAIN text /\ line \in Nat /\ line <= Here.ln
          /\ taken \in Nat /\ flow \in Seq({"[", "{"}) /\ IsSeq(indents)
Pending == IsSeq(toks) /\ KeyTyped /\ Pointed /\ Ordered /\ Passed
KeyInv == phase # "raised" =>
             /\ Reader
             /\ done => keys = <<>> /\ Here.k = "end"
             /\ ~done => Pending

LEMMA LiveFacts ==
    /\ LiveKeys \subseteq DOMAIN keys
    /\ \A l \in LiveKeys : keys[l].ln = line
    /\ \A ln, p : /\ DOMAIN Live(ln, p) \subseteq DOMAIN keys
                  /\ \A l \in DOMAIN Live(ln, p) : Live(ln, p)[l] = keys[l]
BY DEF LiveKeys, Live, Stale

(* A key that is still live where the next token begins is live here.        *)
LEMMA KsFacts ==
    ASSUME Reader, KeyTyped
    PROVE  /\ DOMAIN Ks \subseteq LiveKeys
           /\ \A l \in DOMAIN Ks : Ks[l] = keys[l] /\ keys[l].ln = line /\ l \in 0..Level
<1>1. Here.ln \in Nat
  <2>1. IsText(text)
    BY TextsAssumption DEF Reader
  <2> QED BY <2>1 DEF IsText, Reader, Here
<1>2. ASSUME NEW l \in DOMAIN Ks
      PROVE  l \in LiveKeys /\ Ks[l] = keys[l] /\ keys[l].ln = line /\ l \in 0..Level
  <2>1. l \in DOMAIN keys /\ ~Stale(keys[l], Here.ln, pos) /\ Ks[l] = keys[l]
    BY DEF Ks, Live
  <2>2. keys[l].ln = Here.ln /\ keys[l].ln <= line /\ line <= Here.ln
    BY <2>1 DEF Stale, KeyTyped, Reader
  <2>3. line \in Nat
    BY DEF Reader
  <2>4. line = Here.ln
    BY <1>1, <2>2, <2>3
  <2>5. l \in LiveKeys /\ l \in 0..Level
    BY <2>1, <2>4 DEF LiveKeys, Live, KeyTyped
  <2> QED BY <2>1, <2>2, <2>4, <2>5
<1> QED BY <1>2

LEMMA HereFacts ==
    ASSUME Reader
    PROVE  /\ IsText(text) /\ Here.ln \in Nat /\ pos \in Nat \ {0}
           /\ Level \in Nat /\ (InBlock <=> Level = 0)
<1>1. IsText(text)
  BY TextsAssumption DEF Reader
<1>2. pos \in DOMAIN text
  BY DEF Reader
<1>3. Here.ln \in Nat /\ pos \in Nat \ {0}
  BY <1>1, <1>2 DEF IsText, Here
<1>4. flow \in Seq({"[", "{"})
  BY DEF Reader
<1>5. Level \in Nat /\ (InBlock <=> Level = 0)
  <2>1. IsSeq(flow)
    BY <1>4 DEF IsSeq
  <2> QED BY <2>1, SeqFacts DEF Level, InBlock
<1> QED BY <1>1, <1>3, <1>5

(* A token is fetched: every key that is pending afterwards was pending      *)
(* before, and its token has not moved, or is the one that begins here.      *)
OldKey(l) == l \in DOMAIN Ks /\ keys'[l] = Ks[l] /\ toks'[Place(l)] = toks[Place(l)]
NewKey(l) == /\ l = Level /\ keys'[l] = KeyHere /\ Len(toks') > Len(Base)
             /\ toks'[Len(Base) + 1].at = pos
             /\ toks'[Len(Base) + 1].t \notin {"Comment", "BlockEnd"}

Fetched ==
    /\ text' = text /\ taken' = taken /\ flow' \in Seq({"[", "{"}) /\ IsSeq(indents')
    /\ phase' = Returns /\ ~done'
    /\ pos' \in DOMAIN text /\ line' \in Nat /\ Here.ln <= line' /\ line' <= text[pos'].ln
    /\ IsSeq(toks') /\ Len(toks') >= Len(toks)
    /\ \A l \in DOMAIN keys' : l \in 0..Level' /\ (OldKey(l) \/ NewKey(l))

LEMMA ScanKeeps ==
    ASSUME Reader, Pending, Calls, ~done, Fetched
    PROVE  KeyInv'
<1> USE DEF Pending
<1>0. /\ taken' = taken /\ phase' = Returns /\ line' \in Nat /\ Here.ln <= line'
      /\ IsSeq(toks') /\ Len(toks') >= Len(toks)
      /\ \A l \in DOMAIN keys' : l \in 0..Level' /\ (OldKey(l) \/ NewKey(l))
  BY DEF Fetched
<1>1. /\ Here.ln \in Nat /\ pos \in Nat /\ taken \in Nat /\ line \in Nat /\ Level \in Nat
      /\ line <= Here.ln
  BY HereFacts DEF Reader
<1>2. /\ Len(toks) \in Nat /\ Len(toks') \in Nat /\ Len(Base) \in Nat
      /\ Len(Base) >= Len(toks)
  BY <1>0, OpeningFacts, SeqFacts DEF Reader, Grows
<1>3. ASSUME NEW l \in DOMAIN keys', OldKey(l)
      PROVE  /\ l \in LiveKeys /\ keys'[l] = keys[l] /\ Place(l)' = Place(l) /\ l \in 0..Level
             /\ keys[l].num \in Nat /\ keys[l].at \in Nat /\ keys[l].ln \in Nat
             /\ keys[l].ln <= line /\ Place(l) \in 1..Len(toks)
             /\ keys[l].num < taken + Len(toks)
  <2>1. l \in LiveKeys /\ keys'[l] = keys[l] /\ l \in DOMAIN keys
    BY <1>3, KsFacts, LiveFacts DEF OldKey
  <2>2. Place(l)' = Place(l)
    BY <1>0, <2>1 DEF Place
  <2>3. /\ keys[l].num \in Nat /\ keys[l].at \in Nat /\ keys[l].ln \in Nat
        /\ keys[l].ln <= line /\ l \in 0..Level
    BY <2>1 DEF KeyTyped
  <2>4. Place(l) \in 1..Len(toks)
    BY <2>1 DEF Pointed
  <2>5. keys[l].num < taken + Len(toks)
    BY <1>1, <1>2, <2>3, <2>4 DEF Place
  <2> QED BY <2>1, <2>2, <2>3, <2>4, <2>5
<1>4. ASSUME NEW l \in DOMAIN keys', NewKey(l)
      PROVE  /\ l = Level /\ keys'[l].num = taken + Len(Base) /\ keys'[l].at = pos
             /\ keys'[l].ln = Here.ln /\ Place(l)' = Len(Base) + 1
             /\ Place(l)' \in 1..Len(toks')
  <2>1. /\ l = Level /\ keys'[l].num = taken + Len(Base) /\ keys'[l].at = pos
        /\ keys'[l].ln = Here.ln
    BY <1>4 DEF NewKey, KeyHere
  <2>2. Place(l)' = Len(Base) + 1
    BY <1>0, <1>1, <1>2, <2>1 DEF Place
  <2>3. Len(toks') > Len(Base)
    BY <1>4 DEF NewKey
  <2> QED BY <1>2, <2>1, <2>2, <2>3
<1>5. LiveKeys' \subseteq DOMAIN keys'
  BY DEF LiveKeys, Live
<1>6. KeyTyped'
  <2> SUFFICES ASSUME NEW l \in DOMAIN keys'
               PROVE  /\ l \in 0..Level' /\ keys'[l].num \in Nat /\ keys'[l].at \in Nat
                      /\ keys'[l].ln \in Nat /\ keys'[l].ln <= line'
    BY DEF KeyTyped
  <2>1. CASE OldKey(l)
    BY <1>0, <1>1, <1>3, <2>1
  <2>2. CASE NewKey(l)
    BY <1>0, <1>1, <1>2, <1>4, <2>2
  <2> QED BY <1>0, <2>1, <2>2
<1>7. Pointed'
  <2> SUFFICES ASSUME NEW l \in LiveKeys'
               PROVE  /\ Place(l)' \in 1..Len(toks') /\ toks'[Place(l)'].at = keys'[l].at
                      /\ toks'[Place(l)'].t \notin {"Comment", "BlockEnd"}
    BY DEF Pointed
  <2>0. l \in DOMAIN keys'
    BY <1>5
  <2>1. CASE OldKey(l)
    <3>1. toks[Place(l)].at = keys[l].at /\ toks[Place(l)].t \notin {"Comment", "BlockEnd"}
      BY <1>3, <2>0, <2>1 DEF Pointed
    <3>2. Place(l)' = Place(l) /\ toks'[Place(l)] = toks[Place(l)] /\ keys'[l] = keys[l]
      BY <1>3, <2>0, <2>1 DEF OldKey
    <3>3. Place(l) \in 1..Len(toks')
      BY <1>0, <1>2, <1>3, <2>0, <2>1
    <3> QED BY <3>1, <3>2, <3>3
  <2>2. CASE NewKey(l)
    BY <1>4, <2>0, <2>2 DEF NewKey
  <2> QED BY <1>0, <2>0, <2>1, <2>2
<1>8. Ordered'
  <2> SUFFICES ASSUME NEW l \in LiveKeys', NEW m \in LiveKeys', l < m
               PROVE  keys'[l].num < keys'[m].num
    BY DEF Ordered
  <2>0. l \in DOMAIN keys' /\ m \in DOMAIN keys'
    BY <1>5
  <2>1. CASE OldKey(l) /\ OldKey(m)
    BY <1>3, <2>0, <2>1 DEF Ordered
  <2>2. CASE OldKey(l) /\ NewKey(m)
    BY <1>1, <1>2, <1>3, <1>4, <2>0, <2>2
  <2>3. CASE NewKey(l)
    <3>1. l = Level /\ m \in 0..Level
      <4>1. l = Level /\ (OldKey(m) \/ NewKey(m))
        BY <1>0, <1>4, <2>0, <2>3
      <4>2. m \in 0..Level
        BY <1>1, <1>3, <1>4, <2>0, <4>1
      <4> QED BY <4>1, <4>2
    <3> QED BY <1>1, <3>1
  <2> QED BY <1>0, <2>0, <2>1, <2>2, <2>3
<1>9. Passed'
  <2> SUFFICES ASSUME phase' \in {"post", "posted", "refetch", "ready"}
               PROVE  toks' # <<>> /\ \A l \in LiveKeys' : keys'[l].num > taken'
    BY DEF Passed
  <2>1. phase = "refetch"
    BY <1>0 DEF Returns, Calls
  <2>2. toks # <<>> /\ \A l \in LiveKeys : keys[l].num > taken
    BY <2>1 DEF Passed
  <2>3. Len(toks) > 0
    BY <1>2, <2>2, SeqFacts
  <2>4. toks' # <<>>
    BY <1>0, <1>2, <2>3, SeqFacts
  <2>5. ASSUME NEW l \in LiveKeys' PROVE keys'[l].num > taken
    <3>0. l \in DOMAIN keys'
      BY <1>5
    <3>1. CASE OldKey(l)
      BY <1>3, <2>2, <3>0, <3>1
    <3>2. CASE NewKey(l)
      BY <1>1, <1>2, <1>4, <2>3, <3>0, <3>2
    <3> QED BY <1>0, <3>0, <3>1, <3>2
  <2> QED BY <1>0, <2>4, <2>5
<1>10. Reader'
  BY <1>0, <1>1 DEF Reader, Here, Fetched
<1>11. ~done'
  BY DEF Fetched
<1> QED BY <1>0, <1>6, <1>7, <1>8, <1>9, <1>10, <1>11 DEF KeyInv

(* The keys that stay are some of those there were, and the tokens grow.     *)
LEMMA DropKeeps ==
    ASSUME Reader, Pending, Calls, ~done, ~done', flow' \in Seq({"[", "{"}),
           NEW t, Grows(toks, t), NEW e, NEW ind, IsSeq(ind),
           NEW p \in DOMAIN text, NEW ln \in Nat, Here.ln <= ln, ln <= text[p].ln,
           NEW ks, \A l \in DOMAIN ks : l \in DOMAIN Ks /\ ks[l] = Ks[l] /\ l \in 0..Level',
           NEW bad, NEW ok, Scan(bad, Append(t, e), ind, ks, ok, p, ln)
    PROVE  KeyInv'
<1>1. CASE phase' = "raised"
  BY <1>1 DEF KeyInv
<1>2. CASE phase' # "raised"
  <2>1. /\ toks' = Append(t, e) /\ indents' = ind /\ keys' = ks /\ pos' = p /\ line' = ln
        /\ phase' = Returns /\ text' = text /\ taken' = taken
    BY <1>2 DEF Scan, Raise
  <2>2. IsSeq(toks) /\ IsSeq(t) /\ Len(toks) \in Nat /\ Len(t) \in Nat /\ Len(t) >= Len(toks)
    BY SeqFacts DEF Pending, Grows
  <2>3. Grows(toks, Append(t, e)) /\ Len(Append(t, e)) = Len(t) + 1
    BY <2>2, AppendGrows, GrowsOn
  <2>4. ASSUME NEW l \in DOMAIN ks PROVE OldKey(l)
    <3>1. l \in DOMAIN Ks /\ ks[l] = Ks[l] /\ l \in LiveKeys
      BY KsFacts DEF Pending
    <3>2. Place(l) \in 1..Len(toks)
      BY <3>1 DEF Pending, Pointed
    <3>3. toks'[Place(l)] = toks[Place(l)]
      BY <2>1, <2>3, <3>2 DEF Grows
    <3> QED BY <2>1, <3>1, <3>3 DEF OldKey
  <2>5. IsSeq(toks') /\ Len(toks') >= Len(toks)
    BY <2>1, <2>3 DEF Grows
  <2>6. Fetched
    BY <2>1, <2>4, <2>5 DEF Fetched
  <2> QED BY <2>6, ScanKeeps
<1> QED BY <1>1, <1>2

LEMMA UpTo ==
    ASSUME NEW n \in Nat, NEW m \in Nat, n <= m, NEW l \in 0..n
    PROVE  l \in 0..m
OBVIOUS

LEMMA OneLess ==
    ASSUME NEW n \in Nat \ {0}
    PROVE  n - 1 \in Nat /\ \A j \in 1..(n - 1) : j \in 1..n
OBVIOUS

LEMMA ItsOwnBound ==
    ASSUME NEW n \in Nat
    PROVE  n \in 0..n /\ n <= n /\ n < n + 1
OBVIOUS

(* The token that is fetched may begin a key.                                *)
LEMMA SaveKeeps ==
    ASSUME Reader, Pending, Calls, ~done, ~done', flow' \in Seq({"[", "{"}), Level <= Level',
           NEW e, e.at = pos, e.t \notin {"Comment", "BlockEnd"},
           NEW p \in DOMAIN text, NEW ln \in Nat, Here.ln <= ln, ln <= text[p].ln,
           NEW bad, NEW ok, Scan(bad, Append(Base, e), Ind, Saved, ok, p, ln)
    PROVE  KeyInv'
<1>1. CASE phase' = "raised"
  BY <1>1 DEF KeyInv
<1>2. CASE phase' # "raised"
  <2>1. /\ toks' = Append(Base, e) /\ indents' = Ind /\ keys' = Saved /\ pos' = p /\ line' = ln
        /\ phase' = Returns /\ text' = text /\ taken' = taken
    BY <1>2 DEF Scan, Raise
  <2>2. /\ IsSeq(toks) /\ IsSeq(Base) /\ Len(toks) \in Nat /\ Len(Base) \in Nat
        /\ Len(Base) >= Len(toks) /\ Grows(toks, Base) /\ IsSeq(Ind)
    BY OpeningFacts, SeqFacts DEF Pending, Reader, Grows
  <2>3. /\ Grows(toks, Append(Base, e)) /\ Len(Append(Base, e)) = Len(Base) + 1
        /\ Append(Base, e)[Len(Base) + 1] = e
    BY <2>2, AppendGrows, GrowsOn
  <2>4. Level \in Nat /\ Level' \in Nat
    <3>1. IsSeq(flow')
      BY DEF IsSeq
    <3> QED BY <3>1, HereFacts, SeqFacts DEF Level
  <2>5. ASSUME NEW l \in DOMAIN Ks, Saved[l] = Ks[l] PROVE OldKey(l) /\ l \in 0..Level'
    <3>1. l \in LiveKeys /\ l \in 0..Level
      BY KsFacts DEF Pending
    <3>2. Place(l) \in 1..Len(toks)
      BY <3>1 DEF Pending, Pointed
    <3>3. toks'[Place(l)] = toks[Place(l)]
      BY <2>1, <2>3, <3>2 DEF Grows
    <3>4. l \in 0..Level'
      BY <2>4, <3>1, UpTo
    <3> QED BY <2>1, <2>5, <3>3, <3>4 DEF OldKey
  <2>6. ASSUME Saved[Level] = KeyHere PROVE NewKey(Level) /\ Level \in 0..Level'
    <3>0. Level \in 0..Level /\ Len(Base) < Len(Base) + 1
      BY <2>2, <2>4, ItsOwnBound
    <3>1. Len(toks') > Len(Base) /\ toks'[Len(Base) + 1] = e /\ Level \in 0..Level'
      BY <2>1, <2>2, <2>3, <2>4, <3>0, UpTo
    <3> QED BY <2>1, <2>6, <3>1 DEF NewKey
  <2>7. ASSUME NEW l \in DOMAIN Saved
        PROVE  l \in 0..Level' /\ (OldKey(l) \/ NewKey(l))
    <3>1. \/ l \in DOMAIN Ks /\ Saved[l] = Ks[l]
          \/ l = Level /\ Saved[l] = KeyHere
      BY DEF Saved
    <3> QED BY <2>5, <2>6, <3>1
  <2>8. IsSeq(toks') /\ Len(toks') >= Len(toks)
    BY <2>1, <2>3 DEF Grows
  <2>9. Fetched
    BY <2>1, <2>2, <2>7, <2>8 DEF Fetched
  <2> QED BY <2>9, ScanKeeps
<1> QED BY <1>1, <1>2

LEMMA FetchFacts ==
    ASSUME KeyInv, NEW kinds, "end" \notin kinds, Fetches(kinds)
    PROVE  /\ Reader /\ Pending /\ Calls /\ ~done /\ ~CommentAhead
           /\ IsText(text) /\ pos \in DOMAIN text /\ pos + 1 \in DOMAIN text
           /\ Here.k # "end" /\ Here.ln \in Nat /\ Here.ln <= Here.ln
           /\ Here.ln <= text[pos + 1].ln
<1>1. phase # "raised" /\ Calls /\ ~CommentAhead /\ Here.k # "end"
  BY DEF Fetches, Calls
<1>2. Reader /\ ~done /\ Pending
  BY <1>1 DEF KeyInv
<1>3. IsText(text) /\ Here.ln \in Nat /\ pos \in DOMAIN text
  BY <1>2, HereFacts DEF Reader
<1>4. pos + 1 \in DOMAIN text /\ Here.ln <= text[pos + 1].ln
  BY <1>1, <1>3, TextFacts DEF Here
<1>5. Here.ln <= Here.ln
  BY <1>3
<1> QED BY <1>1, <1>2, <1>3, <1>4, <1>5

LEMMA SameFlow ==
    ASSUME Reader, Pending, UNCHANGED flow
    PROVE  /\ flow' \in Seq({"[", "{"}) /\ Level' = Level /\ Level <= Level'
           /\ \A l \in DOMAIN Ks : l \in 0..Level'
           /\ \A l \in DOMAIN Without : l \in DOMAIN Ks /\ Without[l] = Ks[l] /\ l \in 0..Level'
<1>1. flow' \in Seq({"[", "{"}) /\ Level' = Level
  BY DEF Reader, Level
<1>2. Level <= Level'
  BY <1>1, HereFacts, ItsOwnBound
<1>3. \A l \in DOMAIN Ks : l \in 0..Level'
  BY <1>1, KsFacts DEF Pending
<1>4. \A l \in DOMAIN Without : l \in DOMAIN Ks /\ Without[l] = Ks[l]
  BY DEF Without
<1> QED BY <1>1, <1>2, <1>3, <1>4

LEMMA NothingPending ==
    ASSUME KeyInv, \/ FetchDirective \/ FetchDocumentIndicator \/ FetchFlowEntry
                   \/ FetchBlockEntry \/ FetchKey \/ FetchValue
    PROVE  KeyInv'
<1>0. "end" \notin {"%"} \cup {"---", "..."} \cup {","} \cup {"-"} \cup {"?"} \cup {":"}
  OBVIOUS
<1>1. CASE FetchDirective
  <2>1. Fetches({"%"}) /\ UNCHANGED flow /\ UNCHANGED done
    BY <1>1 DEF FetchDirective
  <2>2. /\ Reader /\ Pending /\ Calls /\ ~done /\ IsText(text) /\ pos \in DOMAIN text
        /\ Here.k # "end" /\ Here.ln \in Nat
    BY <2>1, FetchFacts
  <2>3. NextLine(pos) \in DOMAIN text /\ Here.ln < text[NextLine(pos)].ln
    BY <2>2, NextLineFacts DEF Here
  <2>4. text[NextLine(pos)].ln \in Nat
    BY <2>2, <2>3 DEF IsText
  <2>5. /\ Here.ln + 1 \in Nat /\ Here.ln <= Here.ln + 1
        /\ Here.ln + 1 <= text[NextLine(pos)].ln
    BY <2>2, <2>3, <2>4
  <2>6. IsSeq(Kept(-1)) /\ Grows(toks, Unwound(-1))
    BY <2>2, UnwoundFacts DEF Reader, Pending
  <2>7. Scan(Required, Append(Unwound(-1), Directive.token), Kept(-1), Without,
             FALSE, NextLine(pos), Here.ln + 1)
    BY <1>1 DEF FetchDirective, Directive
  <2> QED BY <2>1, <2>2, <2>3, <2>5, <2>6, <2>7, SameFlow, DropKeeps
<1>2. CASE FetchDocumentIndicator
  <2>1. Fetches({"---", "..."}) /\ UNCHANGED flow /\ UNCHANGED done
    BY <1>2 DEF FetchDocumentIndicator
  <2>2. /\ Reader /\ Pending /\ Calls /\ ~done /\ pos + 1 \in DOMAIN text
        /\ Here.ln \in Nat /\ Here.ln <= Here.ln /\ Here.ln <= text[pos + 1].ln
    BY <2>1, FetchFacts
  <2>3. IsSeq(Kept(-1)) /\ Grows(toks, Unwound(-1))
    BY <2>2, UnwoundFacts DEF Reader, Pending
  <2>4. PICK e : Scan(Required, Append(Unwound(-1), e), Kept(-1), Without,
                      FALSE, pos + 1, Here.ln)
    BY <1>2 DEF FetchDocumentIndicator
  <2> QED BY <2>1, <2>2, <2>3, <2>4, SameFlow, DropKeeps
<1>3. CASE FetchFlowEntry
  <2>1. Fetches({","}) /\ UNCHANGED flow /\ UNCHANGED done
    BY <1>3 DEF FetchFlowEntry
  <2>2. /\ Reader /\ Pending /\ Calls /\ ~done /\ pos + 1 \in DOMAIN text
        /\ Here.ln \in Nat /\ Here.ln <= Here.ln /\ Here.ln <= text[pos + 1].ln
    BY <2>1, FetchFacts
  <2>3. IsSeq(Ind) /\ Grows(toks, Base)
    BY <2>2, OpeningFacts DEF Reader, Pending
  <2>4. PICK e : Scan(Required, Append(Base, e), Ind, Without, TRUE, pos + 1, Here.ln)
    BY <1>3 DEF FetchFlowEntry
  <2> QED BY <2>1, <2>2, <2>3, <2>4, SameFlow, DropKeeps
<1>4. CASE FetchBlockEntry \/ FetchKey
  <2>1. (Fetches({"-"}) \/ Fetches({"?"})) /\ UNCHANGED flow /\ UNCHANGED done
    BY <1>4 DEF FetchBlockEntry, FetchKey
  <2>2. /\ Reader /\ Pending /\ Calls /\ ~done /\ pos + 1 \in DOMAIN text
        /\ Here.ln \in Nat /\ Here.ln <= Here.ln /\ Here.ln <= text[pos + 1].ln
    BY <2>1, FetchFacts
  <2>3. IsSeq(Indented(Here.col)) /\ \A t : Grows(toks, Opening(t))
    BY <2>2, OpeningFacts DEF Reader, Pending
  <2>4. PICK bad, t, e, ok :
           Scan(bad, Append(Opening(t), e), Indented(Here.col), Without, ok, pos + 1, Here.ln)
    BY <1>4 DEF FetchBlockEntry, FetchKey
  <2> QED BY <2>1, <2>2, <2>3, <2>4, SameFlow, DropKeeps
<1>5. CASE FetchValue
  <2>1. Fetches({":"}) /\ UNCHANGED flow /\ UNCHANGED done
    BY <1>5 DEF FetchValue
  <2>2. /\ Reader /\ Pending /\ Calls /\ ~done /\ pos + 1 \in DOMAIN text
        /\ Here.ln \in Nat /\ Here.ln <= Here.ln /\ Here.ln <= text[pos + 1].ln
    BY <2>1, FetchFacts
  <2>3. IsSeq(Indented(Here.col)) /\ \A t : Grows(toks, Opening(t))
    BY <2>2, OpeningFacts DEF Reader, Pending
  <2>4. PICK bad, t, e, ok :
           Scan(bad, Append(Opening(t), e), Indented(Here.col), Ks, ok, pos + 1, Here.ln)
    BY <1>5 DEF FetchValue
  <2> QED BY <2>1, <2>2, <2>3, <2>4, SameFlow, DropKeeps
<1> QED BY <1>1, <1>2, <1>3, <1>4, <1>5

LEMMA BlockScalarKeeps ==
    ASSUME KeyInv, FetchBlockScalar
    PROVE  KeyInv'
<1>1. Fetches({"|", ">"}) /\ UNCHANGED flow /\ UNCHANGED done /\ "end" \notin {"|", ">"}
  BY DEF FetchBlockScalar
<1>2. /\ Reader /\ Pending /\ Calls /\ ~done /\ IsText(text) /\ pos \in DOMAIN text
      /\ Here.k # "end"
  BY <1>1, FetchFacts
<1>3. IsSeq(Ind) /\ Grows(toks, Base)
  BY <1>2, OpeningFacts DEF Reader, Pending
<1>4. Body.next \in DOMAIN text /\ Here.ln <= text[Body.next].ln
  BY <1>2, BodyFacts
<1>5. text[Body.next].ln \in Nat /\ text[Body.next].ln <= text[Body.next].ln
  BY <1>2, <1>4 DEF IsText
<1>6. PICK bad, e :
         Scan(bad, Append(Base, e), Ind, Without, TRUE, Body.next, text[Body.next].ln)
  BY DEF FetchBlockScalar
<1> QED BY <1>1, <1>2, <1>3, <1>4, <1>5, <1>6, SameFlow, DropKeeps

(* A bracket that closes takes the key of its level with it.                 *)
LEMMA FlowEndKeeps ==
    ASSUME KeyInv, FetchFlowEnd
    PROVE  KeyInv'
<1>1. /\ Fetches({"]", "}"}) /\ UNCHANGED done /\ "end" \notin {"]", "}"}
      /\ flow' = IF InBlock THEN flow ELSE Front(flow)
  BY DEF FetchFlowEnd
<1>2. /\ Reader /\ Pending /\ Calls /\ ~done /\ pos + 1 \in DOMAIN text
      /\ Here.ln \in Nat /\ Here.ln <= Here.ln /\ Here.ln <= text[pos + 1].ln
  BY <1>1, FetchFacts
<1>3. IsSeq(Ind) /\ Grows(toks, Base)
  BY <1>2, OpeningFacts DEF Reader, Pending
<1>4. PICK e : Scan(Required, Append(Base, e), Ind, Without, FALSE, pos + 1, Here.ln)
  BY DEF FetchFlowEnd
<1>5. CASE InBlock
  BY <1>1, <1>2, <1>3, <1>4, <1>5, SameFlow, DropKeeps
<1>6. CASE ~InBlock
  <2>1. flow \in Seq({"[", "{"}) /\ flow # <<>>
    BY <1>2, <1>6 DEF Reader, InBlock
  <2>2. flow' \in Seq({"[", "{"}) /\ Level' = Level - 1
    <3> DEFINE B == {"[", "{"}
               n == Len(flow) - 1
    <3>1. n \in Nat /\ \A j \in 1..n : flow[j] \in B
      <4>1. Len(flow) \in Nat \ {0} /\ \A j \in 1..Len(flow) : flow[j] \in B
        BY <2>1, EmptySeq, ElementOfSeq
      <4>2. n \in Nat /\ \A j \in 1..n : j \in 1..Len(flow)
        BY <4>1, OneLess
      <4> QED BY <4>1, <4>2
    <3> HIDE DEF B, n
    <3>2. SubSeq(flow, 1, n) \in Seq(B) /\ Len(SubSeq(flow, 1, n)) = n
      BY <3>1, SubSeqProperties
    <3>3. flow' = SubSeq(flow, 1, n)
      BY <1>1, <1>6 DEF Front, n
    <3> QED BY <3>2, <3>3 DEF Level, B, n
  <2>3. ASSUME NEW l \in DOMAIN Without
        PROVE  l \in DOMAIN Ks /\ Without[l] = Ks[l] /\ l \in 0..Level'
    <3>1. l \in DOMAIN Ks /\ Without[l] = Ks[l] /\ l # Level
      BY DEF Without
    <3>2. l \in 0..Level /\ Level \in Nat
      BY <1>2, <3>1, KsFacts, HereFacts DEF Pending
    <3>3. l \in 0..(Level - 1)
      BY <3>1, <3>2
    <3> QED BY <2>2, <3>1, <3>3
  <2> QED BY <1>1, <1>2, <1>3, <1>4, <2>2, <2>3, DropKeeps
<1> QED BY <1>5, <1>6

LEMMA FlowStartKeeps ==
    ASSUME KeyInv, FetchFlowStart
    PROVE  KeyInv'
<1>1. /\ Fetches({"[", "{"}) /\ UNCHANGED done /\ "end" \notin {"[", "{"}
      /\ flow' = Append(flow, Here.k) /\ Here.k \in {"[", "{"}
  BY DEF FetchFlowStart, Fetches
<1>2. /\ Reader /\ Pending /\ Calls /\ ~done /\ pos + 1 \in DOMAIN text
      /\ Here.ln \in Nat /\ Here.ln <= Here.ln /\ Here.ln <= text[pos + 1].ln
  BY <1>1, FetchFacts
<1>3. flow' \in Seq({"[", "{"}) /\ Level' = Level + 1
  <2>1. flow \in Seq({"[", "{"})
    BY <1>2 DEF Reader
  <2> QED BY <1>1, <2>1, AppendProperties DEF Level
<1>4. Level <= Level'
  <2>1. Level \in Nat /\ \A n \in Nat : n <= n + 1
    BY <1>2, HereFacts
  <2> QED BY <1>3, <2>1
<1> DEFINE e == Token(IF Here.k = "[" THEN "FlowSequenceStart" ELSE "FlowMappingStart", pos)
<1>5. e.at = pos /\ e.t \notin {"Comment", "BlockEnd"}
  BY DEF Token
<1>6. Scan(Unsavable, Append(Base, e), Ind, Saved, TRUE, pos + 1, Here.ln)
  BY DEF FetchFlowStart
<1> HIDE DEF e
<1> QED BY <1>1, <1>2, <1>3, <1>4, <1>5, <1>6, SaveKeeps

LEMMA SigilKeeps ==
    ASSUME KeyInv, FetchSigil
    PROVE  KeyInv'
<1>1. Fetches({"*", "&", "!"}) /\ UNCHANGED flow /\ UNCHANGED done /\ "end" \notin {"*", "&", "!"}
  BY DEF FetchSigil, Sigils
<1>2. /\ Reader /\ Pending /\ Calls /\ ~done /\ pos + 1 \in DOMAIN text
      /\ Here.ln \in Nat /\ Here.ln <= Here.ln /\ Here.ln <= text[pos + 1].ln
  BY <1>1, FetchFacts
<1> DEFINE e == [Token(Sigils[Here.k], pos) EXCEPT !.v = <<Here.v>>]
<1>3. Sigils[Here.k] \notin {"Comment", "BlockEnd"}
  BY <1>1 DEF Fetches, Sigils
<1>4. e.at = pos /\ e.t \notin {"Comment", "BlockEnd"}
  BY <1>3 DEF Token
<1>5. Scan(Unsavable, Append(Base, e), Ind, Saved, FALSE, pos + 1, Here.ln)
  BY DEF FetchSigil
<1> HIDE DEF e
<1> QED BY <1>1, <1>2, <1>4, <1>5, SameFlow, SaveKeeps

LEMMA PlainKeeps ==
    ASSUME KeyInv, FetchPlain
    PROVE  KeyInv'
<1> DEFINE q == FirstOf(pos + 1, PlainStops)
           e == Scalar(q, Spelling(pos, q), TRUE)
<1>1. /\ Fetches({"word", "---", "..."}) /\ UNCHANGED flow /\ UNCHANGED done
      /\ "end" \notin {"word", "---", "..."}
      /\ Scan(Unsavable, Append(Base, e), Ind, Saved, NewLine(q), q, text[q].ln)
  BY DEF FetchPlain
<1>2. e.at = pos /\ e.t = "Scalar"
  BY DEF Scalar, Token
<1> HIDE DEF e
<1>3. /\ Reader /\ Pending /\ Calls /\ ~done /\ IsText(text) /\ pos \in DOMAIN text
      /\ Here.k # "end"
  BY <1>1, FetchFacts
<1>4. q \in (pos + 1)..Len(text)
  BY <1>3, PlainFacts
<1>5. q \in DOMAIN text /\ pos <= q
  BY <1>3, <1>4, TextFacts DEF IsText, Here
<1>6. Here.ln <= text[q].ln /\ text[q].ln \in Nat /\ text[q].ln <= text[q].ln
  BY <1>3, <1>5 DEF IsText, Here
<1>7. e.t \notin {"Comment", "BlockEnd"}
  BY <1>2
<1> HIDE DEF q
<1> QED BY <1>1, <1>2, <1>3, <1>5, <1>6, <1>7, SameFlow, SaveKeeps

LEMMA QuotedKeeps ==
    ASSUME KeyInv, FetchQuoted
    PROVE  KeyInv'
<1> DEFINE q == Quoted.last
           e == Scalar(q + 1, Quoted.v, FALSE)
           bad == Unsavable \/ text[q].k \notin {"quote", "quoted"}
<1>1. /\ Fetches({"quote", "quoted"}) /\ UNCHANGED flow /\ UNCHANGED done
      /\ "end" \notin {"quote", "quoted"} /\ Here.k \in {"quote", "quoted"}
      /\ Scan(bad, Append(Base, e), Ind, Saved, FALSE, q + 1, text[q].ln)
  BY DEF FetchQuoted, Fetches
<1>2. e.at = pos /\ e.t = "Scalar"
  BY DEF Scalar, Token
<1>3. /\ Reader /\ Pending /\ Calls /\ ~done /\ IsText(text) /\ pos \in DOMAIN text
      /\ Here.k # "end" /\ pos \in Nat /\ Len(text) \in Nat /\ pos < Len(text)
      /\ DOMAIN text = 1..Len(text) /\ 1 <= pos
  BY <1>1, FetchFacts, TextFacts DEF Here, IsText
<1>4. q = pos \/ q = FirstOf(pos + 1, Unquotes)
  BY DEF Quoted
<1>5. q \in DOMAIN text /\ pos <= q
  BY <1>3, <1>4, QuoteFacts
<1>6. Here.ln <= text[q].ln /\ text[q].ln \in Nat
  BY <1>3, <1>5 DEF IsText, Here
<1>7. e.t \notin {"Comment", "BlockEnd"}
  BY <1>2
<1> HIDE DEF e, q
<1>8. CASE bad
  BY <1>1, <1>8 DEF Scan, Raise, KeyInv
<1>9. CASE ~bad
  <2>1. text[q].k # "end"
    BY <1>9
  <2>2. q + 1 \in DOMAIN text /\ text[q].ln <= text[q + 1].ln
    BY <1>3, <1>5, <2>1, TextFacts
  <2> HIDE DEF bad
  <2> QED BY <1>1, <1>2, <1>3, <1>6, <1>7, <2>2, SameFlow, SaveKeeps
<1> QED BY <1>8, <1>9

(* KEY goes in before the token of the key, and behind those of the keys     *)
(* of the levels around it, which are earlier ones.                          *)
Inserted(s, p, a, b, c, deeper) ==
    Append(IF deeper THEN InsertAt(InsertAt(s, p, a), p, b) ELSE InsertAt(s, p, a), c)

LEMMA InsertedFacts ==
    ASSUME NEW s, IsSeq(s), NEW p \in 1..Len(s), NEW a, NEW b, NEW c, NEW deeper \in BOOLEAN
    PROVE  /\ IsSeq(Inserted(s, p, a, b, c, deeper))
           /\ Len(Inserted(s, p, a, b, c, deeper)) >= Len(s)
           /\ \A j \in 1..(p - 1) : Inserted(s, p, a, b, c, deeper)[j] = s[j]
<1> DEFINE keyed == InsertAt(s, p, a)
           opened == IF deeper THEN InsertAt(keyed, p, b) ELSE keyed
           n == Len(s)
<1>1. n \in Nat /\ p \in 1..n /\ p \in 1..(n + 1) /\ p \in Nat
  <2>1. n \in Nat
    BY SeqFacts
  <2>2. p \in 1..n
    OBVIOUS
  <2> HIDE DEF n
  <2> QED BY <2>1, <2>2
<1>2. /\ IsSeq(keyed) /\ Len(keyed) = n + 1 /\ \A j \in 1..(p - 1) : keyed[j] = s[j]
  BY InsertFacts
<1> HIDE DEF n
<1>3. /\ IsSeq(opened) /\ Len(opened) \in Nat /\ Len(opened) >= n + 1
      /\ \A j \in 1..(p - 1) : opened[j] = s[j]
  <2> HIDE DEF keyed
  <2>1. CASE deeper
    <3>1. p \in 1..Len(keyed)
      BY <1>1, <1>2
    <3>2. /\ IsSeq(InsertAt(keyed, p, b)) /\ Len(InsertAt(keyed, p, b)) = Len(keyed) + 1
          /\ \A j \in 1..(p - 1) : InsertAt(keyed, p, b)[j] = keyed[j]
      BY <1>2, <3>1, InsertFacts
    <3>3. n + 1 + 1 \in Nat /\ n + 1 + 1 >= n + 1
      BY <1>1
    <3> QED BY <1>2, <2>1, <3>2, <3>3
  <2>2. CASE ~deeper
    <3>1. n + 1 \in Nat /\ n + 1 >= n + 1
      BY <1>1
    <3> QED BY <1>2, <2>2, <3>1
  <2> QED BY <2>1, <2>2
<1> HIDE DEF opened
<1>4. Grows(opened, Append(opened, c)) /\ Len(Append(opened, c)) = Len(opened) + 1
  BY <1>3, AppendGrows
<1>5. \A j \in 1..(p - 1) : j \in 1..Len(opened)
  BY <1>1, <1>3
<1>6. Len(Append(opened, c)) >= n
  BY <1>1, <1>3, <1>4
<1>7. Inserted(s, p, a, b, c, deeper) = Append(opened, c)
  BY DEF Inserted, opened, keyed
<1> QED BY <1>3, <1>4, <1>5, <1>6, <1>7 DEF Grows, n

LEMMA SimpleValueKeeps ==
    ASSUME KeyInv, FetchSimpleValue
    PROVE  KeyInv'
<1> DEFINE key == Ks[Level]
           place_ == key.num - taken + 1
           a == Token("Key", key.at)
           b == Token("BlockMappingStart", key.at)
           c == Token("Value", pos)
           keyed == InsertAt(Base, place_, a)
           all == Append(IF Deeper(key.col) THEN InsertAt(keyed, place_, b) ELSE keyed, c)
<1>1. /\ Fetches({":"}) /\ UNCHANGED flow /\ UNCHANGED done /\ "end" \notin {":"}
      /\ Level \in DOMAIN Ks
      /\ Scan(FALSE, all, Indented(key.col), Without, FALSE, pos + 1, Here.ln)
  BY DEF FetchSimpleValue
<1>2. /\ Reader /\ Pending /\ Calls /\ ~done /\ pos + 1 \in DOMAIN text
      /\ Here.ln \in Nat /\ Here.ln <= Here.ln /\ Here.ln <= text[pos + 1].ln
  BY <1>1, FetchFacts
<1>3. /\ IsSeq(Indented(key.col)) /\ IsSeq(toks) /\ Grows(toks, Base)
      /\ IsSeq(Base) /\ Len(Base) \in Nat /\ Len(toks) \in Nat /\ Len(Base) >= Len(toks)
  BY <1>2, OpeningFacts, SeqFacts DEF Reader, Pending, Grows
<1>4. /\ Level \in LiveKeys /\ place_ = Place(Level) /\ place_ \in 1..Len(toks)
      /\ keys[Level].num \in Nat /\ taken \in Nat /\ Level \in Nat
  <2>1. Level \in LiveKeys /\ Ks[Level] = keys[Level] /\ Level \in DOMAIN keys
    BY <1>1, <1>2, KsFacts, LiveFacts DEF Pending
  <2>2. place_ = Place(Level)
    BY <2>1 DEF Place
  <2>3. Place(Level) \in 1..Len(toks) /\ keys[Level].num \in Nat /\ taken \in Nat
    BY <1>2, <2>1 DEF Pending, Pointed, KeyTyped, Reader
  <2>4. Level \in Nat
    BY <1>2, HereFacts
  <2> HIDE DEF place_
  <2> QED BY <2>1, <2>2, <2>3, <2>4
<1>5. place_ \in 1..Len(Base) /\ place_ \in Nat
  <2> HIDE DEF place_
  <2> QED BY <1>3, <1>4
<1>6. /\ IsSeq(all) /\ Len(all) >= Len(Base)
      /\ \A j \in 1..(place_ - 1) : all[j] = Base[j]
  <2> DEFINE deeper == Deeper(key.col)
  <2>1. all = Inserted(Base, place_, a, b, c, deeper)
    BY DEF Inserted
  <2>2. deeper \in BOOLEAN
    BY DEF Deeper, InBlock
  <2> HIDE DEF place_, a, b, c, all, deeper
  <2> QED BY <1>3, <1>5, <2>1, <2>2, InsertedFacts
<1> HIDE DEF all
<1>7. Len(all) \in Nat /\ Len(all) >= Len(toks)
  BY <1>3, <1>6, SeqFacts
<1>8. ASSUME NEW l \in DOMAIN Without
      PROVE  /\ l \in 0..Level' /\ l \in DOMAIN Ks /\ Without[l] = Ks[l]
             /\ all[Place(l)] = toks[Place(l)]
  <2>1. l \in DOMAIN Ks /\ Without[l] = Ks[l] /\ l # Level /\ l \in LiveKeys /\ l \in DOMAIN keys
    BY <1>2, KsFacts, LiveFacts DEF Without, Pending
  <2>2. l \in 0..Level /\ keys[l].num \in Nat /\ Place(l) \in 1..Len(toks)
    BY <1>2, <2>1 DEF Pending, KeyTyped, Pointed
  <2>3. l < Level
    BY <1>4, <2>1, <2>2
  <2>4. keys[l].num < keys[Level].num
    BY <1>2, <1>4, <2>1, <2>3 DEF Pending, Ordered
  <2>5. Place(l) \in 1..(Place(Level) - 1)
    BY <1>4, <2>2, <2>4 DEF Place
  <2>6. all[Place(l)] = Base[Place(l)]
    <3> HIDE DEF place_
    <3> QED BY <1>4, <1>6, <2>5
  <2>7. Base[Place(l)] = toks[Place(l)]
    BY <1>3, <2>2 DEF Grows
  <2>8. l \in 0..Level'
    BY <1>1, <1>2, <2>1, SameFlow
  <2> QED BY <2>1, <2>6, <2>7, <2>8
<1>9. CASE phase' = "raised"
  BY <1>9 DEF KeyInv
<1>10. CASE phase' # "raised"
  <2>1. /\ toks' = all /\ indents' = Indented(key.col) /\ keys' = Without
        /\ pos' = pos + 1 /\ line' = Here.ln
        /\ phase' = Returns /\ text' = text /\ taken' = taken
    BY <1>1, <1>10 DEF Scan, Raise
  <2>2. flow' \in Seq({"[", "{"}) /\ ~done'
    BY <1>1, <1>2, SameFlow
  <2>3. \A l \in DOMAIN keys' : l \in 0..Level' /\ OldKey(l)
    BY <1>8, <2>1 DEF OldKey
  <2>4. Fetched
    BY <1>2, <1>3, <1>6, <1>7, <2>1, <2>2, <2>3 DEF Fetched
  <2> QED BY <1>2, <2>4, ScanKeeps
<1> QED BY <1>9, <1>10

(* At the end of the stream no key is left.                                  *)
LEMMA StreamEndKeeps ==
    ASSUME KeyInv, FetchStreamEnd
    PROVE  KeyInv'
<1>1. phase # "raised" /\ Reader /\ Here.k = "end" /\ done' /\ UNCHANGED flow
  BY DEF FetchStreamEnd, Fetches, Calls, KeyInv
<1>2. CASE phase' = "raised"
  BY <1>2 DEF KeyInv
<1>3. CASE phase' # "raised"
  <2>1. /\ keys' = <<>> /\ pos' = pos /\ text' = text /\ line' = Here.ln /\ taken' = taken
        /\ indents' = Kept(-1)
    BY <1>3 DEF FetchStreamEnd, Scan, Raise
  <2>2. Here' = Here
    BY <2>1 DEF Here
  <2>3. IsSeq(indents') /\ Here.ln \in Nat
    BY <1>1, <2>1, KeptFacts, HereFacts DEF Reader
  <2>4. Here.ln <= Here.ln
    BY <2>3, ItsOwnBound
  <2>5. Reader'
    BY <1>1, <2>1, <2>2, <2>3, <2>4 DEF Reader
  <2> QED BY <1>1, <2>1, <2>2, <2>5 DEF KeyInv
<1> QED BY <1>2, <1>3

(* A comment, or blank lines, put the line of every pending key behind.      *)
LEMMA CommentKeeps ==
    ASSUME KeyInv, FetchComment
    PROVE  KeyInv'
<1> DEFINE blank == Here.ln > line + 1
           p == IF blank THEN pos ELSE NextLine(pos)
<1>1. /\ phase # "raised" /\ Calls /\ CommentAhead /\ Reader /\ phase' = Returns
      /\ UNCHANGED <<text, taken, indents, flow, keys, done>>
      /\ pos' = p /\ line' = text[p].ln
      /\ \E e : toks' = Append(toks, e)
  BY DEF FetchComment, Calls, KeyInv
<1>2. IsText(text) /\ Here.ln \in Nat /\ pos \in DOMAIN text /\ line \in Nat /\ line <= Here.ln
  BY <1>1, HereFacts DEF Reader
<1>3. /\ p \in DOMAIN text /\ line < text[p].ln /\ text[p].ln \in Nat
      /\ Here.k = "end" => p = pos
  <2>1. CASE blank
    BY <1>2, <2>1 DEF Here
  <2>2. CASE ~blank
    <3>1. Here.k = "#"
      BY <1>1, <2>2 DEF CommentAhead
    <3>2. NextLine(pos) \in DOMAIN text /\ Here.ln < text[NextLine(pos)].ln
      BY <1>2, <3>1, NextLineFacts DEF Here
    <3>3. text[NextLine(pos)].ln \in Nat
      BY <1>2, <3>2 DEF IsText
    <3>4. line < text[NextLine(pos)].ln
      BY <1>2, <3>2, <3>3
    <3> QED BY <2>2, <3>1, <3>2, <3>3, <3>4
  <2> QED BY <2>1, <2>2
<1> HIDE DEF p
<1>4. text[p].ln <= text[p].ln
  BY <1>3, ItsOwnBound
<1>5. Reader'
  BY <1>1, <1>3, <1>4 DEF Reader, Here
<1>6. ASSUME done PROVE keys' = <<>> /\ Here'.k = "end"
  BY <1>1, <1>3, <1>6 DEF KeyInv, Here
<1>7. ASSUME ~done PROVE Pending'
  <2>1. Pending
    BY <1>1, <1>7 DEF KeyInv
  <2>2. IsSeq(toks') /\ toks' # <<>>
    <3>1. PICK e : toks' = Append(toks, e)
      BY <1>1
    <3>2. IsSeq(toks') /\ Len(toks') = Len(toks) + 1 /\ Len(toks) \in Nat
      BY <2>1, <3>1, AppendGrows, SeqFacts DEF Pending, Grows
    <3>3. Len(toks') # 0
      BY <3>2
    <3> QED BY <3>2, <3>3, SeqFacts
  <2>3. ASSUME NEW l \in DOMAIN keys
        PROVE  /\ l \in 0..Level /\ keys[l].num \in Nat /\ keys[l].at \in Nat
               /\ keys[l].ln \in Nat /\ keys[l].ln <= line
    BY <2>1 DEF Pending, KeyTyped
  <2>4. ASSUME NEW l \in DOMAIN keys
        PROVE  keys[l].ln <= text[p].ln /\ keys[l].ln # text[p].ln
    BY <1>2, <1>3, <2>3
  <2>5. KeyTyped'
    BY <1>1, <2>3, <2>4 DEF KeyTyped, Level
  <2>6. LiveKeys' = {}
    BY <1>1, <2>4 DEF LiveKeys, Live, Stale
  <2> QED BY <2>2, <2>5, <2>6 DEF Pending, Pointed, Ordered, Passed
<1> QED BY <1>1, <1>5, <1>6, <1>7 DEF KeyInv

LEMMA FetchKeeps ==
    ASSUME KeyInv, Fetch
    PROVE  KeyInv'
<1>1. CASE FetchNothing
  BY <1>1 DEF FetchNothing, Raise, KeyInv
<1> QED
  BY <1>1, CommentKeeps, StreamEndKeeps, NothingPending, FlowStartKeeps, FlowEndKeeps,
     SimpleValueKeeps, SigilKeeps, PlainKeeps, QuotedKeeps, BlockScalarKeeps DEF Fetch

(* Tokens are taken out, d of them in front of those the keys are made for.  *)
Moved(d) ==
    /\ UNCHANGED <<text, pos, line, indents, flow>> /\ ~done'
    /\ taken' = taken + d /\ IsSeq(toks')
    /\ \A l \in DOMAIN keys' : l \in DOMAIN keys /\ keys'[l] = keys[l]
    /\ \A l \in LiveKeys : /\ Place(l) - d \in 1..Len(toks')
                          /\ toks'[Place(l) - d] = toks[Place(l)]

LEMMA MoveKeeps ==
    ASSUME Reader, Pending, NEW d \in Nat, Moved(d)
    PROVE  /\ Reader' /\ IsSeq(toks') /\ KeyTyped' /\ Pointed' /\ Ordered'
           /\ \A l \in LiveKeys' : l \in LiveKeys /\ keys'[l] = keys[l]
<1>1. Reader'
  <2>1. taken' \in Nat
    <3>1. taken \in Nat /\ taken' = taken + d
      BY DEF Reader, Moved
    <3> QED BY <3>1
  <2> QED BY <2>1 DEF Reader, Moved, Here
<1>2. ASSUME NEW l \in DOMAIN keys' PROVE l \in DOMAIN keys /\ keys'[l] = keys[l]
  BY DEF Moved
<1>3. KeyTyped'
  BY <1>2 DEF KeyTyped, Pending, Moved, Level
<1>4. ASSUME NEW l \in LiveKeys' PROVE l \in LiveKeys /\ l \in DOMAIN keys' /\ keys'[l] = keys[l]
  <2>1. l \in DOMAIN keys' /\ ~Stale(keys'[l], line', pos')
    BY DEF LiveKeys, Live
  <2>2. l \in DOMAIN keys /\ keys'[l] = keys[l] /\ line' = line /\ pos' = pos
    BY <1>2, <2>1 DEF Moved
  <2> QED BY <2>1, <2>2 DEF LiveKeys, Live
<1>5. Pointed'
  <2> SUFFICES ASSUME NEW l \in LiveKeys'
               PROVE  /\ Place(l)' \in 1..Len(toks') /\ toks'[Place(l)'].at = keys'[l].at
                      /\ toks'[Place(l)'].t \notin {"Comment", "BlockEnd"}
    BY DEF Pointed
  <2>1. l \in LiveKeys /\ l \in DOMAIN keys /\ keys'[l] = keys[l]
    BY <1>2, <1>4
  <2>2. /\ Place(l) - d \in 1..Len(toks') /\ toks'[Place(l) - d] = toks[Place(l)]
        /\ taken' = taken + d
    BY <2>1 DEF Moved
  <2>3. toks[Place(l)].at = keys[l].at /\ toks[Place(l)].t \notin {"Comment", "BlockEnd"}
    BY <2>1 DEF Pending, Pointed
  <2>4. keys[l].num \in Nat /\ taken \in Nat
    BY <2>1 DEF Pending, KeyTyped, Reader
  <2>5. Place(l)' = Place(l) - d
    BY <2>1, <2>2, <2>4 DEF Place
  <2> QED BY <2>1, <2>2, <2>3, <2>5
<1>6. Ordered'
  BY <1>4 DEF Ordered, Pending
<1>7. IsSeq(toks')
  BY DEF Moved
<1> QED BY <1>1, <1>3, <1>4, <1>5, <1>6, <1>7

LEMMA DropMoves ==
    ASSUME Reader, Pending, NEW j \in Nat \ {0}, IsComment(j), Drops(j),
           \A l \in LiveKeys : Place(l) >= j
    PROVE  /\ IsSeq(toks') /\ Len(toks') = Len(toks) - 1 /\ Len(toks) \in Nat /\ Len(toks) >= j
           /\ \A l \in LiveKeys : /\ Place(l) > j /\ Place(l) - 1 \in 1..Len(toks')
                                 /\ toks'[Place(l) - 1] = toks[Place(l)]
<1>1. /\ IsSeq(toks) /\ Len(toks) >= j /\ toks[j].t = "Comment" /\ toks' = RemoveAt(toks, j)
      /\ Len(toks) \in Nat /\ j \in 1..Len(toks)
  <2>1. IsSeq(toks) /\ Len(toks) >= j /\ toks[j].t = "Comment" /\ toks' = RemoveAt(toks, j)
    BY DEF Pending, IsComment, Drops
  <2>2. Len(toks) \in Nat
    BY <2>1, SeqFacts
  <2> QED BY <2>1, <2>2
<1>2. /\ IsSeq(toks') /\ Len(toks') = Len(toks) - 1
      /\ \A i \in j..(Len(toks) - 1) : toks'[i] = toks[i + 1]
  BY <1>1, RemoveFacts
<1>3. ASSUME NEW l \in LiveKeys
      PROVE  /\ Place(l) > j /\ Place(l) - 1 \in 1..Len(toks')
             /\ toks'[Place(l) - 1] = toks[Place(l)]
  <2>1. Place(l) \in 1..Len(toks) /\ Place(l) # j /\ Place(l) >= j
    BY <1>1 DEF Pending, Pointed
  <2> DEFINE k == Place(l)
             n == Len(toks)
  <2> HIDE DEF k, n
  <2>2. k \in 1..n /\ k # j /\ k >= j /\ n \in Nat /\ j \in Nat
    BY <1>1, <2>1 DEF k, n
  <2>3. k > j /\ k - 1 \in 1..(n - 1) /\ k - 1 \in j..(n - 1) /\ (k - 1) + 1 = k
    BY <2>2
  <2> QED BY <1>2, <2>3 DEF k, n
<1> QED BY <1>1, <1>2, <1>3

(* Nothing awaits a key any more that its first token could have begun.      *)
LEMMA PassedFacts ==
    ASSUME Reader, Pending, ~done, ~NeedMore
    PROVE  toks # <<>> /\ \A l \in LiveKeys : keys[l].num > taken
<1>1. toks # <<>> /\ ~Awaited(Live(line, pos))
  BY DEF NeedMore
<1>2. ASSUME NEW l \in LiveKeys
      PROVE  /\ keys[l].num \in Nat /\ taken \in Nat /\ keys[l].num >= taken
             /\ Live(line, pos)[l] = keys[l]
  <2>1. l \in DOMAIN keys /\ Live(line, pos)[l] = keys[l]
    BY LiveFacts DEF LiveKeys
  <2>2. keys[l].num \in Nat /\ taken \in Nat /\ Place(l) \in 1..Len(toks) /\ Len(toks) \in Nat
    BY <2>1, SeqFacts DEF Pending, KeyTyped, Reader, Pointed
  <2>3. keys[l].num >= taken
    BY <2>2 DEF Place
  <2> QED BY <2>1, <2>2, <2>3
<1>3. ASSUME NEW l \in LiveKeys PROVE keys[l].num # taken
  BY <1>1, <1>2 DEF Awaited, LiveKeys
<1>4. ASSUME NEW l \in LiveKeys PROVE keys[l].num > taken
  BY <1>2, <1>3
<1> QED BY <1>1, <1>4

LEMMA AfterTheFirst ==
    ASSUME Reader, Pending, \A l \in LiveKeys : keys[l].num > taken
    PROVE  \A l \in LiveKeys : Place(l) > 1
<1> SUFFICES ASSUME NEW l \in LiveKeys PROVE Place(l) > 1
  OBVIOUS
<1>1. keys[l].num \in Nat /\ taken \in Nat /\ keys[l].num > taken
  BY LiveFacts DEF Pending, KeyTyped, Reader
<1> QED BY <1>1 DEF Place

(* The tokens stay, or a comment goes that stands before those of the keys.  *)
Rest == /\ UNCHANGED <<text, pos, line, indents, flow>> /\ ~done'
        /\ \A l \in DOMAIN keys' : l \in DOMAIN keys /\ keys'[l] = keys[l]

LEMMA StayMoves ==
    ASSUME Reader, Pending, Rest, UNCHANGED <<toks, taken>>
    PROVE  Moved(0)
<1>1. ASSUME NEW l \in LiveKeys
      PROVE  Place(l) - 0 \in 1..Len(toks') /\ toks'[Place(l) - 0] = toks[Place(l)]
  <2>1. Place(l) \in 1..Len(toks) /\ Len(toks) \in Nat
    BY SeqFacts DEF Pending, Pointed
  <2>2. Place(l) - 0 = Place(l)
    BY <2>1
  <2> QED BY <2>1, <2>2
<1>2. taken' = taken + 0
  <2>1. taken \in Nat
    BY DEF Reader
  <2> QED BY <2>1
<1>3. IsSeq(toks')
  BY DEF Pending
<1> QED BY <1>1, <1>2, <1>3 DEF Moved, Rest

LEMMA FirstMoves ==
    ASSUME Reader, Pending, Rest, DropsIfComment, \A l \in LiveKeys : Place(l) >= 1
    PROVE  \E d \in Nat : Moved(d)
<1>1. CASE UNCHANGED <<toks, taken>>
  BY <1>1, StayMoves
<1>2. CASE IsComment(1) /\ Drops(1)
  <2>1. /\ IsSeq(toks')
        /\ \A l \in LiveKeys : /\ Place(l) - 1 \in 1..Len(toks')
                              /\ toks'[Place(l) - 1] = toks[Place(l)]
    BY <1>2, DropMoves
  <2>2. taken' = taken + 1
    BY <1>2 DEF Drops
  <2>3. Moved(1)
    BY <2>1, <2>2 DEF Moved, Rest
  <2> QED BY <2>3
<1> QED BY <1>1, <1>2 DEF DropsIfComment

LEMMA PlacesArePositive ==
    ASSUME Pending
    PROVE  \A l \in LiveKeys : Place(l) >= 1
<1> SUFFICES ASSUME NEW l \in LiveKeys PROVE Place(l) >= 1
  OBVIOUS
<1>1. Place(l) \in 1..Len(toks) /\ Len(toks) \in Nat
  BY SeqFacts DEF Pending, Pointed
<1> QED BY <1>1

(* Once the stream has ended no key is pending, and none will be.            *)
LEMMA EndedKeeps ==
    ASSUME KeyInv, phase # "raised", done,
           UNCHANGED <<text, pos, line, indents, flow, keys, done>>,
           UNCHANGED taken \/ taken' = taken + 1
    PROVE  KeyInv'
<1>1. Reader /\ keys = <<>> /\ Here.k = "end"
  BY DEF KeyInv
<1>2. taken' \in Nat
  <2>1. taken \in Nat
    BY <1>1 DEF Reader
  <2> QED BY <2>1
<1>3. Reader'
  BY <1>1, <1>2 DEF Reader, Here
<1> QED BY <1>1, <1>3 DEF KeyInv, Here

LEMMA GatherKeeps ==
    ASSUME KeyInv, Gather
    PROVE  KeyInv'
<1>1. /\ phase \in {"need", "gather"} /\ ~NeedMore /\ Reader
      /\ UNCHANGED <<text, pos, line, indents, flow, done>>
  BY DEF Gather, KeyInv
<1>2. CASE phase' = "raised"
  BY <1>2 DEF KeyInv
<1>3. CASE phase' # "raised" /\ done
  <2>1. UNCHANGED keys /\ (UNCHANGED taken \/ taken' = taken + 1)
    BY <1>3 DEF Gather, Raise, DropsIfComment, Drops
  <2> QED BY <1>1, <1>3, <2>1, EndedKeeps
<1>4. CASE phase' # "raised" /\ ~done
  <2>1. Pending
    BY <1>1, <1>4 DEF KeyInv
  <2>2. toks # <<>> /\ \A l \in LiveKeys : keys[l].num > taken
    BY <1>1, <1>4, <2>1, PassedFacts
  <2>3. keys' = Live(line, pos)
    BY <1>4 DEF Gather, Raise
  <2>4. Rest
    BY <1>1, <1>4, <2>3, LiveFacts DEF Rest
  <2>5. CASE phase = "need"
    <3>1. DropsIfComment /\ phase' = "gather"
      BY <1>4, <2>5 DEF Gather, Raise
    <3>2. PICK d \in Nat : Moved(d)
      BY <1>1, <2>1, <2>4, <3>1, FirstMoves, PlacesArePositive
    <3>3. Reader' /\ IsSeq(toks') /\ KeyTyped' /\ Pointed' /\ Ordered'
      BY <1>1, <2>1, <3>2, MoveKeeps
    <3>4. Passed'
      BY <3>1 DEF Passed
    <3> QED BY <1>1, <1>4, <3>3, <3>4 DEF KeyInv, Pending
  <2>6. CASE phase = "gather"
    <3>1. UNCHANGED <<toks, taken>>
      BY <1>4, <2>6 DEF Gather, Raise
    <3>2. Moved(0) /\ 0 \in Nat
      BY <1>1, <2>1, <2>4, <3>1, StayMoves
    <3>3. /\ Reader' /\ IsSeq(toks') /\ KeyTyped' /\ Pointed' /\ Ordered'
          /\ \A l \in LiveKeys' : l \in LiveKeys /\ keys'[l] = keys[l]
      BY <1>1, <2>1, <3>2, MoveKeeps
    <3>4. Passed'
      BY <2>2, <3>1, <3>3 DEF Passed
    <3> QED BY <1>1, <1>4, <3>3, <3>4 DEF KeyInv, Pending
  <2> QED BY <1>1, <2>5, <2>6
<1> QED BY <1>2, <1>3, <1>4

LEMMA DropCommentKeeps ==
    ASSUME KeyInv, DropComment
    PROVE  KeyInv'
<1>1. /\ phase = "drop" /\ phase' = "gather" /\ DropsIfComment /\ Reader
      /\ UNCHANGED <<text, pos, line, indents, flow, keys, done>>
  BY DEF DropComment, KeyInv
<1>2. CASE done
  <2>1. UNCHANGED taken \/ taken' = taken + 1
    BY <1>1 DEF DropsIfComment, Drops
  <2> QED BY <1>1, <1>2, <2>1, EndedKeeps
<1>3. CASE ~done
  <2>1. Pending /\ Rest
    BY <1>1, <1>3 DEF KeyInv, Rest
  <2>2. PICK d \in Nat : Moved(d)
    BY <1>1, <2>1, FirstMoves, PlacesArePositive
  <2>3. Reader' /\ IsSeq(toks') /\ KeyTyped' /\ Pointed' /\ Ordered'
    BY <1>1, <2>1, <2>2, MoveKeeps
  <2>4. Passed'
    BY <1>1 DEF Passed
  <2> QED BY <1>1, <1>3, <2>3, <2>4 DEF KeyInv, Pending
<1> QED BY <1>2, <1>3

(* The comment after the next token goes: no key was made for either.        *)
LEMMA AttachKeeps ==
    ASSUME KeyInv, AttachComment
    PROVE  KeyInv'
<1>1. /\ phase \in {"post", "posted"} /\ Reader
      /\ UNCHANGED <<text, pos, line, indents, flow, keys, done>>
      /\ \/ IsComment(2) /\ Drops(2) /\ phase' = "refetch"
         \/ UNCHANGED <<toks, taken>> /\ phase' = "ready"
  BY DEF AttachComment, Attachable, KeyInv
<1>2. CASE done
  <2>1. UNCHANGED taken \/ taken' = taken + 1
    BY <1>1 DEF Drops
  <2> QED BY <1>1, <1>2, <2>1, EndedKeeps
<1>3. CASE ~done
  <2>1. Pending /\ Rest
    BY <1>1, <1>3 DEF KeyInv, Rest
  <2>2. /\ toks # <<>> /\ \A l \in LiveKeys : keys[l].num > taken
    BY <1>1, <2>1 DEF Pending, Passed
  <2>3. CASE IsComment(2) /\ Drops(2)
    <3>1. \A l \in LiveKeys : Place(l) >= 2
      <4> SUFFICES ASSUME NEW l \in LiveKeys PROVE Place(l) >= 2
        OBVIOUS
      <4>1. Place(l) > 1 /\ Place(l) \in 1..Len(toks) /\ Len(toks) \in Nat
        BY <1>1, <2>1, <2>2, AfterTheFirst, SeqFacts DEF Pending, Pointed
      <4> QED BY <4>1
    <3>2. /\ IsSeq(toks') /\ Len(toks') = Len(toks) - 1 /\ Len(toks) \in Nat /\ Len(toks) >= 2
          /\ \A l \in LiveKeys : /\ Place(l) > 2 /\ Place(l) - 1 \in 1..Len(toks')
                                /\ toks'[Place(l) - 1] = toks[Place(l)]
      BY <1>1, <2>1, <2>3, <3>1, DropMoves
    <3>3. Len(toks') # 0
      BY <3>2
    <3>4. toks' # <<>>
      BY <3>2, <3>3, SeqFacts
    <3>5. taken' = taken + 1
      BY <2>3 DEF Drops
    <3>6. Moved(1)
      BY <2>1, <3>2, <3>5 DEF Moved, Rest
    <3>7. /\ Reader' /\ IsSeq(toks') /\ KeyTyped' /\ Pointed' /\ Ordered'
          /\ \A l \in LiveKeys' : l \in LiveKeys /\ keys'[l] = keys[l]
      BY <1>1, <2>1, <3>6, MoveKeeps
    <3>8. ASSUME NEW l \in LiveKeys PROVE keys[l].num > taken + 1
      <4>1. keys[l].num \in Nat /\ taken \in Nat /\ Place(l) > 2
        BY <1>1, <2>1, <3>2, LiveFacts DEF Pending, KeyTyped, Reader
      <4> QED BY <4>1 DEF Place
    <3>9. Passed'
      BY <3>4, <3>5, <3>7, <3>8 DEF Passed
    <3> QED BY <1>1, <1>3, <3>7, <3>9 DEF KeyInv, Pending
  <2>4. CASE UNCHANGED <<toks, taken>>
    <3>1. Moved(0) /\ 0 \in Nat
      BY <1>1, <2>1, <2>4, StayMoves
    <3>2. /\ Reader' /\ IsSeq(toks') /\ KeyTyped' /\ Pointed' /\ Ordered'
          /\ \A l \in LiveKeys' : l \in LiveKeys /\ keys'[l] = keys[l]
      BY <1>1, <2>1, <3>1, MoveKeeps
    <3>3. Passed'
      BY <2>2, <2>4, <3>2 DEF Passed
    <3> QED BY <1>1, <1>3, <3>2, <3>3 DEF KeyInv, Pending
  <2> QED BY <1>1, <2>3, <2>4
<1> QED BY <1>2, <1>3

LEMMA TakeKeeps ==
    ASSUME KeyInv, phase = "ready", Take
    PROVE  KeyInv'
<1>1. /\ Reader /\ toks' = Tail(toks) /\ taken' = taken + 1 /\ phase' = "need"
      /\ UNCHANGED <<text, pos, line, indents, flow, keys, done>>
  BY DEF Take, KeyInv
<1>2. CASE done
  BY <1>1, <1>2, EndedKeeps
<1>3. CASE ~done
  <2>1. Pending /\ Rest
    BY <1>1, <1>3 DEF KeyInv, Rest
  <2>2. IsSeq(toks) /\ toks # <<>> /\ \A l \in LiveKeys : keys[l].num > taken
    BY <2>1 DEF Pending, Passed
  <2>3. /\ IsSeq(toks') /\ Len(toks') = Len(toks) - 1 /\ Len(toks) \in Nat
        /\ \A j \in 1..(Len(toks) - 1) : toks'[j] = toks[j + 1]
    BY <1>1, <2>2, TailFacts, SeqFacts
  <2>4. ASSUME NEW l \in LiveKeys
        PROVE  Place(l) - 1 \in 1..Len(toks') /\ toks'[Place(l) - 1] = toks[Place(l)]
    <3> DEFINE k == Place(l)
               n == Len(toks)
    <3>1. k > 1 /\ k \in 1..n /\ n \in Nat
      BY <1>1, <2>1, <2>2, <2>3, AfterTheFirst DEF Pending, Pointed
    <3> HIDE DEF k, n
    <3>2. k - 1 \in 1..(n - 1) /\ (k - 1) + 1 = k
      BY <3>1
    <3> QED BY <2>3, <3>2 DEF k, n
  <2>5. Moved(1)
    BY <1>1, <2>1, <2>3, <2>4 DEF Moved, Rest
  <2>6. Reader' /\ IsSeq(toks') /\ KeyTyped' /\ Pointed' /\ Ordered'
    BY <1>1, <2>1, <2>5, MoveKeeps
  <2>7. Passed'
    BY <1>1 DEF Passed
  <2> QED BY <1>1, <1>3, <2>6, <2>7 DEF KeyInv, Pending
<1> QED BY <1>2, <1>3

LEMMA SameKeys ==
    ASSUME KeyInv, UNCHANGED scanner
    PROVE  KeyInv'
BY DEF KeyInv, scanner, Reader, Pending, KeyTyped, Pointed, Ordered, Passed, LiveKeys, Live,
       Place, Here, Level

(* ------------------------------- the theorem ----------------------------- *)
LEMMA KeyInit == Init => KeyInv
<1> SUFFICES ASSUME Init PROVE KeyInv
  OBVIOUS
<1>1. /\ text \in Texts /\ pos = 1 /\ line = 1 /\ taken = 0 /\ flow = <<>> /\ keys = <<>>
      /\ toks = <<Token("StreamStart", 1)>> /\ indents = <<-1>> /\ done = FALSE
      /\ phase = "need"
  BY DEF Init, StableInit, ScannerInit
<1>2. IsText(text)
  BY <1>1, TextsAssumption
<1>3. pos \in DOMAIN text /\ line <= Here.ln
  <2>1. Len(text) \in Nat \ {0} /\ 1 \in DOMAIN text /\ text[1].ln \in Nat \ {0}
    BY <1>2 DEF IsText
  <2> QED BY <1>1, <2>1 DEF Here
<1>4. IsSeq(toks) /\ IsSeq(indents) /\ flow \in Seq({"[", "{"})
  <2> DEFINE e == Token("StreamStart", 1)
  <2>1. toks = <<e>>
    BY <1>1
  <2> HIDE DEF e
  <2>2. toks \in Seq({e}) /\ indents \in Seq(Int)
    BY <1>1, <2>1
  <2>3. IsSeq(toks) /\ IsSeq(indents)
    BY <2>2 DEF IsSeq
  <2>4. flow \in Seq({"[", "{"})
    BY <1>1
  <2> QED BY <2>3, <2>4
<1>5. Reader
  BY <1>1, <1>3, <1>4 DEF Reader
<1>6. DOMAIN keys = {}
  BY <1>1
<1>7. LiveKeys = {}
  BY <1>6, LiveFacts
<1>8. KeyTyped /\ Pointed /\ Ordered /\ Passed
  BY <1>1, <1>6, <1>7 DEF KeyTyped, Pointed, Ordered, Passed
<1> QED BY <1>1, <1>4, <1>5, <1>8 DEF KeyInv, Pending

(* The parser takes the next token, looks at it, or raises.                  *)
LEMMA ParserMoves ==
    ASSUME Parsing
    PROVE  phase = "ready" /\ (Take \/ UNCHANGED scanner \/ phase' = "raised")
<1>1. CASE \/ ParseStreamStart \/ ParseImplicitDocumentStart \/ ParseDocumentStart
           \/ ParseDocumentContent \/ ParseDocumentEnd \/ ParseDocumentEnded
  BY <1>1 DEF ParseStreamStart, ParseImplicitDocumentStart, ParseDocumentStart,
              ParseDocumentContent, ParseDocumentEnd, ParseDocumentEnded, Parses, Peek,
              RaiseHere, Raise
<1>2. CASE ParseAlias \/ ParseProperty \/ ParseScalar \/ ParseCollection \/ ParseEmptyNode
  BY <1>2 DEF ParseAlias, ParseProperty, ParseScalar, ParseCollection, ParseEmptyNode, Parses,
              Peek, RaiseHere, Raise
<1>3. CASE ParseFirst \/ ParseIndicator \/ ParseItem \/ ParseNothing \/ ParseComma
  BY <1>3 DEF ParseFirst, ParseIndicator, ParseItem, ParseNothing, ParseComma, Parses, Peek
<1>4. CASE ParseFlowItem \/ ParsePairEnd \/ ParseEnd \/ ParseIndentlessEnd \/ ParseWrong
  BY <1>4 DEF ParseFlowItem, ParsePairEnd, ParseEnd, ParseIndentlessEnd, ParseWrong, Parses,
              Peek, RaiseHere, Raise
<1> QED BY <1>1, <1>2, <1>3, <1>4 DEF Parsing

LEMMA ComposerMoves ==
    ASSUME Composing
    PROVE  UNCHANGED scanner \/ phase' = "raised"
BY DEF Composing, BeginDocument, ComposeNode, ComposeAlias, UndefinedAlias, CloseNode,
       EndDocument, Takes, Raise

LEMMA KeyNext == KeyInv /\ [Next]_vars => KeyInv'
<1> SUFFICES ASSUME KeyInv, [Next]_vars PROVE KeyInv'
  OBVIOUS
<1>1. CASE UNCHANGED scanner
  BY <1>1, SameKeys
<1>2. CASE phase' = "raised"
  BY <1>2 DEF KeyInv
<1>3. CASE Scanning
  BY <1>3, FetchKeeps, GatherKeeps, DropCommentKeeps, AttachKeeps DEF Scanning
<1>4. CASE ParseEvent \/ Composing
  BY <1>1, <1>2, <1>4, ParserMoves, ComposerMoves, TakeKeeps DEF ParseEvent
<1>5. CASE ReadLine \/ UNCHANGED vars
  BY <1>1, <1>5 DEF ReadLine, vars, stable
<1> QED BY <1>3, <1>4, <1>5 DEF Next, Load, Loading, ScanToken

LEMMA KeySuffices == KeyInv => KeyPointsAtItsToken
<1> SUFFICES ASSUME KeyInv, NEW l \in DOMAIN Live(line, pos), phase # "raised"
             PROVE  LET place_ == keys[l].num - taken + 1
                    IN  place_ \in DOMAIN toks /\ toks[place_].at = keys[l].at
                                              /\ toks[place_].t \notin {"Comment", "BlockEnd"}
  BY DEF KeyPointsAtItsToken
<1>1. ~done
  <2>1. l \in DOMAIN keys
    BY LiveFacts
  <2>2. DOMAIN <<>> = {}
    OBVIOUS
  <2> QED BY <2>1, <2>2 DEF KeyInv
<1>2. Pending
  BY <1>1 DEF KeyInv
<1>3. /\ Place(l) \in 1..Len(toks) /\ toks[Place(l)].at = keys[l].at
      /\ toks[Place(l)].t \notin {"Comment", "BlockEnd"}
  BY <1>2 DEF Pending, Pointed, LiveKeys
<1>4. DOMAIN toks = 1..Len(toks)
  BY <1>2, SeqFacts DEF Pending
<1> QED BY <1>3, <1>4 DEF Place

(* For every set of texts and every bound on the length of a key: where a    *)
(* simple key is pending, its token is in the queue, just where KEY would    *)
(* be inserted, whatever was fetched, unwound or dropped since.              *)
THEOREM KeyPointsHolds == Spec => []KeyPointsAtItsToken
<1>1. Spec => []KeyInv
  BY KeyInit, KeyNext, PTL DEF Spec
<1> QED BY <1>1, KeySuffices, PTL
=============================================================================

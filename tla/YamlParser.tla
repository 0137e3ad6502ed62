------------------------------ MODULE YamlParser ------------------------------
(***************************************************************************)
(* The parser of the bundled ruamel.yaml: it turns the tokens into events, *)
(* one at a time.  Its state is the method that is called for the next     *)
(* event and a stack of the methods to come back to.                       *)
(***************************************************************************)
EXTENDS YamlScanner

VARIABLES
    state,      \* the method to call next
    states,     \* the methods to return to
    marks,      \* how many collections are open
    props,      \* the anchor and the tag of the node that is parsed
    event       \* the event the composer has not taken yet

parser == <<state, states, marks, props, event>>

NoEvent == [e |-> "none"]
NoProps == [anchor |-> <<>>, tag |-> <<>>, at |-> 0]
Next_(f) == [f |-> f]
Item(next, empties, node) == [f |-> "item", next |-> next, empties |-> empties, node |-> node]
Node(kind) == [f |-> "node", kind |-> kind]

ParserInit ==
    /\ state = Next_("stream start") /\ states = <<>> /\ marks = 0
    /\ props = NoProps /\ event = NoEvent

(* An event that is placed where a token or a node's properties began.       *)
Event(e, p) == [e |-> e, at |-> p, ln |-> text[p].ln]
EmptyScalar(p) == [e |-> "scalar", at |-> p, ln |-> text[p].ln, v |-> <<>>, plain |-> TRUE,
                   anchor |-> <<>>, tag |-> <<>>]

Head_ == toks[1]
Parses(f) == phase = "ready" /\ event = NoEvent /\ state.f = f
Looks(kinds) == Head_.t \in kinds

(* get_token, or only peek_token.                                            *)
Take == /\ toks' = Tail(toks) /\ taken' = taken + 1 /\ phase' = "need"
        /\ UNCHANGED <<text, pos, line, indents, flow, simpleOk, keys, done, problem>>
Peek == UNCHANGED <<scanner, problem>>
RaiseHere == /\ Raise("parser")
             /\ UNCHANGED <<text, pos, line, toks, taken, indents, flow, simpleOk, keys, done>>
             /\ UNCHANGED parser

Goto(s) == state' = s
Return == state' = Top(states) /\ states' = Front(states)
Call(node, back) == state' = Node(node) /\ states' = Append(states, Next_(back))

(* ------------------------------- documents ------------------------------- *)
ParseStreamStart ==
    /\ Parses("stream start") /\ Take
    /\ Goto(Next_("implicit document start"))
    /\ UNCHANGED <<states, marks, props, event>>

ParseImplicitDocumentStart ==
    /\ Parses("implicit document start") /\ Peek
    /\ IF Looks({"Directive", "DocumentStart", "StreamEnd"})
       THEN Goto(Next_("document start")) /\ UNCHANGED <<states, event>>
       ELSE /\ event' = Event("document start", Head_.at)
            /\ Call("block", "document end")
    /\ UNCHANGED <<marks, props>>

(* process_directives: two YAML directives are an error.                     *)
ParseDocumentStart ==
    /\ Parses("document start") \/ Parses("directives")
    /\ \/ Looks({"DocumentEnd"}) /\ state.f = "document start"
          /\ Take /\ UNCHANGED parser
          \* the parser never comes here with a "..." ahead
       \/ Looks({"StreamEnd"}) /\ state.f = "document start"
          /\ Take /\ event' = Event("stream end", Head_.at) /\ Goto(Next_("done"))
          /\ UNCHANGED <<states, marks, props>>
       \/ Looks({"Directive"}) /\ state.f = "document start"
          /\ Take /\ Goto(Next_("directives"))
          /\ UNCHANGED <<states, marks, props, event>>
       \/ Looks({"DocumentStart"})
          /\ Take /\ event' = Event("document start", Head_.at)
          /\ Goto(Next_("document content"))
          /\ states' = Append(states, Next_("document end"))
          /\ UNCHANGED <<marks, props>>
       \/ /\ \/ ~Looks({"DocumentEnd", "StreamEnd", "Directive", "DocumentStart"})
             \/ state.f = "directives" /\ ~Looks({"DocumentStart"})
          /\ RaiseHere

(* A slip to check against: an empty document leaves its end on the stack.   *)
ParseDocumentContentKeeps ==
    /\ Parses("document content") /\ Peek
    /\ IF Looks({"Directive", "DocumentStart", "DocumentEnd", "StreamEnd"})
       THEN event' = EmptyScalar(Head_.at) /\ Goto(Top(states))
       ELSE Goto(Node("block")) /\ UNCHANGED event
    /\ UNCHANGED <<states, marks, props>>
ParseDocumentContent ==
    /\ Parses("document content") /\ Peek
    /\ IF Looks({"Directive", "DocumentStart", "DocumentEnd", "StreamEnd"})
       THEN event' = EmptyScalar(Head_.at) /\ Return
       ELSE Goto(Node("block")) /\ UNCHANGED <<states, event>>
    /\ UNCHANGED <<marks, props>>

(* After "..." the next document may begin without "---", but not on the     *)
(* same line.                                                                *)
ParseDocumentEnd ==
    /\ Parses("document end")
    /\ IF Looks({"DocumentEnd"})
       THEN Take /\ Goto([f |-> "document ended", ln |-> Head_.eln]) /\ UNCHANGED event
       ELSE Peek /\ event' = Event("document end", Head_.at) /\ Goto(Next_("document start"))
    /\ UNCHANGED <<states, marks, props>>

ParseDocumentEnded ==
    /\ Parses("document ended")
    /\ IF ~Looks({"StreamEnd"}) /\ state.ln = Head_.ln THEN RaiseHere
       ELSE /\ Peek /\ event' = Event("document end", Head_.at)
            /\ Goto(Next_("implicit document start"))
            /\ UNCHANGED <<states, marks, props>>

(* --------------------------------- nodes --------------------------------- *)
Located(e) == [e EXCEPT !.at = IF props.at # 0 THEN props.at ELSE @]
NodeEvent(e) == Located([e |-> e, at |-> Head_.at, ln |-> Head_.ln,
                         anchor |-> props.anchor, tag |-> props.tag])
Bare == props = NoProps

ParseAlias ==
    /\ Parses("node") /\ Looks({"Alias"}) /\ Bare
    /\ Take /\ event' = [e |-> "alias", at |-> Head_.at, ln |-> Head_.ln, v |-> Head_.v]
    /\ Return
    /\ UNCHANGED <<marks, props>>

(* An anchor and a tag, in either order, each once.                          *)
ParseProperty ==
    /\ Parses("node")
    /\ \/ Looks({"Anchor"}) /\ props.anchor = <<>>
          /\ props' = [props EXCEPT !.anchor = Head_.v, !.at = Head_.at]
       \/ Looks({"Tag"}) /\ props.tag = <<>>
          /\ props' = [props EXCEPT !.tag = Head_.v,
                                    !.at = IF props.at = 0 THEN Head_.at ELSE props.at]
    /\ Take
    /\ UNCHANGED <<state, states, marks, event>>

(* What a node may begin with, and the method that goes on with it.          *)
First == [k \in {"FlowSequenceStart", "FlowMappingStart",
                 "BlockSequenceStart", "BlockMappingStart"} |->
             CASE k = "FlowSequenceStart"  -> [e |-> "sequence", f |-> "flow sequence first"]
               [] k = "FlowMappingStart"   -> [e |-> "mapping",  f |-> "flow mapping first"]
               [] k = "BlockSequenceStart" -> [e |-> "sequence", f |-> "block sequence first"]
               [] k = "BlockMappingStart"  -> [e |-> "mapping",  f |-> "block mapping first"]]
Begins == IF state.kind = "flow" THEN {"FlowSequenceStart", "FlowMappingStart"}
          ELSE DOMAIN First

Indentless == state.kind = "indentless" /\ Looks({"BlockEntry"})
PropertyAhead == \/ Looks({"Anchor"}) /\ props.anchor = <<>>
                 \/ Looks({"Tag"}) /\ props.tag = <<>>
                 \/ Looks({"Alias"}) /\ Bare

ParseScalar ==
    /\ Parses("node") /\ Looks({"Scalar"})
    /\ Take
    /\ event' = NodeEvent("scalar") @@ [v |-> Head_.v, plain |-> Head_.plain]
    /\ Return /\ props' = NoProps
    /\ UNCHANGED marks

ParseCollection ==
    /\ Parses("node") /\ (Indentless \/ Looks(Begins))
    /\ Peek
    /\ IF Indentless
       THEN event' = NodeEvent("sequence") /\ Goto(Next_("indentless sequence"))
       ELSE event' = NodeEvent(First[Head_.t].e) /\ Goto(Next_(First[Head_.t].f))
    /\ props' = NoProps
    /\ UNCHANGED <<states, marks>>

(* Properties without content stand for an empty scalar.                     *)
ParseEmptyNode ==
    /\ Parses("node")
    /\ ~Indentless /\ ~PropertyAhead /\ ~Looks(Begins \cup {"Scalar"})
    /\ IF Bare THEN RaiseHere
       ELSE /\ Peek
            /\ event' = NodeEvent("scalar") @@ [v |-> <<>>, plain |-> props.tag = <<>>]
            /\ Return /\ props' = NoProps
            /\ UNCHANGED marks

(* ------------------------------ collections ------------------------------ *)
(* The first entry takes the token that opens the collection.                *)
Entry == [f \in {"flow sequence first", "flow mapping first",
                 "block sequence first", "block mapping first"} |->
             CASE f = "flow sequence first"  -> "flow sequence item"
               [] f = "flow mapping first"   -> "flow mapping item"
               [] f = "block sequence first" -> "block sequence"
               [] f = "block mapping first"  -> "block mapping key"]
ParseFirst ==
    /\ phase = "ready" /\ event = NoEvent /\ state.f \in DOMAIN Entry
    /\ Take /\ Goto(Next_(Entry[state.f])) /\ marks' = marks + 1
    /\ UNCHANGED <<states, props, event>>

(* The indicator that each method looks for, and what follows it: a node, to *)
(* return to another method, or nothing when one of the empties comes next.  *)
Rule(on, next, empties, node) == [on |-> on, item |-> Item(next, empties, node)]
Rules ==
    [f \in {"block sequence", "indentless sequence", "block mapping key",
            "block mapping value", "flow pair key", "flow pair value",
            "flow mapping item", "flow mapping value"} |->
        CASE f = "block sequence" ->
                Rule("BlockEntry", f, {"BlockEntry", "BlockEnd"}, "block")
          [] f = "indentless sequence" ->
                Rule("BlockEntry", f, {"BlockEntry", "Key", "Value", "BlockEnd"}, "block")
          [] f = "block mapping key" ->
                Rule("Key", "block mapping value", {"Key", "Value", "BlockEnd"}, "indentless")
          [] f = "block mapping value" ->
                Rule("Value", "block mapping key", {"Key", "Value", "BlockEnd"}, "indentless")
          [] f = "flow pair key" ->
                Rule("Key", "flow pair value", {"Value", "FlowEntry", "FlowSequenceEnd"}, "flow")
          [] f = "flow pair value" ->
                Rule("Value", "flow pair end", {"FlowEntry", "FlowSequenceEnd"}, "flow")
          [] f = "flow mapping item" ->
                Rule("Key", "flow mapping value", {"Value", "FlowEntry", "FlowMappingEnd"}, "flow")
          [] f = "flow mapping value" ->
                Rule("Value", "flow mapping key", {"FlowEntry", "FlowMappingEnd"}, "flow")]

ParseIndicator ==
    /\ phase = "ready" /\ event = NoEvent /\ state.f \in DOMAIN Rules
    /\ Looks({Rules[state.f].on})
    /\ Take /\ Goto(Rules[state.f].item)
    /\ UNCHANGED <<states, marks, props, event>>

ParseItem ==
    /\ Parses("item") /\ Peek
    /\ IF Looks(state.empties)
       THEN event' = EmptyScalar(Head_.at) /\ Goto(Next_(state.next)) /\ UNCHANGED states
       ELSE Call(state.node, state.next) /\ UNCHANGED event
    /\ UNCHANGED <<marks, props>>

(* A value without a key, a key without a value.                             *)
NextAfterNothing ==
    [f \in {"block mapping value", "flow mapping value", "flow pair value"} |->
        CASE f = "block mapping value" -> "block mapping key"
          [] f = "flow mapping value"  -> "flow mapping key"
          [] f = "flow pair value"     -> "flow pair end"]
ParseNothing ==
    /\ phase = "ready" /\ event = NoEvent
    /\ \/ /\ state.f \in DOMAIN NextAfterNothing /\ ~Looks({"Value"})
          /\ Goto(Next_(NextAfterNothing[state.f]))
       \/ /\ state.f \in {"block mapping key", "flow mapping item"} /\ Looks({"Value"})
          /\ Goto(Next_(IF state.f = "block mapping key" THEN "block mapping value"
                        ELSE "flow mapping value"))
       \/ /\ state.f = "flow mapping empty value"
          /\ Goto(Next_("flow mapping key"))
    /\ Peek /\ event' = EmptyScalar(Head_.at)
    /\ UNCHANGED <<states, marks, props>>

(* Flow collections: a comma between the items.                              *)
ParseComma ==
    /\ \/ Parses("flow sequence") /\ Looks({"FlowEntry"})
          /\ Goto(Next_("flow sequence item"))
       \/ Parses("flow mapping key") /\ Looks({"FlowEntry"})
          /\ Goto(Next_("flow mapping item"))
    /\ Take
    /\ UNCHANGED <<states, marks, props, event>>

ParseFlowItem ==
    /\ \/ /\ Parses("flow sequence item") /\ Looks({"Key"})
          /\ event' = [Event("mapping", Head_.at) EXCEPT !.ln = Head_.ln]
                      @@ [anchor |-> <<>>, tag |-> <<>>]
          /\ Goto(Next_("flow pair key")) /\ UNCHANGED states
       \/ /\ Parses("flow sequence item") /\ ~Looks({"Key", "FlowSequenceEnd"})
          /\ Call("flow", "flow sequence") /\ UNCHANGED event
       \/ /\ Parses("flow mapping item") /\ ~Looks({"Key", "Value", "FlowMappingEnd"})
          /\ Call("flow", "flow mapping empty value") /\ UNCHANGED event
    /\ Peek
    /\ UNCHANGED <<marks, props>>

ParsePairEnd ==
    /\ Parses("flow pair end") /\ Peek
    /\ event' = Event("mapping end", Head_.at) /\ Goto(Next_("flow sequence"))
    /\ UNCHANGED <<states, marks, props>>

(* The end of a collection.  An indentless sequence has no token of its own. *)
Closer == [f \in {"block sequence", "block mapping key", "flow sequence",
                  "flow sequence item", "flow mapping key", "flow mapping item"} |->
              CASE f \in {"block sequence", "block mapping key"}   -> "BlockEnd"
                [] f \in {"flow sequence", "flow sequence item"}   -> "FlowSequenceEnd"
                [] f \in {"flow mapping key", "flow mapping item"} -> "FlowMappingEnd"]
Ended == IF state.f \in {"block mapping key", "flow mapping key", "flow mapping item"}
         THEN "mapping end" ELSE "sequence end"
ParseEnd ==
    /\ phase = "ready" /\ event = NoEvent /\ state.f \in DOMAIN Closer
    /\ Looks({Closer[state.f]})
    /\ Take /\ event' = Event(Ended, Head_.at) /\ Return /\ marks' = marks - 1
    /\ UNCHANGED props

ParseIndentlessEnd ==
    /\ Parses("indentless sequence") /\ ~Looks({"BlockEntry"})
    /\ Peek /\ event' = Event("sequence end", Head_.at) /\ Return
    /\ UNCHANGED <<marks, props>>

(* expected <block end>; expected ',' or ']'; expected ',' or '}'            *)
ParseWrong ==
    /\ phase = "ready" /\ event = NoEvent
    /\ \/ state.f = "block sequence" /\ ~Looks({"BlockEntry", "BlockEnd"})
       \/ state.f = "block mapping key" /\ ~Looks({"Key", "Value", "BlockEnd"})
       \/ state.f = "flow sequence" /\ ~Looks({"FlowEntry", "FlowSequenceEnd"})
       \/ state.f = "flow mapping key" /\ ~Looks({"FlowEntry", "FlowMappingEnd"})
    /\ RaiseHere

Parsing == \/ ParseStreamStart \/ ParseImplicitDocumentStart \/ ParseDocumentStart
           \/ ParseDocumentContent \/ ParseDocumentEnd \/ ParseDocumentEnded
           \/ ParseAlias \/ ParseProperty \/ ParseScalar \/ ParseCollection
           \/ ParseEmptyNode \/ ParseFirst \/ ParseIndicator \/ ParseItem
           \/ ParseNothing \/ ParseComma \/ ParseFlowItem \/ ParsePairEnd
           \/ ParseEnd \/ ParseIndentlessEnd \/ ParseWrong

(* ------------------------------- properties ------------------------------ *)
(* The assertions of parse_document_start: when the stream has ended, nothing*)
(* is left to return to and no collection is open.                           *)
NothingLeftOpen == state.f = "done" => states = <<>> /\ marks = 0
=============================================================================

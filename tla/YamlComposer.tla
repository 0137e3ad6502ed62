----------------------------- MODULE YamlComposer -----------------------------
(***************************************************************************)
(* The composer and the round-trip constructor of the bundled ruamel.yaml: *)
(* events become the nodes of one document, aliases become second ways to  *)
(* the node they name, and merge keys lend a mapping the keys of others.   *)
(* When a document is complete its mappings are checked; of several faults *)
(* in one document any may be the one that is reported.                    *)
(***************************************************************************)
EXTENDS YamlParser

VARIABLES
    heap,       \* the nodes of the document, the root first
    open,       \* the collections that are not complete
    anchors,    \* anchor -> node
    docs        \* the documents that were constructed

composer == <<heap, open, anchors, docs>>

ComposerInit == heap = <<>> /\ open = <<>> /\ anchors = <<>> /\ docs = 0

(* A kid is a node and the place in the text where it is used: its own, or   *)
(* that of the alias.  A mapping has its keys and values in turn.            *)
Attached(id, at) ==
    IF open = <<>> THEN heap
    ELSE [heap EXCEPT ![Top(open)].kids = Append(@, [id |-> id, at |-> at])]

Takes(kinds) ==
    /\ phase # "raised" /\ event.e \in kinds
    /\ event' = NoEvent
    /\ UNCHANGED <<scanner, problem, state, states, marks, props>>

(* Anchors do not outlive their document.                                    *)
BeginDocument ==
    /\ Takes({"document start"})
    /\ heap' = <<>> /\ anchors' = <<>>
    /\ UNCHANGED <<open, docs>>

(* The anchor is known before the collection is complete, and a second one   *)
(* of the same name only earns a warning.                                    *)
ComposeNode ==
    /\ Takes({"scalar", "sequence", "mapping"})
    /\ LET id   == Len(heap) + 1
           leaf == event.e = "scalar"
       IN  /\ heap' = Append(Attached(id, event.at),
                             [kind |-> event.e, at |-> event.at, kids |-> <<>>,
                              v |-> IF leaf THEN event.v ELSE <<>>,
                              plain |-> leaf /\ event.plain, tagged |-> event.tag # <<>>])
           /\ anchors' = IF event.anchor = <<>> THEN anchors
                         ELSE (event.anchor[1] :> id) @@ anchors
           /\ open' = IF leaf THEN open ELSE Append(open, id)
    /\ UNCHANGED docs

(* An alias of a collection it stands in is constructed as null, unless that *)
(* collection is the root.                                                   *)
Null == 0
Unfinished(id) == \E j \in DOMAIN open : j > 1 /\ open[j] = id
ComposeAlias ==
    /\ event # NoEvent /\ event.e = "alias" /\ event.v[1] \in DOMAIN anchors
    /\ Takes({"alias"})
    /\ LET id == anchors[event.v[1]]
       IN  heap' = Attached(IF Unfinished(id) THEN Null ELSE id, event.at)
    /\ UNCHANGED <<open, anchors, docs>>

UndefinedAlias ==
    /\ phase # "raised"
    /\ event # NoEvent /\ event.e = "alias" /\ event.v[1] \notin DOMAIN anchors
    /\ Raise("composer")
    /\ UNCHANGED <<text, pos, line, toks, taken, indents, flow, simpleOk, keys, done>>
    /\ UNCHANGED <<parser, composer>>

CloseNode ==
    /\ Takes({"sequence end", "mapping end"})
    /\ open' = Front(open)
    /\ UNCHANGED <<heap, anchors, docs>>

(* ------------------------------ construction ----------------------------- *)
(* Plain scalars that are no strings: nothing, null, and a number.           *)
Nulls == {<<>>, <<"null">>}
NonStrings == Nulls \cup {<<"12">>}
Literal(n, values) == n.kind = "scalar" /\ n.plain /\ ~n.tagged /\ n.v \in values
IsNull(id) == id = Null \/ Literal(heap[id], Nulls)
IsString(id) ==
    id # Null /\ heap[id].kind = "scalar" /\ ~heap[id].tagged /\ ~Literal(heap[id], NonStrings)
IsMapping(id) == id # Null /\ heap[id].kind = "mapping"

(* What a key is equal to: a string its spelling, a null every other null, a *)
(* tagged scalar nothing but itself, a collection one of the same contents.  *)
IsCollection(id) == id # Null /\ heap[id].kind # "scalar"
Kids(id) == [j \in DOMAIN heap[id].kids |-> heap[id].kids[j].id]
Key(s, n, of) == [s |-> s, n |-> n, of |-> of]
LeafKey(id) == CASE IsString(id) -> Key(heap[id].v, -1, <<>>)
                 [] IsNull(id) -> Key(<<>>, Null, <<>>)
                 [] id # Null /\ Literal(heap[id], NonStrings \ Nulls) -> Key(heap[id].v, -2, <<>>)
                 [] OTHER -> Key(<<>>, id, <<>>)
KeyOf(id) == IF ~IsCollection(id) THEN LeafKey(id)
             ELSE Key(<<heap[id].kind>>, -3, [j \in DOMAIN heap[id].kids |-> LeafKey(Kids(id)[j])])
Str(word) == Key(<<word>>, -1, <<>>)

Pairs(id) == {j \in DOMAIN heap[id].kids : j % 2 = 1}
KeyAt(id, j) == heap[id].kids[j].id
ValueAt(id, j) == heap[id].kids[j + 1].id
IsMerge(id, j) == KeyAt(id, j) # Null /\ Literal(heap[KeyAt(id, j)], {<<"<<">>})
Merges(id) == {j \in Pairs(id) : IsMerge(id, j)}
OwnPairs(id) == Pairs(id) \ Merges(id)

(* flatten_mapping: the mappings a merge key names, in order.                *)
Lenders(v) == IF v # Null /\ heap[v].kind = "sequence"
              THEN Kids(v) ELSE <<v>>
BadMerge(id) == \E j \in Merges(id) : \E m \in ToSet(Lenders(ValueAt(id, j))) : ~IsMapping(m)
SecondMerge(id) == \E j, k \in Merges(id) : j < k /\ Lenders(ValueAt(id, j)) # <<>>
(* A collection with another one inside cannot be a key.                     *)
Hashable(id) == IsCollection(id) =>
    \A j \in DOMAIN heap[id].kids :
        IsCollection(Kids(id)[j]) =>
            heap[id].kind = "mapping" /\ (j % 2 = 1 \/ IsMerge(id, j - 1))
BadKey(id) == \E j \in OwnPairs(id) : ~Hashable(KeyAt(id, j))
(* check_mapping_key                                                         *)
Repeats(id) == \E j, k \in OwnPairs(id) : j < k /\ KeyOf(KeyAt(id, j)) = KeyOf(KeyAt(id, k))

Faults == {f \in {"duplicate key", "constructor"} :
             \E id \in {m \in DOMAIN heap : IsMapping(m)} :
                IF f = "constructor" THEN BadMerge(id) \/ BadKey(id)
                ELSE SecondMerge(id) \/ Repeats(id)}

(* The keys of a mapping: its own, then those of its lenders, the first one  *)
(* first; only its own have a place in the text.  A merge key that lends the *)
(* unfinished root lends the root's own keys.                                *)
NoPlace == 0
OwnKeys(id) ==
    [k \in {KeyOf(KeyAt(id, j)) : j \in OwnPairs(id)} |->
        LET j == CHOOSE x \in OwnPairs(id) : KeyOf(KeyAt(id, x)) = k
        IN  [id |-> ValueAt(id, j), at |-> heap[id].kids[j + 1].at, key |-> heap[id].kids[j].at]]
Lent(ks) == [k \in DOMAIN ks |-> [ks[k] EXCEPT !.at = NoPlace, !.key = NoPlace]]
(* A slip to check against: the last lender comes first.                     *)
LendersLastFirst(id) == FoldLeft(LAMBDA s, j : s \o Reverse(Lenders(ValueAt(id, j))), <<>>,
                                 SetToSortSeq(Merges(id), <))
LendersOf(id) == FoldLeft(LAMBDA s, j : s \o Lenders(ValueAt(id, j)), <<>>,
                          SetToSortSeq(Merges(id), <))
KeysOf[id \in DOMAIN heap] ==
    FoldLeft(LAMBDA ks, m : ks @@ Lent(IF m = 1 THEN OwnKeys(m) ELSE KeysOf[m]),
             OwnKeys(id), LendersOf(id))

EndDocument ==
    /\ phase # "raised" /\ event.e = "document end"
    /\ IF Faults = {}
       THEN Takes({"document end"}) /\ docs' = docs + 1
       ELSE /\ \E f \in Faults : Raise(f)
            /\ UNCHANGED <<text, pos, line, toks, taken, indents, flow, simpleOk, keys, done>>
            /\ UNCHANGED <<parser, docs>>
    /\ UNCHANGED <<heap, open, anchors>>

Composing == \/ BeginDocument \/ ComposeNode \/ ComposeAlias \/ UndefinedAlias
             \/ CloseNode \/ EndDocument
=============================================================================

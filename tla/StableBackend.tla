---------------------------- MODULE StableBackend -----------------------------
(***************************************************************************)
(* The structural backend: it loads a workflow with the bundled ruamel.yaml*)
(* and walks from the root to the two slots where `uses` is executed,      *)
(* jobs.<id>.uses and jobs.<id>.steps[<i>].uses.  Whatever on that way is  *)
(* not what it should be makes it refuse the whole file.                   *)
(***************************************************************************)
EXTENDS YamlComposer

StableInit == ScannerInit /\ ParserInit /\ ComposerInit

stable == <<scanner, problem, parser, composer>>

(* The pipeline pulls: an event is composed before the next one is parsed,   *)
(* and the parser asks the scanner for one token at a time.                  *)
ScanToken == /\ event = NoEvent /\ state.f # "done" /\ phase # "ready"
             /\ Scanning
             /\ UNCHANGED <<parser, composer>>
ParseEvent == Parsing /\ UNCHANGED composer
Loading == ScanToken \/ ParseEvent \/ Composing

Loaded == event # NoEvent /\ event.e = "stream end"

(* ---------------------------------- walk --------------------------------- *)
Uses == Str("uses")
Steps == Str("steps")
Jobs == Str("jobs")

(* _stable_nonstring_key: a key that may spell `uses` and is no string.      *)
OddKey(id) == \E k \in DOMAIN KeysOf[id] : k.n # -1

(* _stable_uses_pos: the value of an alias has the place of its anchor, and  *)
(* is moved to the alias when that anchor is on an earlier line.             *)
ColonAfter(p) == {q \in p..Len(text) : text[q].k = ":" /\ text[q].ln = text[p].ln}
UsesPlace(slot) ==
    LET value == heap[slot.id].at
        colon == CHOOSE q \in ColonAfter(slot.key) : \A r \in ColonAfter(slot.key) : q <= r
    IN  IF slot.key = NoPlace THEN NoPlace
        ELSE IF /\ text[value].ln < text[slot.key].ln
                /\ ColonAfter(slot.key) # {}
                /\ text[colon + 1].k = "*" /\ text[colon + 1].ln = text[colon].ln
        THEN colon + 1 ELSE value

(* _stable_emit                                                              *)
Code(c) == [refs |-> {}, codes |-> {c}]
NoUses == [refs |-> {}, codes |-> {}]
Both(a, b) == [refs |-> a.refs \cup b.refs, codes |-> a.codes \cup b.codes]
All(S, Op(_)) == [refs  |-> UNION {Op(x).refs : x \in S},
                  codes |-> UNION {Op(x).codes : x \in S}]
Emit(path, slot) ==
    IF ~IsString(slot.id) THEN Code("USES_NOT_STRING")
    ELSE [refs |-> {[path |-> path, target |-> heap[slot.id].v, at |-> UsesPlace(slot)]},
          codes |-> {}]
UsesOf(path, id) ==
    IF Uses \in DOMAIN KeysOf[id] THEN Emit(path, KeysOf[id][Uses]) ELSE NoUses

Step(path, id) == IF IsNull(id) THEN NoUses
                  ELSE IF ~IsMapping(id) THEN Code("STEP_NOT_MAPPING")
                  ELSE IF OddKey(id) THEN Code("NON_STRING_KEY")
                  ELSE UsesOf(path, id)
StepsOf(job, id) ==
    LET steps == KeysOf[id][Steps].id
    IN  IF Steps \notin DOMAIN KeysOf[id] \/ IsNull(steps) THEN NoUses
        ELSE IF heap[steps].kind # "sequence" THEN Code("STEPS_NOT_SEQUENCE")
        ELSE All(DOMAIN heap[steps].kids,
                 LAMBDA j : Step(<<job, j>>, heap[steps].kids[j].id))
Job(job, id) == IF IsNull(id) THEN NoUses
                ELSE IF ~IsMapping(id) THEN Code("JOB_NOT_MAPPING")
                ELSE IF OddKey(id) THEN Code("NON_STRING_KEY")
                ELSE Both(UsesOf(<<job>>, id), StepsOf(job, id))
Root == 1
Walk ==
    LET jobs == KeysOf[Root][Jobs].id
    IN  IF ~IsMapping(Root) THEN Code("ROOT_NOT_MAPPING")
        ELSE IF OddKey(Root) THEN Code("NON_STRING_KEY")
        ELSE IF Jobs \notin DOMAIN KeysOf[Root] \/ IsNull(jobs) THEN NoUses
        ELSE IF ~IsMapping(jobs) THEN Code("JOBS_NOT_MAPPING")
        ELSE IF OddKey(jobs) THEN Code("NON_STRING_KEY")
        ELSE All(DOMAIN KeysOf[jobs], LAMBDA k : Job(k.s, KeysOf[jobs][k].id))

(* parse_file: any error, and any document after the first, refuses the file.*)
Stable == IF phase = "raised" THEN Code(IF problem = "duplicate key" THEN "DUPLICATE_KEY"
                                        ELSE "YAML_PARSE_ERROR")
          ELSE IF docs > 1 THEN Code("MULTIPLE_DOCUMENTS")
          ELSE IF docs = 0 \/ IsNull(Root) THEN NoUses
          ELSE Walk
=============================================================================

------------------------------- MODULE LabScan --------------------------------
(***************************************************************************)
(* lab/0: the scanner that reads a workflow line by line and follows, by   *)
(* indentation, in which job and which step it is.  It refuses the file    *)
(* for whatever it does not model, and a net catches every line that looks *)
(* like `uses:` and was not placed.  A text is the one of YamlScanner.     *)
(***************************************************************************)
EXTENDS Integers, Sequences, FiniteSets

CONSTANT KeyLike    \* the words that fit the pattern of a key

VARIABLES
    text,
    next,       \* the first lexeme of the next line
    block,      \* [key, content]: the block scalar that is open, columns
    started,    \* doc_started
    marked,     \* doc_marker
    jobsOpen,
    topKeys,    \* top_keys_seen
    jobIds,
    place,      \* where among the jobs and steps the line is
    depth,      \* flow_depth
    frames,     \* the columns and the keys of the open block mappings
    refs,       \* the references so far
    codes       \* the errors so far

vars == <<text, next, block, started, marked, jobsOpen, topKeys, jobIds, place,
          depth, frames, refs, codes>>

None == -1
NoBlock == [key |-> None, content |-> None]
Nowhere == [job |-> <<>>, jobIndent |-> None, child |-> None, inSteps |-> FALSE,
            stepsIndent |-> None, item |-> None, step |-> 0, keys |-> None]

Init == /\ next = 1 /\ block = NoBlock /\ started = FALSE /\ marked = FALSE
        /\ jobsOpen = FALSE /\ topKeys = {} /\ jobIds = {} /\ place = Nowhere
        /\ depth = 0 /\ frames = <<>> /\ refs = {} /\ codes = {}

(* -------------------------------- the line ------------------------------- *)
OnLine(p) == p \in DOMAIN text /\ text[p].ln = text[next].ln
IsAt(p, kinds) == OnLine(p) /\ text[p].k \in kinds
After(p) == CHOOSE q \in p..Len(text) : ~OnLine(q) /\ \A r \in p..(q - 1) : OnLine(r)
LineEnd == After(next) - 1
Indent == text[next].col
Ended == text[next].k = "end"

(* Leading dashes, and what is left: a key and the value it has on the line. *)
Content == CHOOSE p \in next..(LineEnd + 1) :
              ~IsAt(p, {"-"}) /\ \A q \in next..(p - 1) : IsAt(q, {"-"})
Dashes == Content - next
Col == text[Content].col
HasKey == IsAt(Content, {"word"}) /\ text[Content].v \in KeyLike /\ IsAt(Content + 1, {":"})
KeyIs(word) == HasKey /\ text[Content].v = word
ThisKey == text[Content].v
Value == Content + 2
HasValue == HasKey /\ OnLine(Value) /\ ~IsAt(Value, {"#"})
QuotedKey == IsAt(Content, {"quoted"}) /\ IsAt(Content + 1, {":"})

NonStringWords == {"null", "12"}
NonStringKey == HasKey /\ ThisKey \in NonStringWords
Sigil(p) == IsAt(p, {"&", "*", "!"})

(* Where a comment, or the line, ends a scalar that begins at p.             *)
ScalarEnd(p) == CHOOSE q \in p..(LineEnd + 1) :
                   /\ q = LineEnd + 1 \/ IsAt(q, {"#"})
                   /\ \A r \in p..(q - 1) : ~IsAt(r, {"#"})
HalfQuoted(p) == IsAt(p, {"quote"}) \/ (IsAt(p, {"quoted"}) /\ ScalarEnd(p) # p + 1)
BlockHeader(p) == IsAt(p, {"|", ">"}) /\ ScalarEnd(p) = p + 1

(* _flow_delta: brackets outside of quotes, before a comment.                *)
Count(kinds, q) == Cardinality({p \in next..q : IsAt(p, kinds)})
Outside(p) == Count({"quote"}, p) % 2 = 0 /\ Count({"#"}, p) = 0
Delta == Cardinality({p \in next..LineEnd : Outside(p) /\ IsAt(p, {"[", "{"})})
         - Cardinality({p \in next..LineEnd : Outside(p) /\ IsAt(p, {"]", "}"})})
NewDepth == IF depth + Delta > 0 THEN depth + Delta ELSE 0

(* ------------------------- lines without structure ----------------------- *)
Unsupported == {"LAB_UNSUPPORTED_SYNTAX"}
InBody == block # NoBlock /\ Indent > block.key
Reads == ~Ended /\ ~InBody
Opaque == {"#", "---", "..."} \cup (IF started THEN {} ELSE {"%"})

ReadBody ==
    /\ ~Ended /\ InBody
    /\ block' = IF block.content = None THEN [block EXCEPT !.content = Indent] ELSE block
    /\ codes' = codes \cup (IF Indent < block.content THEN Unsupported ELSE {})
    /\ next' = After(next)
    /\ UNCHANGED <<text, started, marked, jobsOpen, topKeys, jobIds, place, depth,
                   frames, refs>>

(* A comment, a directive at the top, a document marker.                     *)
ReadOpaque ==
    /\ Reads /\ IsAt(next, Opaque)
    /\ marked' = (marked \/ IsAt(next, {"---"}))
    /\ codes' = codes \cup (IF \/ IsAt(next, {"%", "..."})
                               \/ IsAt(next, {"---"}) /\ (started \/ marked \/ LineEnd > next)
                            THEN Unsupported ELSE {})
    /\ next' = After(next) /\ block' = NoBlock
    /\ UNCHANGED <<text, started, jobsOpen, topKeys, jobIds, place, depth, frames, refs>>

ReadFlow ==
    /\ Reads /\ ~IsAt(next, Opaque) /\ depth > 0
    /\ codes' = codes \cup Unsupported
    /\ depth' = NewDepth
    /\ next' = After(next) /\ block' = NoBlock /\ started' = TRUE
    /\ UNCHANGED <<text, marked, jobsOpen, topKeys, jobIds, place, frames, refs>>

(* -------------------------- lines with structure ------------------------- *)
Structural == Reads /\ ~IsAt(next, Opaque) /\ depth = 0

(* A dash, or a key further left, closes the mappings that are deeper.       *)
Shallower(fs, col) == SelectSeq(fs, LAMBDA f : f.col <= col)
Dashed == IF Dashes > 0 THEN Shallower(frames, Indent) ELSE frames
Open == Shallower(Dashed, Col)
Same == Open # <<>> /\ Open[Len(Open)].col = Col
NewFrames == IF ~HasKey THEN Dashed
             ELSE IF Same THEN [Open EXCEPT ![Len(Open)].keys = @ \cup {ThisKey}]
             ELSE Append(Open, [col |-> Col, keys |-> {ThisKey}])
LineCodes == (IF HasKey /\ Same /\ ThisKey \in Open[Len(Open)].keys
              THEN {"DUPLICATE_KEY"} ELSE {})
             \cup (IF \/ HasValue /\ HalfQuoted(Value)
                      \/ ~HasKey /\ ~QuotedKey /\ HalfQuoted(Content)
                   THEN Unsupported ELSE {})

Opens == CASE HasValue /\ BlockHeader(Value) -> [key |-> Col, content |-> None]
           [] ~HasValue /\ Dashes > 0 /\ BlockHeader(Content) ->
                 [key |-> text[Content - 1].col, content |-> None]
           [] OTHER -> NoBlock

(* The suspicion net.                                                        *)
Suspect == \E p \in next..LineEnd : /\ IsAt(p, {"word", "quoted"}) /\ text[p].v = "uses"
                                    /\ IsAt(p + 1, {":"})
Unplaced == \/ jobsOpen /\ ~HasKey /\ Dashes = 0
            \/ Indent = 0 /\ Dashes > 0
            \/ Indent = 0 /\ ~HasKey /\ ~QuotedKey
(* A slip to check against: a line that looks like `uses:` is let through.   *)
NetTrusting == IF Unplaced THEN Unsupported ELSE {}
Net == IF Suspect THEN {"LAB_UNCLASSIFIED_USES"} ELSE IF Unplaced THEN Unsupported ELSE {}

Reading(opened) ==
    /\ next' = After(next) /\ started' = TRUE /\ depth' = NewDepth /\ frames' = NewFrames
    /\ block' = opened
    /\ UNCHANGED <<text, marked>>
(* `handled` lines pass the net.                                             *)
Finds(errors, handled) ==
    codes' = codes \cup LineCodes \cup errors \cup (IF handled THEN {} ELSE Net)

(* emit                                                                      *)
Spelled == [j \in 1..(ScalarEnd(Value) - Value) |-> text[Value + j - 1].v]
Unclear == \/ ~HasValue \/ HalfQuoted(Value) \/ Sigil(Value) \/ IsAt(Value, {"[", "{"})
           \/ BlockHeader(Value)
           \/ IsAt(Value, {"word"}) /\ Len(Spelled) = 1 /\ Spelled[1] \in NonStringWords
Emit(path) ==
    LET seen == \E r \in refs : r.path = path
    IN  /\ refs' = IF Unclear \/ seen THEN refs
                   ELSE refs \cup {[path |-> path, target |-> Spelled, at |-> Value]}
        /\ Finds(IF Unclear THEN {"LAB_UNCLASSIFIED_USES"}
                 ELSE IF seen THEN {"DUPLICATE_PATH"} ELSE {}, TRUE)

(* A quoted key among the jobs could spell `uses`; at column 0 it ends them. *)
ReadQuotedKey ==
    /\ Structural /\ jobsOpen /\ QuotedKey
    /\ IF Indent = 0 /\ Dashes = 0
       THEN jobsOpen' = FALSE /\ place' = Nowhere /\ codes' = codes \cup LineCodes
       ELSE codes' = codes \cup LineCodes \cup Unsupported /\ UNCHANGED <<jobsOpen, place>>
    /\ Reading(NoBlock)
    /\ UNCHANGED <<topKeys, jobIds, refs>>

(* Merge keys and complex keys.                                              *)
Injects == \/ IsAt(Content, {"word"}) /\ text[Content].v = "<<"
           \/ IsAt(Content, {"?"})
ReadMergeKey ==
    /\ Structural /\ jobsOpen /\ Injects
    /\ codes' = codes \cup LineCodes \cup Unsupported
    /\ Reading(NoBlock)
    /\ UNCHANGED <<jobsOpen, topKeys, jobIds, place, refs>>

Ordinary == Structural /\ ~(jobsOpen /\ (QuotedKey \/ Injects))
IsTop == HasKey /\ Dashes = 0 /\ Indent = 0

ReadTopKey ==
    /\ Ordinary /\ IsTop
    /\ Finds(IF ThisKey \in topKeys \/ NonStringKey THEN Unsupported ELSE {}, FALSE)
    /\ topKeys' = topKeys \cup {ThisKey}
    /\ jobsOpen' = (KeyIs("jobs") /\ ~HasValue)
    /\ place' = Nowhere
    /\ Reading(Opens)
    /\ UNCHANGED <<jobIds, refs>>

IsJobKey == Ordinary /\ jobsOpen /\ HasKey /\ Dashes = 0 /\ Indent > 0

ReadSigilKey ==
    /\ IsJobKey /\ HasValue /\ Sigil(Value)
    /\ Finds(Unsupported, TRUE)
    /\ Reading(Opens)
    /\ UNCHANGED <<jobsOpen, topKeys, jobIds, place, refs>>

NamesJob == place.jobIndent \in {None, Indent}
ReadJobKey ==
    /\ IsJobKey /\ ~(HasValue /\ Sigil(Value)) /\ NamesJob
    /\ place' = [Nowhere EXCEPT !.jobIndent = Indent, !.job = << <<ThisKey>> >>]
    /\ Finds(IF NonStringKey \/ ThisKey \in jobIds THEN Unsupported ELSE {}, FALSE)
    /\ jobIds' = jobIds \cup {ThisKey}
    /\ Reading(Opens)
    /\ UNCHANGED <<jobsOpen, topKeys, refs>>

(* A key of the job itself: `steps` opens the steps, `uses` is a slot.       *)
InJob == IsJobKey /\ ~(HasValue /\ Sigil(Value)) /\ ~NamesJob /\ Indent > place.jobIndent
ReadJobField ==
    /\ InJob /\ place.child \in {None, Indent}
    /\ LET field == [place EXCEPT !.child = Indent, !.inSteps = FALSE]
           odd   == IF NonStringKey THEN Unsupported ELSE {}
       IN  \/ /\ KeyIs("steps") /\ ~HasValue
              /\ place' = [field EXCEPT !.inSteps = TRUE, !.stepsIndent = Indent,
                                        !.item = None, !.step = 0, !.keys = None]
              /\ Finds({}, FALSE) /\ UNCHANGED refs
           \/ /\ KeyIs("steps") /\ HasValue
              /\ place' = field /\ Finds(Unsupported, TRUE) /\ UNCHANGED refs
           \/ /\ KeyIs("uses")
              /\ place' = field /\ Emit(place.job)
           \/ /\ ~KeyIs("steps") /\ ~KeyIs("uses")
              /\ place' = field /\ Finds(odd, FALSE) /\ UNCHANGED refs
    /\ Reading(Opens)
    /\ UNCHANGED <<jobsOpen, topKeys, jobIds>>

(* A key below the fields of the job: that of a step, or configuration.      *)
ReadStepKey ==
    /\ InJob /\ place.child # None /\ Indent > place.child
    /\ LET inStep == place.inSteps /\ place.item # None /\ place.step > 0
           column == IF inStep /\ place.keys = None /\ Indent > place.item
                     THEN Indent ELSE place.keys
       IN  /\ place' = [place EXCEPT !.keys = column]
           /\ IF inStep /\ Indent = column /\ KeyIs("uses")
              THEN Emit(Append(place.job, place.step))
              ELSE /\ Finds(IF inStep /\ Indent = column /\ NonStringKey
                            THEN Unsupported ELSE {}, FALSE)
                   /\ UNCHANGED refs
    /\ Reading(Opens)
    /\ UNCHANGED <<jobsOpen, topKeys, jobIds>>

ReadDedent ==
    /\ IsJobKey /\ ~(HasValue /\ Sigil(Value)) /\ ~NamesJob
    /\ \/ Indent < place.jobIndent
       \/ place.child # None /\ Indent < place.child
    /\ Finds(Unsupported, FALSE)
    /\ Reading(Opens)
    /\ UNCHANGED <<jobsOpen, topKeys, jobIds, place, refs>>

(* A sequence item: a step when it stands in the column of the steps.        *)
IsItem == Ordinary /\ jobsOpen /\ Dashes > 0
Column == IF place.item = None THEN Indent ELSE place.item
Left == IF place.item = None THEN Indent < place.stepsIndent ELSE Indent < place.item

ReadItem ==
    /\ IsItem /\ (place.inSteps => ~Left /\ Indent > Column)
    /\ Finds({}, FALSE)
    /\ Reading(Opens)
    /\ UNCHANGED <<jobsOpen, topKeys, jobIds, place, refs>>

ReadStrayItem ==
    /\ IsItem /\ place.inSteps
    /\ Left \/ (Indent = Column /\ Dashes > 1)
    /\ place' = IF Left THEN place ELSE [place EXCEPT !.item = Column]
    /\ Finds(Unsupported, TRUE)
    /\ Reading(Opens)
    /\ UNCHANGED <<jobsOpen, topKeys, jobIds, refs>>

ReadStep ==
    /\ IsItem /\ place.inSteps /\ ~Left /\ Indent = Column /\ Dashes = 1
    /\ place' = [place EXCEPT !.item = Column, !.step = @ + 1,
                              !.keys = IF HasKey THEN Col ELSE None]
    /\ IF \/ HasKey /\ HasValue /\ Sigil(Value)
          \/ ~HasKey /\ Sigil(Content)
       THEN Finds(Unsupported, TRUE) /\ UNCHANGED refs
       ELSE IF KeyIs("uses") THEN Emit(Append(place.job, place.step + 1))
       ELSE /\ Finds(IF NonStringKey THEN Unsupported ELSE {}, FALSE)
            /\ UNCHANGED refs
    /\ Reading(Opens)
    /\ UNCHANGED <<jobsOpen, topKeys, jobIds>>

(* Every other line is left to the net.                                      *)
ReadOther ==
    /\ Ordinary /\ ~IsTop
    /\ ~jobsOpen \/ (~HasKey /\ Dashes = 0)
    /\ Finds({}, FALSE)
    /\ Reading(Opens)
    /\ UNCHANGED <<jobsOpen, topKeys, jobIds, place, refs>>

ReadLine == \/ ReadBody \/ ReadOpaque \/ ReadFlow \/ ReadQuotedKey \/ ReadMergeKey
            \/ ReadTopKey \/ ReadSigilKey \/ ReadJobKey \/ ReadJobField \/ ReadStepKey
            \/ ReadDedent \/ ReadItem \/ ReadStrayItem \/ ReadStep \/ ReadOther

(* A flow collection that is still open when the file ends refuses it.       *)
Lab == [refs |-> refs, codes |-> codes \cup (IF depth > 0 THEN Unsupported ELSE {})]
=============================================================================

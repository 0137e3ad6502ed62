--------------------------- MODULE MCWorkflowParsers ---------------------------
(* Workflows for TLC, written as lines of lexemes and laid out by Layout.     *)
EXTENDS WorkflowClaims

(* ---------------------------------- layout ------------------------------- *)
Indicators == {":", "-", "?", ",", "[", "]", "{", "}", "#", "|", ">", "%", "@", "---", "..."}
Marked == [s \in {"&n", "*n", "&m", "*m", "!t", "'uses'", "'jobs'", "'a'", "'x@1'", "'"} |->
    CASE s = "&n" -> <<"&", "n">> [] s = "*n" -> <<"*", "n">>
      [] s = "&m" -> <<"&", "m">> [] s = "*m" -> <<"*", "m">>
      [] s = "!t" -> <<"!", "t">>
      [] s = "'uses'" -> <<"quoted", "uses">> [] s = "'jobs'" -> <<"quoted", "jobs">>
      [] s = "'a'" -> <<"quoted", "a">> [] s = "'x@1'" -> <<"quoted", "x@1">>
      [] s = "'" -> <<"quote", "'">>]
Kind(s) == IF s \in Indicators THEN s ELSE IF s \in DOMAIN Marked THEN Marked[s][1] ELSE "word"
Value(s) == IF s \in DOMAIN Marked THEN Marked[s][2] ELSE s

(* A line is its column and its lexemes; a ":" stands close to its key.      *)
Close(row, j) == j > 1 /\ row.of[j] = ":" /\ Kind(row.of[j - 1]) \in {"word", "quoted"}
Column_(row, j) == row.col + 2 * (j - 1) - Cardinality({i \in 1..j : Close(row, i)})
LexemesOf(row, n) ==
    [j \in DOMAIN row.of |-> [k |-> Kind(row.of[j]), v |-> Value(row.of[j]), ln |-> n,
                               col |-> Column_(row, j)]]
Layout(lines) ==
    FoldLeft(LAMBDA s, n : s \o LexemesOf(lines[n], n), <<>>, [n \in DOMAIN lines |-> n])
    \o << [k |-> "end", v |-> "end", ln |-> Len(lines) + 1, col |-> 0] >>

At(col, lexemes) == [col |-> col, of |-> lexemes]
Blank == At(0, <<>>)
Remark == At(0, <<"#", "c">>)
Noted(row) == [row EXCEPT !.of = @ \o <<"#", "c">>]

FewKeys == {"a", "b", "c", "uses", "jobs", "steps", "env", "with", "null", "12"}

(* ------------------------- one workflow, many layouts -------------------- *)
Use(path, target) == [path |-> path, target |-> <<target>>]
OfJob(job) == << <<job>> >>
OfStep(job, j) == <<<<job>>, j>>
(* `solid` lines may not be followed by anything that is put in.             *)
Sample(lines, solid, meant) == [lines |-> lines, solid |-> solid, meant |-> meant]
JobX == {Use(OfJob("a"), "x@1")}
StepX == {Use(OfStep("a", 1), "x@1")}

Samples == {
    \* block style, indented and indentless steps, a dash on its own line
    Sample(<<At(0, <<"jobs", ":">>), At(2, <<"a", ":">>), At(4, <<"uses", ":", "x@1">>),
             At(4, <<"with", ":">>), At(6, <<"uses", ":", "y@2">>)>>, {}, JobX),
    Sample(<<At(0, <<"jobs", ":">>), At(2, <<"a", ":">>), At(4, <<"steps", ":">>),
             At(4, <<"-", "c", ":", "c">>), At(6, <<"uses", ":", "x@1">>),
             At(4, <<"-", "uses", ":", "y@2">>)>>,
           {}, StepX \cup {Use(OfStep("a", 2), "y@2")}),
    Sample(<<At(0, <<"jobs", ":">>), At(2, <<"a", ":">>), At(4, <<"steps", ":">>),
             At(6, <<"-">>), At(8, <<"uses", ":", "x@1">>), At(2, <<"b", ":">>),
             At(4, <<"uses", ":", "y@2">>)>>, {}, StepX \cup {Use(OfJob("b"), "y@2")}),
    \* flow style, on one line and on many
    Sample(<<At(0, <<"jobs", ":", "{", "a", ":", "{", "uses", ":", "x@1", "}", "}">>)>>, {}, JobX),
    Sample(<<At(0, <<"jobs", ":", "{">>), At(1, <<"a", ":", "{", "steps", ":", "[">>),
             At(1, <<"{", "uses", ":">>), At(2, <<"x@1", "}", ",">>), At(1, <<"c", ":", "c", "]">>),
             At(1, <<"}", "}">>)>>, {}, StepX),
    \* quoted and explicit keys, tags on collections
    Sample(<<At(0, <<"'jobs'", ":">>), At(2, <<"?", "a">>), At(2, <<":", "'uses'", ":", "'x@1'">>)>>,
           {}, JobX),
    Sample(<<At(0, <<"---">>), At(0, <<"?", "jobs">>), At(0, <<":">>), At(2, <<"'a'", ":", "!t">>),
             At(4, <<"'uses'", ":">>), At(6, <<"x@1">>), At(0, <<"...">>)>>, {}, JobX),
    \* anchors: a scalar, a reused name, the steps of two jobs
    Sample(<<At(0, <<"env", ":", "&n", "x@1">>), At(0, <<"jobs", ":">>), At(2, <<"a", ":">>),
             At(4, <<"uses", ":", "*n">>)>>, {}, JobX),
    Sample(<<At(0, <<"env", ":", "[", "&n", "y@2", ",", "&n", "x@1", "]">>), At(0, <<"jobs", ":">>),
             At(2, <<"a", ":">>), At(4, <<"uses", ":">>), At(6, <<"*n">>)>>, {}, JobX),
    Sample(<<At(0, <<"jobs", ":">>), At(2, <<"a", ":">>), At(4, <<"steps", ":", "&n">>),
             At(4, <<"-", "uses", ":", "x@1">>), At(2, <<"b", ":">>), At(4, <<"steps", ":", "*n">>)>>,
           {}, StepX \cup {Use(OfStep("b", 1), "x@1")}),
    \* merge keys: a lender that is overridden, the first of two lenders
    Sample(<<At(0, <<"env", ":", "&n">>), At(2, <<"uses", ":", "x@1">>), At(0, <<"jobs", ":">>),
             At(2, <<"a", ":">>), At(4, <<"<<", ":", "*n">>), At(2, <<"b", ":">>),
             At(4, <<"<<", ":", "*n">>), At(4, <<"uses", ":", "y@2">>)>>,
           {}, JobX \cup {Use(OfJob("b"), "y@2")}),
    Sample(<<At(0, <<"env", ":", "[", "&n", "{", "uses", ":", "x@1", "}", ",">>),
             At(1, <<"&m", "{", "<<", ":", "*n", ",", "uses", ":", "y@2", "}", "]">>),
             At(0, <<"jobs", ":">>), At(2, <<"a", ":">>),
             At(4, <<"<<", ":", "[", "*n", ",", "*m", "]">>)>>, {}, JobX),
    \* scalars of several lines that only look like keys, and a long key
    Sample(<<At(0, <<"jobs", ":">>), At(2, <<"a", ":">>), At(4, <<"env", ":", "|">>),
             At(6, <<"uses", ":", "y@2">>), At(4, <<"uses", ":", "x@1">>)>>, {3, 4}, JobX),
    Sample(<<At(0, <<"%">>), At(0, <<"---">>), At(0, <<"jobs", ":">>), At(2, <<"a", ":">>),
             At(4, <<"uses", ":", ">">>), At(6, <<"x@1">>), At(2, <<"b", ":">>), At(0, <<"...">>)>>,
           {5, 6}, {[Use(OfJob("a"), "x@1") EXCEPT !.target = @ \o <<"break">>]}),
    Sample(<<At(0, <<"jobs", ":">>), At(2, <<"a", ":">>), At(4, <<"env", ":", "'", "c">>),
             At(6, <<"uses", ":", "y@2", "'">>), At(4, <<"uses", ":", "x@1">>)>>, {3}, JobX),
    Sample(<<At(0, <<"env", ":">>), At(2, <<"?", "[", "c", ",", "c", ",", "c", ",", "c", "]">>),
             At(2, <<":", "c">>),
             At(0, <<"jobs", ":">>), At(2, <<"a", ":">>), At(4, <<"uses", ":", "x@1">>)>>, {}, JobX)}

Gaps(s) == (0..Len(s.lines)) \ s.solid
Variants(s) ==
    {s.lines} \cup {InsertAt(s.lines, g + 1, l) : g \in Gaps(s), l \in {Blank, Remark}}
    \cup {InsertAt(InsertAt(s.lines, g + 1, l), g + 1, Blank) : g \in Gaps(s), l \in {Blank, Remark}}
    \cup {[s.lines EXCEPT ![g] = Noted(@)] : g \in Gaps(s) \ {0}}
Readings == UNION {{[text |-> Layout(v), meant |-> s.meant] : v \in Variants(s)} : s \in Samples}
SampleTexts == {r.text : r \in Readings}
SampleMeaning ==
    LET readings == Readings
    IN  [t \in {r.text : r \in readings} |-> (CHOOSE r \in readings : r.text = t).meant]

(* --------------- what may stand in a job, and what may not --------------- *)
Job1 == <<At(0, <<"jobs", ":">>), At(2, <<"a", ":">>)>>
Pool == {At(4, <<"steps", ":">>), At(4, <<"-", "uses", ":", "x@1">>), At(6, <<"uses", ":", "y@2">>),
         At(6, <<"-", "c", ":", "c">>), At(4, <<"-">>), At(8, <<"uses", ":", "x@1">>)}
WidePool == Pool \cup
    {At(4, <<"uses", ":", "x@1">>), At(4, <<"env", ":">>), At(6, <<"-", "uses", ":", "y@2">>),
     At(4, <<"with", ":", "'x@1'">>), At(2, <<"b", ":">>), At(4, <<"steps", ":", "[", "]">>),
     At(4, <<"'uses'", ":", "x@1">>), At(4, <<"-", "&n", "c">>),
     At(0, <<"'a'", ":", "c">>)}
JobTexts == {Layout(Job1 \o <<l, m, n>>) : l, m \in WidePool, n \in Pool}

Alphabet == {"a", ":", "-", "?", ",", "[", "]", "{", "}", "#", "|", "@", "%", "---", "...",
             "&n", "*n", "!t", "'"}
FaultyTexts ==
    {Layout(<<At(0, <<l, m>>), At(2, <<n>>)>>) :
        l, n \in Alphabet, m \in {"a", ":", "-", "[", "{", "'"}}
    \cup {Layout(<<At(0, <<"a", ":">>), At(0, <<l>>), At(0, <<m, "a">>)>>) : l, m \in Alphabet}

(* A target, and a line that may go on with it.                              *)
WrappedTexts ==
    {Layout(Job1 \o <<At(4, <<"uses", ":", "x@1">>), At(c, l)>>) :
        c \in {4, 6}, l \in {<<"c", ":", "c">>, <<"c">>, <<"-", "c">>, <<"#", "c">>}}
AllTexts == SampleTexts \cup JobTexts \cup FaultyTexts
=============================================================================

------------------------------ MODULE YamlScanner ------------------------------
(***************************************************************************)
(* The scanner of the bundled ruamel.yaml in round-trip mode: it cuts a    *)
(* text into tokens, guesses where a mapping key may have begun and        *)
(* inserts the KEY token there once the ":" turns up, and drops the        *)
(* comments from between the tokens that the parser is going to see.       *)
(*                                                                         *)
(* A text is a sequence of lexemes [k, v, ln, col]: k is an indicator      *)
(* character that stands by itself, "word", "quoted" (a quoted scalar on   *)
(* one line), "quote" (a double quote that opens or closes one), "---" or  *)
(* "..."; v is its spelling, ln and col its line and column.  The last one *)
(* is "end", on the line after the text.                                   *)
(***************************************************************************)
EXTENDS Integers, Sequences, FiniteSets, SequencesExt, Functions, TLC

CONSTANTS
    Texts,      \* the texts that are read
    KeyLimit    \* lexemes a simple key may be long (1024 characters in the code)

(* The lines of a text never go back; each ends in a line break, so that the *)
(* end of the text is on a line of its own, and there is nothing behind it.  *)
IsText(t) ==
    /\ Len(t) \in Nat \ {0} /\ DOMAIN t = 1..Len(t)
    /\ \A p \in DOMAIN t : /\ t[p].ln \in Nat \ {0}
                           /\ t[p].k = "end" <=> p = Len(t)
                           /\ p # Len(t) => t[p].ln < t[Len(t)].ln
    /\ \A p, q \in DOMAIN t : p <= q => t[p].ln <= t[q].ln

ASSUME TextsAssumption == KeyLimit \in Nat /\ \A t \in Texts : IsText(t)

VARIABLES
    text,
    pos,        \* the next lexeme
    line,       \* the line the reader is on
    toks,       \* tokens fetched and not taken yet
    taken,      \* tokens taken, the comments dropped among them
    indents,    \* the columns of the open block collections, -1 below them
    flow,       \* the open flow collections
    simpleOk,   \* allow_simple_key
    keys,       \* possible_simple_keys: flow level -> where a key may begin
    done,       \* the end of the stream was fetched
    phase,      \* how far check_token and get_token are with the next token
    problem     \* the part that raised an error

scanner == <<text, pos, line, toks, taken, indents, flow, simpleOk, keys, done, phase>>

Token(t, p) == [t |-> t, at |-> p, ln |-> text[p].ln, eln |-> text[p].ln,
                v |-> <<>>, plain |-> FALSE]

ScannerInit ==
    /\ text \in Texts
    /\ pos = 1 /\ line = 1 /\ taken = 0 /\ flow = <<>> /\ keys = <<>>
    /\ toks = <<Token("StreamStart", 1)>>
    /\ indents = <<-1>>
    /\ simpleOk = TRUE /\ done = FALSE /\ phase = "need" /\ problem = "none"

Here == text[pos]
Level == Len(flow)
InBlock == flow = <<>>
Top(s) == s[Len(s)]

Raise(part) == problem' = part /\ phase' = "raised"

(* ------------------------------ simple keys ------------------------------ *)
(* stale_possible_simple_keys: a key lies on one line and is not long.       *)
Stale(key, ln, p) == key.ln # ln \/ p - key.at > KeyLimit
Live(ln, p) == [l \in {m \in DOMAIN keys : ~Stale(keys[m], ln, p)} |-> keys[l]]
Expired(ln, p) == \E l \in DOMAIN keys : Stale(keys[l], ln, p) /\ keys[l].required

(* need_more_tokens: the next token may turn out to begin a key.             *)
Awaited(ks) == \E l \in DOMAIN ks : /\ ks[l].num = taken
                                    /\ \A m \in DOMAIN ks : ks[m].num >= taken
NeedMore == ~done /\ (toks = <<>> \/ Awaited(Live(line, pos)))

(* When fetch_more_tokens is called, and how check_token goes on after it.   *)
Calls == \/ phase \in {"need", "gather"} /\ NeedMore
         \/ phase \in {"prefetch", "refetch"}
Returns == CASE phase = "need" -> "need" [] phase = "gather" -> "drop"
             [] phase = "prefetch" -> "need" [] phase = "refetch" -> "posted"

(* ---------------------- one call of fetch_more_tokens -------------------- *)
(* scan_to_next_token: a comment, or blank lines, make a COMMENT token.      *)
CommentAhead == Here.k = "#" \/ Here.ln > line + 1
NextLine(p) == CHOOSE q \in p..Len(text) :
                  /\ text[q].ln > text[p].ln
                  /\ \A r \in p..(q - 1) : text[r].ln = text[p].ln

FetchComment ==
    /\ Calls /\ CommentAhead
    /\ LET blank == Here.ln > line + 1
           next  == IF blank THEN pos ELSE NextLine(pos)
       IN  /\ toks' = Append(toks, [Token("Comment", pos) EXCEPT
                                       !.ln = IF blank THEN line + 1 ELSE @])
           /\ pos' = next /\ line' = text[next].ln
    /\ simpleOk' = (simpleOk \/ InBlock)
    /\ phase' = Returns
    /\ UNCHANGED <<text, taken, indents, flow, keys, done, problem>>

(* A line break in block context allows a key.                               *)
Ok == simpleOk \/ (InBlock /\ Here.ln > line)
Ks == Live(Here.ln, pos)

(* unwind_indent: the indents grow, so the deeper ones are on top.           *)
Closed(col) == IF InBlock THEN Cardinality({j \in DOMAIN indents : indents[j] > col}) ELSE 0
Kept(col) == SubSeq(indents, 1, Len(indents) - Closed(col))
Unwound(col) == toks \o [j \in 1..Closed(col) |-> Token("BlockEnd", pos)]
Ind == Kept(Here.col)
Base == Unwound(Here.col)

(* add_indent                                                                *)
Deeper(col) == InBlock /\ Top(Ind) < col
Indented(col) == IF Deeper(col) THEN Append(Ind, col) ELSE Ind
Opening(t) == IF Deeper(Here.col) THEN Append(Base, Token(t, pos)) ELSE Base

(* remove_possible_simple_key and save_possible_simple_key                   *)
Required == Level \in DOMAIN Ks /\ Ks[Level].required
Without == [l \in DOMAIN Ks \ {Level} |-> Ks[l]]
(* A slip to check against: the key is saved before blocks are unwound.      *)
KeyHereEarly == [num |-> taken + Len(toks), required |-> InBlock /\ Top(Ind) = Here.col,
                 ln |-> Here.ln, at |-> pos, col |-> Here.col]
KeyHere == [num |-> taken + Len(Base), required |-> InBlock /\ Top(Ind) = Here.col,
            ln |-> Here.ln, at |-> pos, col |-> Here.col]
Saved == IF Ok THEN [l \in DOMAIN Ks \cup {Level} |-> IF l = Level THEN KeyHere ELSE Ks[l]]
         ELSE Ks
Unsavable == Ok /\ Required

(* What every fetch_... goes through, and what it leaves or raises.          *)
Fetches(kinds) == Calls /\ ~CommentAhead /\ Here.k \in kinds
Scan(bad, newToks, newIndents, newKeys, ok, next, ln) ==
    IF bad \/ Expired(Here.ln, pos)
    THEN /\ Raise("scanner")
         /\ UNCHANGED <<text, pos, line, toks, taken, indents, simpleOk, keys>>
    ELSE /\ toks' = newToks /\ indents' = newIndents /\ keys' = newKeys
         /\ simpleOk' = ok /\ pos' = next
         /\ line' = ln
         /\ phase' = Returns
         /\ UNCHANGED <<text, taken, problem>>

FetchStreamEnd ==
    /\ Fetches({"end"})
    /\ Scan(Required, Append(Unwound(-1), Token("StreamEnd", pos)), Kept(-1), <<>>,
            FALSE, pos, Here.ln)
    /\ done' = TRUE
    /\ UNCHANGED flow

(* scan_directive: a directive takes its whole line.                         *)
Directive == [token |-> Token("Directive", pos), next |-> NextLine(pos)]
FetchDirective ==
    /\ Fetches({"%"}) /\ Here.col = 0
    /\ Scan(Required, Append(Unwound(-1), Directive.token), Kept(-1), Without,
            FALSE, Directive.next, Here.ln + 1)
    /\ UNCHANGED <<flow, done>>

Marker(p) == text[p].k \in {"---", "..."} /\ text[p].col = 0
FetchDocumentIndicator ==
    /\ Fetches({"---", "..."}) /\ Here.col = 0
    /\ Scan(Required,
            Append(Unwound(-1), Token(IF Here.k = "---" THEN "DocumentStart"
                                      ELSE "DocumentEnd", pos)),
            Kept(-1), Without, FALSE, pos + 1, Here.ln)
    /\ UNCHANGED <<flow, done>>

FetchFlowStart ==
    /\ Fetches({"[", "{"})
    /\ Scan(Unsavable,
            Append(Base, Token(IF Here.k = "[" THEN "FlowSequenceStart"
                               ELSE "FlowMappingStart", pos)),
            Ind, Saved, TRUE, pos + 1, Here.ln)
    /\ flow' = Append(flow, Here.k)
    /\ UNCHANGED done

(* A bracket closes whatever is open, be it of the other kind.               *)
FetchFlowEnd ==
    /\ Fetches({"]", "}"})
    /\ Scan(Required,
            Append(Base, Token(IF Here.k = "]" THEN "FlowSequenceEnd"
                               ELSE "FlowMappingEnd", pos)),
            Ind, Without, FALSE, pos + 1, Here.ln)
    /\ flow' = IF InBlock THEN flow ELSE Front(flow)
    /\ UNCHANGED done

FetchFlowEntry ==
    /\ Fetches({","})
    /\ Scan(Required, Append(Base, Token("FlowEntry", pos)), Ind, Without, TRUE, pos + 1, Here.ln)
    /\ UNCHANGED <<flow, done>>

FetchBlockEntry ==
    /\ Fetches({"-"})
    /\ Scan((InBlock /\ ~Ok) \/ Required,
            Append(Opening("BlockSequenceStart"), Token("BlockEntry", pos)),
            Indented(Here.col), Without, TRUE, pos + 1, Here.ln)
    /\ UNCHANGED <<flow, done>>

FetchKey ==
    /\ Fetches({"?"})
    /\ Scan((InBlock /\ ~Ok) \/ Required,
            Append(Opening("BlockMappingStart"), Token("Key", pos)),
            Indented(Here.col), Without, InBlock, pos + 1, Here.ln)
    /\ UNCHANGED <<flow, done>>

(* The ":" of a simple key: KEY, and BLOCK-MAPPING-START before it, go in    *)
(* where the key began.                                                      *)
FetchSimpleValue ==
    /\ Fetches({":"}) /\ Level \in DOMAIN Ks
    /\ LET key   == Ks[Level]
           place == key.num - taken + 1
           keyed == InsertAt(Base, place, Token("Key", key.at))
           all   == IF Deeper(key.col)
                    THEN InsertAt(keyed, place, Token("BlockMappingStart", key.at))
                    ELSE keyed
       IN  Scan(FALSE, Append(all, Token("Value", pos)), Indented(key.col), Without,
                FALSE, pos + 1, Here.ln)
    /\ UNCHANGED <<flow, done>>

FetchValue ==
    /\ Fetches({":"}) /\ Level \notin DOMAIN Ks
    /\ Scan(InBlock /\ ~Ok,
            Append(Opening("BlockMappingStart"), Token("Value", pos)),
            Indented(Here.col), Ks, InBlock, pos + 1, Here.ln)
    /\ UNCHANGED <<flow, done>>

(* An alias, an anchor or a tag.                                             *)
Sigils == [c \in {"*", "&", "!"} |->
              CASE c = "*" -> "Alias" [] c = "&" -> "Anchor" [] c = "!" -> "Tag"]
FetchSigil ==
    /\ Fetches(DOMAIN Sigils)
    /\ Scan(Unsavable, Append(Base, [Token(Sigils[Here.k], pos) EXCEPT !.v = <<Here.v>>]),
            Ind, Saved, FALSE, pos + 1, Here.ln)
    /\ UNCHANGED <<flow, done>>

(* -------------------------------- scalars -------------------------------- *)
Scalar(q, spelling, plain) ==
    [Token("Scalar", pos) EXCEPT !.eln = text[q - 1].ln, !.v = spelling, !.plain = plain]
Spelling(p, q) == [j \in 1..(q - p) |-> text[p + j - 1].v]
FirstOf(p, Is(_)) == CHOOSE q \in p..Len(text) : Is(q) /\ \A r \in p..(q - 1) : ~Is(r)
NewLine(q) == text[q].ln > text[q - 1].ln

(* scan_plain: on over the line break while the next line is deeper than the *)
(* block that is open; most indicators are part of it after the first word.  *)
PlainBreaks(q) == Marker(q) \/ (InBlock /\ text[q].col <= Top(Ind))
PlainStops(q) ==
    \/ text[q].k \in {"end", "#", ":"}
    \/ ~InBlock /\ text[q].k \in {",", "[", "]", "{", "}"}
    \/ NewLine(q) /\ PlainBreaks(q)
BeginsPlain == Here.k = "word" \/ (Here.k \in {"---", "..."} /\ ~Marker(pos))
FetchPlain ==
    /\ Fetches({"word", "---", "..."}) /\ BeginsPlain
    /\ LET q == FirstOf(pos + 1, PlainStops)
       IN  Scan(Unsavable, Append(Base, Scalar(q, Spelling(pos, q), TRUE)), Ind, Saved,
                NewLine(q), q, text[q].ln)
    /\ UNCHANGED <<flow, done>>

(* scan_flow_scalar                                                          *)
Unquotes(q) == text[q].k \in {"quote", "end"} \/ (NewLine(q) /\ Marker(q))
Quoted == IF Here.k = "quoted" THEN [last |-> pos, v |-> <<Here.v>>]
          ELSE LET q == FirstOf(pos + 1, Unquotes)
               IN  [last |-> q, v |-> Spelling(pos + 1, q)]
FetchQuoted ==
    /\ Fetches({"quote", "quoted"})
    /\ LET q == Quoted.last
       IN  Scan(Unsavable \/ text[q].k \notin {"quote", "quoted"},
                Append(Base, Scalar(q + 1, Quoted.v, FALSE)), Ind, Saved, FALSE, q + 1,
                text[q].ln)
    /\ UNCHANGED <<flow, done>>

(* scan_block_scalar: the first line of the body sets the indentation, the   *)
(* first line that falls below it ends the body, and so does a document      *)
(* marker at the top level.  After blank lines, comments are part of it.     *)
Least == Top(Ind) + 1
Depth(first) == IF text[first].col > Least THEN text[first].col ELSE Least
Body ==
    LET first   == NextLine(pos)
        Ends(q) == \/ text[q].k = "end"
                   \/ (q = first \/ NewLine(q)) /\ text[q].col < Depth(first)
                   \/ q > first /\ Least = 0 /\ Marker(q)
        last    == FirstOf(first, Ends)
        Solid(q) == text[q].k # "#" /\ (q = last \/ NewLine(q))
    IN  [first |-> first, last |-> last,
         next  |-> IF text[last].ln > text[last - 1].ln + 1
                   THEN FirstOf(last, Solid) ELSE last]
HeaderIsBad == text[pos + 1].ln = Here.ln /\ text[pos + 1].k # "#"
FetchBlockScalar ==
    /\ Fetches({"|", ">"}) /\ InBlock
    /\ LET body == Body
       IN  Scan(Required \/ HeaderIsBad,
                Append(Base, Scalar(body.last, Append(Spelling(body.first, body.last), "break"),
                                    FALSE)),
                Ind, Without, TRUE, body.next, text[body.next].ln)
    /\ UNCHANGED <<flow, done>>

(* found character that cannot start any token                               *)
FetchNothing ==
    /\ \/ Fetches({"@"})
       \/ Fetches({"%"}) /\ Here.col # 0
       \/ Fetches({"|", ">"}) /\ ~InBlock
    /\ Raise("scanner")
    /\ UNCHANGED <<text, pos, line, toks, taken, indents, flow, simpleOk, keys, done>>

Fetch == \/ FetchComment \/ FetchStreamEnd \/ FetchDirective \/ FetchDocumentIndicator
         \/ FetchFlowStart \/ FetchFlowEnd \/ FetchFlowEntry \/ FetchBlockEntry
         \/ FetchKey \/ FetchSimpleValue \/ FetchValue \/ FetchSigil \/ FetchPlain
         \/ FetchQuoted \/ FetchBlockScalar \/ FetchNothing

(* ------------------------- the comments in between ----------------------- *)
IsComment(j) == Len(toks) >= j /\ toks[j].t = "Comment"
Drops(j) == toks' = RemoveAt(toks, j) /\ taken' = taken + 1
DropsIfComment == IF IsComment(1) THEN Drops(1) ELSE UNCHANGED <<toks, taken>>

(* check_token and _gather_comments: enough was fetched, and the comments    *)
(* before the next token are dropped.                                        *)
Gather ==
    /\ phase \in {"need", "gather"} /\ ~NeedMore
    /\ IF toks # <<>> /\ ~done /\ Expired(line, pos)
       THEN Raise("scanner") /\ UNCHANGED <<toks, taken, keys>>
       ELSE /\ keys' = IF done THEN keys ELSE Live(line, pos)
            /\ IF phase = "need" THEN DropsIfComment /\ phase' = "gather"
               ELSE /\ phase' = IF ~done /\ Len(toks) < 2 THEN "prefetch" ELSE "post"
                    /\ UNCHANGED <<toks, taken>>
            /\ UNCHANGED problem
    /\ UNCHANGED <<text, pos, line, indents, flow, simpleOk, done>>

DropComment ==
    /\ phase = "drop" /\ phase' = "gather"
    /\ DropsIfComment
    /\ UNCHANGED <<text, pos, line, indents, flow, simpleOk, keys, done, problem>>

(* get_token: the comments right after the token are attached to it.         *)
Attachable ==
    /\ IsComment(2)
    /\ \/ phase = "posted" \/ toks[1].t = "Scalar"
       \/ /\ toks[1].t \in {"Value", "FlowSequenceEnd", "FlowMappingEnd"}
          /\ toks[1].eln = toks[2].ln
(* A slip to check against: the comment is attached and stays in the queue.  *)
AttachCommentAgain ==
    /\ phase \in {"post", "posted"}
    /\ phase' = IF Attachable THEN "post" ELSE "ready"
    /\ UNCHANGED <<text, pos, line, toks, taken, indents, flow, simpleOk, keys, done, problem>>
AttachComment ==
    /\ phase \in {"post", "posted"}
    /\ IF Attachable THEN Drops(2) /\ phase' = "refetch"
       ELSE phase' = "ready" /\ UNCHANGED <<toks, taken>>
    /\ UNCHANGED <<text, pos, line, indents, flow, simpleOk, keys, done, problem>>

Scanning == Fetch \/ Gather \/ DropComment \/ AttachComment

(* ------------------------------- properties ------------------------------ *)
(* Where a simple key is pending, the token it was made for is still in the  *)
(* queue and stands where KEY would be inserted before it, whatever blocks   *)
(* were closed and whatever tokens and comments were taken out in between.   *)
KeyPointsAtItsToken ==
    \A l \in DOMAIN Live(line, pos) :
        LET place == keys[l].num - taken + 1
        IN  phase # "raised" =>
               place \in DOMAIN toks /\ toks[place].at = keys[l].at
                                     /\ toks[place].t \notin {"Comment", "BlockEnd"}
=============================================================================

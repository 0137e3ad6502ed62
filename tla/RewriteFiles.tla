------------------------------ MODULE RewriteFiles ------------------------------
(* The structural rewrite of the workflow files, step by step: list them,    *)
(* parse them all, prepare every candidate in memory, check each by parsing  *)
(* it again, then replace the files one by one and change them back if one   *)
(* cannot be replaced.  An editor may write, create or remove workflow files *)
(* meanwhile, and the process may die between any two steps.  Definitions    *)
(* whose names say how they go wrong are mutations, as in Locker.            *)
(*                                                                           *)
(* A text is what the parser makes of it: for each place the token that      *)
(* stands there, if it reads as the target of a use.  A token has the        *)
(* semantic paths it is a use for, none if it is an anchor or a text of      *)
(* another kind; a target; and the place where that is spelled out, its own  *)
(* or, if it is an alias, that of its anchor.  A step that is used again by  *)
(* an alias, and an alias on the line of its anchor, are reported where the  *)
(* anchor is, and are paths of the token there.  Quoting, comments and       *)
(* whatever else a replacement preserves are left out, and so are places     *)
(* inside a token.                                                           *)
EXTENDS Naturals, Sequences, FiniteSets

CONSTANTS
    Files,      \* the files' places in the listing order
    Lines,      \* where in a file a target may stand
    Paths,      \* semantic paths: jobs.<id>.steps[<i>].uses
    UseTargets, \* what a use refers to
    PinOf,      \* _rewrite_ref_map: the pinned target of each mutable one
    Written,    \* the texts an editor may leave in a file
    MaxEdits,   \* bound: how often the editor interferes
    Other,      \* nothing that reads as a target
    Nowhere,    \* the anchor of an alias that has none, and what it says
    Broken,     \* a text the parser rejects
    Gone,       \* no such file
    Unseen,     \* a file that is not being rewritten
    None        \* no exit code: still running, or killed

Token == ((SUBSET Paths) \X UseTargets \X Lines)
           \cup ((SUBSET Paths) \X {Nowhere} \X {Nowhere})

TokensIn(t)  == {l \in Lines : t[l] # Other}
UsesIn(t)    == {l \in TokensIn(t) : t[l][1] # {}}
AliasesIn(t) == {l \in TokensIn(t) : t[l][3] # l}

(* No path is read twice, and an alias says what its anchor says.  The       *)
(* parser rejects a text with an alias that has no anchor, and texts that    *)
(* are broken in other ways.                                                 *)
Drafts == {t \in [Lines -> Token \cup {Other}] :
             /\ \A l, m \in TokensIn(t) : t[l][1] \cap t[m][1] # {} => l = m
             /\ \A l \in TokensIn(t) : LET m == t[l][3]
                   IN  m # Nowhere => m \in TokensIn(t) /\ t[m][3] = m /\ t[m][2] = t[l][2]}

Parsed == {t \in Drafts : \A l \in TokensIn(t) : t[l][3] # Nowhere}

Texts == Drafts \cup {Broken}

ASSUME OrderedFiles == Files \subseteq Nat /\ IsFiniteSet(Files)

ASSUME PinsAssumption == /\ DOMAIN PinOf \subseteq UseTargets
                         /\ PinOf \in [DOMAIN PinOf -> UseTargets \ DOMAIN PinOf]

ASSUME MarksAssumption == /\ Other \notin Token
                          /\ Nowhere \notin Lines /\ Nowhere \notin UseTargets
                          /\ Broken \notin Drafts
                          /\ Gone \notin Texts
                          /\ Unseen \notin Texts \cup {Gone}
                          /\ None \notin {0, 1}

ASSUME EditsAssumption == Written \subseteq Texts \cup {Gone} /\ MaxEdits \in Nat

VARIABLES
    text,       \* what each file holds
    pc,         \* what the command does next, or "idle"
    listed,     \* the files as _cmd_rewrite_structural listed them
    again,      \* the files as _parse_for_production listed them
    results,    \* the texts it parsed, in that order
    next,       \* the place in the listing that is prepared next
    prepared,   \* the rewrites that passed every check
    committed,  \* how many of them stand
    staged,     \* the temporary file of the next replacement is written
    exit,       \* how the last command ended
    edits,      \* how often the editor interfered
    before,     \* the texts when the command began (history)
    touched,    \* the files the editor wrote since then (history)
    stuck       \* the files that could not be changed back (history)

planVars == <<listed, again, results>>
workVars == <<next, prepared, committed, staged>>
history  == <<before, touched, stuck>>
vars     == <<text, pc, planVars, workVars, exit, edits, history>>

-----------------------------------------------------------------------------
(* Texts and their pinned forms.                                             *)

PathsIn(t) == UNION {t[l][1] : l \in UsesIn(t)}

Wanted(target) == IF target \in DOMAIN PinOf THEN PinOf[target] ELSE target

(* The uses a replacement is due for.                                        *)
Mutable(t) == {l \in UsesIn(t) : t[l][2] \in DOMAIN PinOf}

(* A target that is pinned is spelled out where the use is; an alias that is *)
(* not a use says what its anchor says then.                                 *)
PinText(t) ==
    IF t \notin Parsed THEN t
    ELSE [l \in Lines |->
            IF l \in Mutable(t) THEN <<t[l][1], PinOf[t[l][2]], l>>
            ELSE IF l \in AliasesIn(t) /\ t[l][3] \in Mutable(t)
                 THEN <<t[l][1], PinOf[t[l][2]], t[l][3]>>
            ELSE t[l]]

(* The replacements are found in the parse result and located in the text    *)
(* that was read, by place.  The token there must be the target parsed       *)
(* there, unless it is an alias, which is not followed.                      *)

(* A slip to check against: no token is compared.                            *)
LocatedAnything(original, result) == TRUE

Located(original, result) ==
    original # Broken =>
        \A l \in Mutable(result) :
            /\ l \in TokensIn(original)
            /\ l \in AliasesIn(original) \/ original[l][2] = result[l][2]

(* What is written is the pin of the target that was parsed; an alias that   *)
(* is not replaced itself says what its anchor says now.                     *)
Candidate(original, result) ==
    IF original = Broken THEN Broken
    ELSE LET Spelled(l) == IF l \in Mutable(result) THEN l ELSE original[l][3]
         IN  [l \in Lines |->
                IF original[l] = Other \/ Spelled(l) \notin Mutable(result) THEN original[l]
                ELSE <<original[l][1], PinOf[result[Spelled(l)][2]], Spelled(l)>>]

(* The candidate is parsed again: it has the paths of the parse result, and  *)
(* each the target it had or is to have.                                     *)
Checks(candidate, result) ==
    /\ candidate \in Parsed
    /\ PathsIn(candidate) = PathsIn(result)
    /\ \A l \in UsesIn(result), m \in UsesIn(candidate) :
         candidate[m][1] \cap result[l][1] # {} => candidate[m][2] = Wanted(result[l][2])

-----------------------------------------------------------------------------
(* Listing and parsing.                                                      *)

(* What sorted(glob) returns: the files there are, in order.                 *)
Existing == {f \in Files : text[f] # Gone}

Listings == {s \in [1 .. Cardinality(Existing) -> Existing] :
               \A i, j \in DOMAIN s : i < j => s[i] < s[j]}

Cleared == /\ again' = <<>> /\ results' = <<>>
           /\ next' = 1 /\ prepared' = <<>> /\ committed' = 0 /\ staged' = FALSE
           /\ before' = text /\ touched' = {} /\ stuck' = {}

Start ==
    /\ pc = "idle"
    /\ pc' = "list"
    /\ listed' \in Listings
    /\ exit' = None
    /\ Cleared
    /\ UNCHANGED <<text, edits>>

Ends(code) ==
    /\ pc' = "idle"
    /\ listed' = <<>>
    /\ exit' = code
    /\ Cleared
    /\ UNCHANGED <<text, edits>>

ListAgain ==
    /\ pc = "list"
    /\ pc' = "parse"
    /\ again' \in Listings
    /\ UNCHANGED <<text, listed, results, workVars, exit, edits, history>>

Parse ==
    /\ pc = "parse"
    /\ Len(results) < Len(again)
    /\ results' = Append(results, text[again[Len(results) + 1]])
    /\ UNCHANGED <<text, pc, listed, again, workVars, exit, edits, history>>

(* A file that is gone or rejected, or, in compare mode, a disagreement.     *)
Reject ==
    /\ pc = "parse"
    /\ Len(results) = Len(again)
    /\ Ends(1)

AcceptAny ==
    /\ pc = "parse"
    /\ Len(results) = Len(again)
    /\ pc' = "prepare"
    /\ UNCHANGED <<text, planVars, workVars, exit, edits, history>>

Accept ==
    /\ pc = "parse"
    /\ Len(results) = Len(again)
    /\ \A i \in DOMAIN results : results[i] \in Parsed
    /\ pc' = "prepare"
    /\ UNCHANGED <<text, planVars, workVars, exit, edits, history>>

-----------------------------------------------------------------------------
(* Preparing, in memory: zip pairs the first listing with the results of the *)
(* second and stops at the shorter.  A file without a replacement is passed  *)
(* over.                                                                     *)

PairsDropLast == (IF Len(listed) < Len(results) THEN Len(listed) ELSE Len(results)) - 1

Pairs == IF Len(listed) < Len(results) THEN Len(listed) ELSE Len(results)

Prepare ==
    /\ pc = "prepare"
    /\ next <= Pairs
    /\ LET f         == listed[next]
           original  == text[f]
           result    == results[next]
           candidate == Candidate(original, result)
       IN  /\ original # Gone
           /\ \/ /\ Mutable(result) = {}
                 /\ UNCHANGED prepared
              \/ /\ Mutable(result) # {}
                 /\ Located(original, result)
                 /\ Checks(candidate, result)
                 /\ prepared' = Append(prepared, [file      |-> f,
                                                  original  |-> original,
                                                  candidate |-> candidate])
    /\ next' = next + 1
    /\ UNCHANGED <<text, pc, planVars, committed, staged, exit, edits, history>>

(* A check fails, or the file or a temporary directory cannot be used.       *)
Abort ==
    /\ pc = "prepare"
    /\ next <= Pairs
    /\ Ends(1)

Prepared ==
    /\ pc = "prepare"
    /\ next > Pairs
    /\ pc' = "commit"
    /\ UNCHANGED <<text, planVars, workVars, exit, edits, history>>

-----------------------------------------------------------------------------
(* Replacing.  _atomic_write_bytes looks the file up, writes and syncs a     *)
(* temporary one beside it, and renames that over it.                        *)

Current == IF pc = "commit" THEN prepared[committed + 1] ELSE prepared[committed]

Stage ==
    /\ \/ pc = "commit" /\ committed < Len(prepared)
       \/ pc = "restore" /\ committed > 0
    /\ ~staged
    /\ text[Current.file] # Gone
    /\ staged' = TRUE
    /\ UNCHANGED <<text, pc, planVars, next, prepared, committed, exit, edits, history>>

Replace ==
    /\ pc = "commit" /\ staged
    /\ text' = [text EXCEPT ![Current.file] = Current.candidate]
    /\ committed' = committed + 1
    /\ staged' = FALSE
    /\ UNCHANGED <<pc, planVars, next, prepared, exit, edits, history>>

(* Mutation: a file that cannot be replaced is tried again.                  *)
ReplaceRetries ==
    /\ pc = "commit" /\ committed < Len(prepared)
    /\ staged' = FALSE
    /\ UNCHANGED <<text, pc, planVars, next, prepared, committed, exit, edits, history>>

(* The file is gone, or a system call fails: change the others back.         *)
ReplaceFailsAtOnce ==
    /\ pc = "commit" /\ committed < Len(prepared)
    /\ Ends(1)

ReplaceFails ==
    /\ pc = "commit" /\ committed < Len(prepared)
    /\ pc' = "restore"
    /\ staged' = FALSE
    /\ UNCHANGED <<text, planVars, next, prepared, committed, exit, edits, history>>

Succeed ==
    /\ pc = "commit" /\ committed = Len(prepared)
    /\ Ends(0)

(* The last one replaced is changed back first.                              *)
RestoreLastPrepared ==
    /\ pc = "restore" /\ staged
    /\ text' = [text EXCEPT ![Current.file] = prepared[Len(prepared)].original]
    /\ committed' = committed - 1
    /\ staged' = FALSE
    /\ UNCHANGED <<pc, planVars, next, prepared, exit, edits, history>>

Restore ==
    /\ pc = "restore" /\ staged
    /\ text' = [text EXCEPT ![Current.file] = Current.original]
    /\ committed' = committed - 1
    /\ staged' = FALSE
    /\ UNCHANGED <<pc, planVars, next, prepared, exit, edits, history>>

(* An error while changing back is swallowed.                                *)
RestoreRetries ==
    /\ pc = "restore" /\ committed > 0
    /\ staged' = FALSE
    /\ stuck' = stuck \cup {Current.file}
    /\ UNCHANGED <<text, pc, planVars, next, prepared, committed, exit, edits,
                   before, touched>>

RestoreFails ==
    /\ pc = "restore" /\ committed > 0
    /\ stuck' = stuck \cup {Current.file}
    /\ committed' = committed - 1
    /\ staged' = FALSE
    /\ UNCHANGED <<text, pc, planVars, next, prepared, exit, edits, before, touched>>

RestoredEarly ==
    /\ pc = "restore" /\ committed <= 1
    /\ Ends(1)

Restored ==
    /\ pc = "restore" /\ committed = 0
    /\ Ends(1)

-----------------------------------------------------------------------------
(* What the program does not control.                                        *)

Crash ==
    /\ pc # "idle"
    /\ Ends(None)

Edit ==
    /\ edits < MaxEdits
    /\ edits' = edits + 1
    /\ \E f \in Files, t \in Written :
         /\ text' = [text EXCEPT ![f] = t]
         /\ touched' = IF pc = "idle" THEN {} ELSE touched \cup {f}
         /\ before' = IF pc = "idle" THEN text' ELSE before
    /\ UNCHANGED <<pc, planVars, workVars, exit, stuck>>

-----------------------------------------------------------------------------

Init ==
    /\ text \in [Files -> Written]
    /\ pc = "idle"
    /\ listed = <<>> /\ again = <<>> /\ results = <<>>
    /\ next = 1 /\ prepared = <<>> /\ committed = 0 /\ staged = FALSE
    /\ exit = None
    /\ edits = 0
    /\ before = text /\ touched = {} /\ stuck = {}

Step == \/ ListAgain \/ Parse \/ Reject \/ Accept
        \/ Prepare \/ Abort \/ Prepared
        \/ Stage \/ Replace \/ ReplaceFails \/ Succeed
        \/ Restore \/ RestoreFails \/ Restored

Next == Start \/ Step \/ Crash \/ Edit

Spec == Init /\ [][Next]_vars

FairSpec == Spec /\ WF_vars(Step)

-----------------------------------------------------------------------------
(* Every variable holds a value of its kind, and no more rewrites stand than *)
(* were prepared.                                                            *)
Rewrites == [file : Files, original : Texts, candidate : Texts]

TypeOK ==
    /\ text \in [Files -> Texts \cup {Gone}]
    /\ pc \in {"idle", "list", "parse", "prepare", "commit", "restore"}
    /\ listed \in Seq(Files) /\ again \in Seq(Files)
    /\ results \in Seq(Texts \cup {Gone})
    /\ pc \in {"prepare", "commit", "restore"} =>
         \A i \in DOMAIN results : results[i] \in Parsed
    /\ next \in Nat \ {0}
    /\ prepared \in Seq(Rewrites)
    /\ committed \in 0 .. Len(prepared)
    /\ staged \in BOOLEAN
    /\ staged => \/ pc = "commit" /\ committed < Len(prepared)
                 \/ pc = "restore" /\ committed > 0
    /\ exit \in {None, 0, 1}
    /\ edits \in 0 .. MaxEdits
    /\ before \in [Files -> Texts \cup {Gone}]
    /\ touched \subseteq Files /\ stuck \subseteq Files

(* A pinned use is pinned for what it refers to, in a text that is otherwise *)
(* as it was.  Where an alias stands it may be pinned for another target,    *)
(* and a token that is not a use may be pinned with the uses.                *)
PinnedAt(t, u, l, others) ==
    IF t[l] = Other THEN u[l] = Other
    ELSE /\ u[l] # Other /\ u[l][1] = t[l][1]
         /\ \/ u[l][2] = Wanted(t[l][2])
            \/ t[l][1] = {} /\ u[l][2] = t[l][2]
            \/ l \in AliasesIn(t) /\ u[l][2] \in others

Faithful(original, candidate, result) ==
    \A l \in Lines :
        PinnedAt(original, candidate, l,
                 IF l \in Mutable(result) THEN {PinOf[result[l][2]]} ELSE {})

(* What is about to replace a file is what was read from it with every use   *)
(* pinned that the map pins, and every other use as it was, even if the file *)
(* was edited after it was parsed or paired with another file's parse.  Only *)
(* an alias may be replaced by the pin of what was parsed at its place,      *)
(* which the file may no longer refer to, or never did.                      *)
PreparedFaithful ==
    \A i \in DOMAIN prepared, n \in 1 .. Pairs :
        prepared[i].file = listed[n] =>
            Faithful(prepared[i].original, prepared[i].candidate, results[n])

(* A rewrite that nobody disturbs and that exits 0 leaves every file pinned. *)
SuccessPinsAll ==
    [][pc = "commit" /\ exit' = 0 /\ touched = {} =>
         text' = [f \in Files |-> IF before[f] = Gone THEN Gone
                                                      ELSE PinText(before[f])]]_vars

(* One that refuses leaves the files it could change back as they were, and  *)
(* the others pinned.                                                        *)
RefusalUndoes ==
    [][pc # "idle" /\ exit' = 1 /\ touched = {} =>
         text' = [f \in Files |-> IF f \in stuck THEN PinText(before[f])
                                                 ELSE before[f]]]_vars

(* Whatever fails or interferes, files change only as wholes: the program    *)
(* implements the promise of PinFiles.                                       *)
Taken(f) == {i \in DOMAIN prepared : prepared[i].file = f}

SeenTexts == [f \in Files |-> IF Taken(f) = {} THEN Unseen
                              ELSE prepared[CHOOSE i \in Taken(f) : TRUE].original]

Replaced == {prepared[i].file : i \in 1 .. committed}

(* The forms a text may be pinned to: an alias by any pin of the map.        *)
FormsOf(t) == {u \in Parsed :
                 /\ t # Broken
                 /\ \A l \in Lines : PinnedAt(t, u, l, {PinOf[k] : k \in DOMAIN PinOf})}

PinnedTexts == [t \in Texts |-> FormsOf(t)]

Promise == INSTANCE PinFiles WITH
    Pinned <- PinnedTexts, seen <- SeenTexts, pinned <- Replaced

PromiseKept == Promise!Spec

(* At most so many steps are left: two listings; a parse and a check for     *)
(* each file; and for each rewrite that is prepared a staging and a          *)
(* replacement, and as much again to undo them.                              *)
Remaining ==
    LET half == IF staged THEN 1 ELSE 0
    IN  CASE pc = "idle"    -> 0
          [] pc = "list"    -> 6 * Cardinality(Files) + 5
          [] pc = "parse"   -> 6 * Len(again) - Len(results) + 4
          [] pc = "prepare" -> 5 * (Pairs + 1 - next) + 4 * Len(prepared) + 3
          [] pc = "commit"  -> 4 * Len(prepared) - 2 * committed - half + 2
          [] pc = "restore" -> 2 * committed - half + 1

(* Every step of a rewrite brings it nearer to its end, those that fail and  *)
(* those that undo what was done as well, and an editor does not put it off: *)
(* nothing is parsed, prepared, replaced or restored a second time.          *)
RewriteIsBounded ==
    [][IF edits' = edits THEN pc # "idle" => Remaining' < Remaining
                         ELSE Remaining' = Remaining]_vars

(* Every rewrite ends, its failures and its undoing included.                *)
RewriteEnds == pc # "idle" ~> pc = "idle"

=============================================================================

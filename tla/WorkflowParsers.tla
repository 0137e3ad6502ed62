--------------------------- MODULE WorkflowParsers ----------------------------
(***************************************************************************)
(* The two backends on one workflow: the structural one and lab/0 each     *)
(* read the same text, and compare mode sets their results side by side.   *)
(***************************************************************************)
EXTENDS StableBackend, ParserCompare

CONSTANTS
    KeyLike,    \* the words that fit the pattern of a key
    Meaning     \* what `uses` some of the texts were written to say

VARIABLES next, block, started, marked, jobsOpen, topKeys, jobIds, place, depth,
          frames, refs, codes

lab == <<next, block, started, marked, jobsOpen, topKeys, jobIds, place, depth,
         frames, refs, codes>>
vars == <<stable, lab>>

L == INSTANCE LabScan

Init == StableInit /\ L!Init

(* scan --parser compare runs one backend after the other.                   *)
StableDone == Loaded \/ phase = "raised"
Load == Loading /\ UNCHANGED lab
ReadLine == StableDone /\ L!ReadLine /\ UNCHANGED stable
Next == Load \/ ReadLine
Spec == Init /\ [][Next]_vars
(* Both backends run to their end without waiting for anything.              *)
FairSpec == Spec /\ WF_vars(Next)

Done == StableDone /\ L!Ended
Lab == L!Lab

(* ------------------------------- properties ------------------------------ *)
(* A workflow means the same in whatever layout it is written (block, flow,  *)
(* quoted or explicit keys, anchors and merges, comments and blank lines     *)
(* between any two lines): the structural backend accepts it and finds the   *)
(* uses it was written to say, in the right jobs and steps.                  *)
ReadsWhatWasMeant ==
    (Done /\ text \in DOMAIN Meaning) =>
        /\ Accepted(Stable)
        /\ {[path |-> r.path, target |-> r.target] : r \in Stable.refs} = Meaning[text]

(* No executable `uses` escapes the line scanner: when both backends accept  *)
(* a file they name the same slots, at the same places in the text.          *)
LabFindsEverySlot ==
    (Done /\ Accepted(Stable) /\ Accepted(Lab)) =>
        /\ Disagreements(Stable, Lab) \cap {"MISSING_REFERENCE", "EXTRA_REFERENCE"} = {}
        /\ {r.at : r \in Stable.refs} = {r.at : r \in Lab.refs}

(* Every text comes to its end in both backends: the scanner's look-ahead    *)
(* and the parser never wait for each other.                                 *)
ReadingEnds == <>Done
=============================================================================

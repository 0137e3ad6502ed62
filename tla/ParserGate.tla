------------------------------ MODULE ParserGate -------------------------------
(***************************************************************************)
(* The gate before every parse: scripts/vendor_ruamel.py copies ruamel.yaml*)
(* into the artifact and lists what it copied, the program compares the    *)
(* list with the copy before it imports any of it, and the commands and    *)
(* scan then run the backend they were told to.  The script may be killed  *)
(* at any step and a maintainer may touch the copy by hand.                *)
(***************************************************************************)
EXTENDS ParserCompare, Naturals, Sequences, Functions

CONSTANTS
    Modules,    \* the files of the package in the wheel that are imported
    Results,    \* what the two backends may find: [stable |-> ..., lab |-> ...]
    Workflows,  \* the workflow files
    Unsplit,    \* targets without an action and a ref that should have them
    MaxEdits    \* bound on what the maintainer does by hand

VARIABLES
    package,    \* the copy in _vendor: file -> what is in it
    links,      \* its files that are symbolic links
    embedded,   \* the manifest in the copy: pairs of a file and what is in it
    notices,    \* third_party: license, metadata, provenance
    listed,     \* the manifest there
    script,     \* what the script does next
    written,    \* how many of the Writes it has done
    code,       \* its exit status
    edits,      \* what was done by hand so far
    workflows   \* what the backends find in each workflow

copy == <<package, links, embedded>>
notes == <<notices, listed>>
vars == <<copy, notes, script, written, code, edits, workflows>>

Embedded == {"license", "metadata", "provenance"}
Files == Modules \cup Embedded
NoManifest == {}    \* or one that is no manifest

ASSUME ModulesAssumption == Modules # {}

Init == /\ package = <<>> /\ links = {} /\ embedded = NoManifest
        /\ notices = <<>> /\ listed = NoManifest
        /\ script = "idle" /\ written = 0 /\ code = 1 /\ edits = 0
        /\ workflows \in [Workflows -> Results]

(* manifest_text: every file with its hash, links followed.                  *)
ManifestText == {<<f, package[f]>> : f \in DOMAIN package}

(* ------------------------------ the script ------------------------------- *)
(* A wheel of another name or hash, or with unexpected metadata, changes     *)
(* nothing.                                                                  *)
StartVendor ==
    /\ script = "idle"
    /\ \/ script' = "remove" /\ UNCHANGED code
       \/ code' = 1 /\ UNCHANGED script
    /\ UNCHANGED <<copy, notes, written, edits, workflows>>

(* rmtree takes the files in any order, the manifest among them.             *)
Remove ==
    /\ script = "remove"
    /\ \/ \E f \in DOMAIN package :
             /\ package' = Restrict(package, DOMAIN package \ {f})
             /\ links' = links \ {f}
             /\ UNCHANGED <<embedded, script>>
       \/ embedded # NoManifest /\ embedded' = NoManifest /\ UNCHANGED <<package, links, script>>
       \/ /\ DOMAIN package = {} /\ embedded = NoManifest
          /\ script' = "copy" /\ UNCHANGED copy
    /\ UNCHANGED <<notes, written, code, edits, workflows>>

With(place, f, what) == [g \in DOMAIN place \cup {f} |-> IF g = f THEN what ELSE place[g]]
Put(f, what) == package' = With(package, f, what)
CopyModule ==
    /\ script = "copy"
    /\ \/ \E f \in Modules \ DOMAIN package : Put(f, "pinned") /\ UNCHANGED script
       \/ Modules \subseteq DOMAIN package /\ script' = "write" /\ UNCHANGED package
    /\ UNCHANGED <<links, embedded, notes, written, code, edits, workflows>>

(* What is written after the package, in this order; "m" is a manifest.      *)
In(place, file) == [place |-> place, file |-> file]
(* A slip to check against: the manifest is made before the last file is in. *)
WritesManifestFirst ==
    <<In("copy", "license"), In("third_party", "license"), In("third_party", "metadata"),
      In("third_party", "provenance"), In("copy", "metadata"), In("third_party", "m"),
      In("copy", "m"), In("copy", "provenance")>>
Writes ==
    <<In("copy", "license"), In("third_party", "license"), In("third_party", "metadata"),
      In("third_party", "provenance"), In("copy", "metadata"), In("copy", "provenance"),
      In("third_party", "m"), In("copy", "m")>>

Writing(w, what) ==
    CASE w.file = "m" /\ w.place = "copy" -> embedded' = what /\ UNCHANGED <<package, notes>>
      [] w.file = "m" /\ w.place # "copy" -> listed' = what /\ UNCHANGED <<package, embedded, notices>>
      [] w.file # "m" /\ w.place = "copy" -> Put(w.file, what) /\ UNCHANGED <<embedded, notes>>
      [] w.file # "m" /\ w.place # "copy" ->
            notices' = With(notices, w.file, what) /\ UNCHANGED <<package, embedded, listed>>
Write ==
    /\ script = "write"
    /\ LET w == Writes[written + 1]
       IN  Writing(w, IF w.file = "m" THEN ManifestText ELSE "pinned")
    /\ written' = written + 1
    /\ script' = IF written' = Len(Writes) THEN "check" ELSE "write"
    /\ UNCHANGED <<links, code, edits, workflows>>

(* check: the parts agree with each other and with the script's own pin.     *)
Same(file) == file \in DOMAIN package /\ file \in DOMAIN notices /\ package[file] = notices[file]
CheckPasses ==
    /\ "provenance" \in DOMAIN notices /\ notices["provenance"] = "pinned"
    /\ listed # NoManifest /\ listed = ManifestText
    /\ \A file \in Embedded : Same(file)
    /\ embedded = ManifestText

(* At the end of vendor, or by itself with --check.                          *)
Check ==
    /\ script \in {"idle", "check"} /\ script' = "idle"
    /\ code' = IF CheckPasses THEN 0 ELSE 1
    /\ written' = 0
    /\ UNCHANGED <<copy, notes, edits, workflows>>

(* A manifest that was cut short: its lines are in the order of the names,   *)
(* and those of the package come last.                                       *)
CutShort(part) == /\ part \subseteq ManifestText
                  /\ Modules \ {entry[1] : entry \in part} # {}
                  /\ \A m \in part, e \in ManifestText :
                        (m[1] \in Modules /\ e[1] \in Embedded) => e \in part

(* Killed, or failed by the disk, while it removes, copies or writes: a file *)
(* or a manifest is left with only its first part.                           *)
Crash ==
    /\ script \in {"remove", "copy", "write"} /\ script' = "idle" /\ code' = 1
    /\ written' = 0
    /\ \/ UNCHANGED <<package, embedded, notes>>
       \/ /\ script = "copy"
          /\ \E f \in Modules \ DOMAIN package : Put(f, "torn")
          /\ UNCHANGED <<embedded, notes>>
       \/ /\ script = "write"
          /\ LET w == Writes[written + 1]
             IN  IF w.file = "m"
                 THEN \E part \in SUBSET ManifestText : CutShort(part) /\ Writing(w, part)
                 ELSE Writing(w, "torn")
    /\ UNCHANGED <<links, edits, workflows>>

(* By hand: a file is changed, removed, or replaced by a link to its like.   *)
Edit ==
    /\ script = "idle" /\ edits < MaxEdits /\ edits' = edits + 1
    /\ \/ \E f \in Files : Put(f, "edited") /\ UNCHANGED <<links, notices>>
       \/ \E f \in DOMAIN package : /\ package' = Restrict(package, DOMAIN package \ {f})
                                    /\ links' = links \ {f} /\ UNCHANGED notices
       \/ \E f \in DOMAIN package : links' = links \cup {f} /\ UNCHANGED <<package, notices>>
       \/ \E f \in Embedded : notices' = With(notices, f, "edited") /\ UNCHANGED <<package, links>>
    /\ UNCHANGED <<embedded, listed, script, written, code, workflows>>

Next == StartVendor \/ Remove \/ CopyModule \/ Write \/ Check \/ Crash \/ Edit
Spec == Init /\ [][Next]_vars

(* ------------------------------ the program ------------------------------ *)
(* A slip to check against: files that are listed and gone are not missed.   *)
ValidIfPresent ==
    /\ embedded # NoManifest /\ links = {}
    /\ ManifestText \subseteq embedded
(* _vendored_parser_integrity_valid, asked before the import.                *)
Valid ==
    /\ embedded # NoManifest /\ links = {}
    /\ ManifestText \subseteq embedded
    /\ \A entry \in embedded : entry[1] \in DOMAIN package

(* stable_backend_available: the import finds the pinned release there.      *)
Available == Valid /\ Modules \subseteq DOMAIN package

Backends == {"lab", "stable", "compare"}
Settings == [option : Backends \cup {"none"}, env : Backends \cup {"none", "empty", "other"}]

Disagree == \E f \in Workflows : Disagreements(workflows[f].stable, workflows[f].lab) # {}
AllAccepted(backend) == \A f \in Workflows : Accepted(workflows[f][backend])
Exit(ok) == IF ok THEN 0 ELSE 1

(* cmd_scan and _cmd_scan_compare: the exit status.                          *)
ScanBackend(s) == IF s.option # "none" THEN s.option
                  ELSE IF s.env \notin {"none", "empty"} THEN s.env
                  ELSE "stable"
ScanCompareExit == IF ~Available THEN 4
                   ELSE IF Disagree THEN 3
                   ELSE Exit(AllAccepted("stable"))
ScanExit(s) ==
    CASE ScanBackend(s) \notin Backends -> 2
      [] ScanBackend(s) = "compare" -> ScanCompareExit
      [] ScanBackend(s) = "lab" -> Exit(AllAccepted("lab"))
      [] ScanBackend(s) = "stable" -> IF Available THEN Exit(AllAccepted("stable")) ELSE 4

(* _command_parser_name: a variable that is set and empty is not unset.      *)
CommandBackend(s) == IF s.option # "none" THEN s.option
                     ELSE IF s.env # "none" THEN s.env
                     ELSE "stable"
Authority(backend) == IF backend = "lab" THEN "lab" ELSE "stable"

Commands == {"lock", "verify", "rewrite"}
(* Only a command refuses these: rewrite takes no lab, and lock and verify   *)
(* take no use that cannot be split into an action and a ref.                *)
RefusesLab(command, s) == command = "rewrite" /\ CommandBackend(s) = "lab"
RefusesUses(command, s) ==
    /\ command # "rewrite"
    /\ \E f \in Workflows : \E use \in workflows[f][Authority(CommandBackend(s))].refs :
          use.target \in Unsplit

(* A slip to check against: a disagreement is reported and let through.      *)
GateExitLetsThrough(command, s) ==
    LET b == CommandBackend(s)
    IN  IF b \notin Backends \/ RefusesLab(command, s) THEN 2
        ELSE IF b # "lab" /\ ~Available THEN 4
        ELSE Exit(AllAccepted(Authority(b)) /\ ~RefusesUses(command, s))
(* The exit status with which _command_parser_name, cmd_rewrite,             *)
(* _parse_for_production and discover_workflow_actions end a command before  *)
(* it has the uses, 0 when it gets them; a rewrite is one that has pins to   *)
(* write, for without any it does not parse.                                 *)
GateExit(command, s) ==
    LET b == CommandBackend(s)
    IN  IF b \notin Backends \/ RefusesLab(command, s) THEN 2
        ELSE IF b # "lab" /\ ~Available THEN 4
        ELSE IF b = "compare" /\ Disagree THEN 3
        ELSE Exit(AllAccepted(Authority(b)) /\ ~RefusesUses(command, s))

(* ------------------------------- properties ------------------------------ *)
(* The program never imports half a package or one that was touched:         *)
(* whatever the script was killed at and whatever was done by hand, what     *)
(* passes for available is what was vendored, whole and unchanged.           *)
AvailableIsPinned == Available => package = [f \in Files |-> "pinned"]

(* A vendoring that comes to its end repairs whatever it found: its own      *)
(* check passes and the program takes the copy.                              *)
VendoringRepairs == script = "check" => CheckPasses /\ Available

(* A scan foretells what a command will do with the same settings: the two   *)
(* are written apart and end with the same status, and a command that goes   *)
(* on had a scan that exits 0.  They differ where only the command refuses:  *)
(* it stops, whatever the scan says.  (A variable that is set and empty is   *)
(* left out: scan takes stable for it and a command exits 2.)                *)
ScanForetells ==
    \A command \in Commands, s \in Settings :
        (s.env = "empty" => s.option # "none") =>
            IF RefusesLab(command, s) \/ RefusesUses(command, s)
            THEN GateExit(command, s) # 0
            ELSE GateExit(command, s) = ScanExit(s)
=============================================================================

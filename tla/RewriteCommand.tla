---------------------------- MODULE RewriteCommand ----------------------------
(* The rewrite command as Locker takes it: one step.  The files are those of *)
(* RewriteFiles, the lockfile is one of Locker's, and what stands on a line  *)
(* is what Locker says a slot refers to.                                     *)
EXTENDS RewriteFiles

CONSTANTS
    Actions,    \* the "owner/repo[/path]" parts of uses: targets
    Tags,       \* mutable refs
    Shas,       \* full commit hashes
    Locked,     \* the lockfile the command loaded
    NoUse,      \* a slot without an external action
    Torn        \* a truncated lockfile

(* cmd_rewrite goes no further without an entry, nor the structural rewrite  *)
(* without one for a mutable ref.                                            *)
ASSUME LockfileAssumption ==
    /\ Tags \cap Shas = {}
    /\ UseTargets = Actions \X (Tags \cup Shas)
    /\ NoUse \notin UseTargets
    /\ DOMAIN Locked \subseteq UseTargets
    /\ \A k \in DOMAIN Locked : Locked[k].resolved \in Shas
    /\ \E k \in DOMAIN Locked : k[2] \in Tags
    /\ Locked # Torn

(* _rewrite_ref_map.                                                         *)
ASSUME MapAssumption ==
    PinOf = [k \in {j \in DOMAIN Locked : j[2] \in Tags} |->
                <<k[1], Locked[k].resolved>>]

(* What the workflows refer to, file by file and line by line.  A file that  *)
(* is gone or cannot be parsed refers to nothing.                            *)
UseOn(t, l) == IF t \notin Parsed THEN NoUse
               ELSE IF l \in UsesIn(t) THEN t[l][2] ELSE NoUse

UsesOf(texts) == [s \in Files \X Lines |-> UseOn(texts[s[1]], s[2])]

(* While the command runs its work does not show, except where somebody else *)
(* has written a file.                                                       *)
Shown == [f \in Files |-> IF pc = "idle" \/ f \in touched THEN text[f] ELSE before[f]]

(* Locker counts a killed process among those that exit 1.                   *)
Status == IF exit = 0 THEN 0 ELSE 1

RewriteCall == [cmd |-> "rewrite", force |-> FALSE, fresh |-> FALSE, apply |-> FALSE]

(* Nothing else of Locker's state plays a part: its process is idle before   *)
(* the step and after it.                                                    *)
Command == INSTANCE Locker WITH
    Slots <- Files \X Lines, FileOf <- [s \in Files \X Lines |-> s[1]],
    Invocations <- {RewriteCall}, TypedRefs <- UseTargets,
    Repos <- Actions, RepoOf <- [a \in Actions |-> a],
    Rank <- [k \in UseTargets |-> 0], Trusted <- {},
    Series <- [t \in Tags |-> <<>>], MaxCandidates <- 2,
    Dirs <- {}, DirOf <- <<>>, Bindings <- {}, Retirable <- {}, Edited <- {},
    Absent <- Gone, Partial <- Broken, Tampered <- Unseen,
    uses <- UsesOf(Shown), lockfile <- Locked, exit <- Status,
    vendor <- <<>>, upstream <- <<>>, published <- {}, aged <- {},
    pc <- "idle", inv <- None, mem <- <<>>, todo <- {}, latest <- <<>>,
    failed <- FALSE, dirty <- FALSE, stage <- "edited"

-----------------------------------------------------------------------------
(* A file is paired with its own parse, or has no alias, which alone could   *)
(* take a target from the parse of another.                                  *)
OwnTargets(f) ==
    \/ before[f] \in Parsed /\ AliasesIn(before[f]) = {}
    \/ \A n \in 1 .. Pairs : listed[n] = f => again[n] = f

(* However many system calls it takes, which of them fails, and whether it   *)
(* finishes, gives up or is killed: seen from outside, a rewrite is the one  *)
(* step Locker takes for it.  Some of the files with a use to pin are pinned *)
(* as wholes, and exit 0 means all of them are.  Where somebody else writes  *)
(* files meanwhile this holds of the files he leaves alone, and only success *)
(* means nothing; but a file with aliases must not have been paired with     *)
(* the parse of another, listed before it came or went.                      *)
RewriteIsOneStep ==
    [][(/\ pc # "idle" /\ pc' = "idle"
        /\ \/ touched = {}
           \/ exit' # 0 /\ \A f \in Files \ touched : OwnTargets(f))
         => Command!Rewrite(RewriteCall)]_vars

=============================================================================

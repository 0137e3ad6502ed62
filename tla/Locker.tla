-------------------------------- MODULE Locker --------------------------------
(* The command line of action-locker run against one repository.             *)
(*                                                                           *)
(* One invocation runs at a time: lock, update, rewrite, vendor or verify.   *)
(* Each works through its keys in sorted order, keeps its own copy of the    *)
(* lockfile in memory and writes it back at the end, truncating the file     *)
(* first.  While it runs, upstream tags move or vanish, commits age past the *)
(* floor, lookups fail, and the process may die between any two steps.       *)
(* Between invocations a developer edits workflow files and the vendor tree. *)
(*                                                                           *)
(* Definitions whose names say how they go wrong (LockSkipForgets, ...) are   *)
(* mutations: nothing uses them but the runs that show a property can fail.  *)
(*                                                                           *)
(* A reference "owner/repo/path@ref" is a key <<action, ref>>, its ref a     *)
(* mutable name (Tags) or a full commit hash (Shas).                         *)
EXTENDS Naturals, FiniteSets, Sequences

CONSTANTS
    Actions,        \* the "owner/repo[/path]" parts of uses: targets
    Repos,          \* "owner/repo", what tags belong to
    RepoOf,         \* owner_repo_of: the repository of an action
    Tags,           \* mutable refs: tags and branches
    Shas,           \* full commit hashes
    Slots,          \* executable uses: positions in the workflow files
    Files,          \* workflow files
    FileOf,         \* the file a slot is in
    Rank,           \* place of a key in the string order of "action@ref"
    Trusted,        \* actions under a trusted_prefixes entry
    Series,         \* the release series of a ref, newest first
    MaxCandidates,  \* how many targets the quarantine looks at
    Dirs,           \* directories of the vendor tree
    DirOf,          \* vendor_dir_name: the directory of <<action, sha>>
    Invocations,    \* the command lines that may be typed
    Bindings,       \* the tag-to-commit bindings upstream may ever publish
    Retirable,      \* the tags upstream may delete
    TypedRefs,      \* the keys a developer may write in a workflow
    Edited,         \* the vendor directories a developer may meddle with
    None,           \* JSON null, a missing field, an unpublished tag
    NoUse,          \* a slot without an external action
    Absent,         \* a vendor directory that does not exist
    Partial,        \* a vendor directory whose copy was cut short
    Tampered,       \* a vendor directory edited by hand
    Torn            \* a truncated lockfile, which json.load refuses

Keys == Actions \X (Tags \cup Shas)

Action(k) == k[1]
Ref(k)    == k[2]

(* The tree a commit of an action unpacks to is the pair itself; tree_hash   *)
(* is taken as collision-free, so a recorded hash is the content it is of.   *)
Content == (Actions \X Shas) \cup {Partial, Tampered}

Entry == [resolved  : Shas,
          selected  : Tags \cup {None},
          integrity : Content \cup {None},
          at        : SUBSET Slots]

Invocation == [cmd   : {"lock", "update", "rewrite", "vendor", "verify"},
               force : BOOLEAN,
               fresh : BOOLEAN,      \* --allow-fresh
               apply : BOOLEAN]

ASSUME NamesAssumption ==
    /\ RepoOf \in [Actions -> Repos]
    /\ FileOf \in [Slots -> Files]
    /\ Tags \cap Shas = {}
    /\ Trusted \subseteq Actions
    /\ None \notin Shas \cup Tags \cup Content \cup {0, 1}
    /\ NoUse \notin Keys
    /\ Absent \notin Content
    /\ Partial \notin Actions \X Shas
    /\ Tampered \notin Actions \X Shas
    /\ \A D \in SUBSET Keys : Torn \notin [D -> Entry]

ASSUME OrderAssumption ==
    /\ Rank \in [Keys -> Nat]
    /\ \A j, k \in Keys : Rank[j] = Rank[k] => j = k

ASSUME QuarantineAssumption ==
    /\ Series \in [Tags -> Seq(Tags)]
    /\ MaxCandidates \in Nat \ {0, 1}

ASSUME FiniteWorkflows == IsFiniteSet(Slots)

ASSUME TreeAssumption == DirOf \in [Actions \X Shas -> Dirs]

ASSUME BoundsAssumption ==
    /\ Invocations \subseteq Invocation
    /\ Bindings \subseteq Repos \X Tags \X Shas
    /\ Retirable \subseteq Repos \X Tags
    /\ TypedRefs \subseteq Keys
    /\ Edited \subseteq Dirs

VARIABLES
    uses,       \* what each slot of the workflows refers to
    lockfile,   \* action-lock.json on disk
    vendor,     \* the content of each vendor directory
    upstream,   \* what each tag of each repository points at now
    published,  \* every binding a tag has ever had (history)
    aged,       \* the commits old enough to clear the age floor
    pc,         \* what the running invocation does next, or "idle"
    inv,        \* the running invocation, or None
    mem,        \* its lockdata["locked"]
    todo,       \* the keys it has not come to yet
    latest,     \* what it has resolved and not acted on
    failed,     \* it counted a failure
    dirty,      \* it has changed mem
    exit,       \* how the last invocation ended
    stage       \* how far the workflows got since the last edit (history)

repoVars  == <<uses, lockfile, vendor>>
worldVars == <<upstream, published, aged>>
runVars   == <<pc, inv, mem, todo, latest, failed, dirty, exit>>
vars      == <<repoVars, worldVars, runVars, stage>>

-----------------------------------------------------------------------------
(* Lockfiles: partial functions from keys to entries.                        *)

NoLocks == [k \in {} |-> None]

IsLocks(m) == DOMAIN m \subseteq Keys /\ m \in [DOMAIN m -> Entry]

Put(m, k, v) == [j \in DOMAIN m \cup {k} |-> IF j = k THEN v ELSE m[j]]
Drop(m, k)   == [j \in DOMAIN m \ {k} |-> m[j]]

(* What a lockfile pins, the rest of its entries left out.                   *)
PinsOf(m) == [k \in DOMAIN m |-> m[k].resolved]

UsedKeys == {uses[s] : s \in Slots} \ {NoUse}

(* An entry covers a pinned use when it resolved to that commit, whatever    *)
(* ref it is filed under.                                                    *)
Pins(m, k) == \E j \in DOMAIN m : /\ Action(j) = Action(k)
                                  /\ m[j].resolved = Ref(k)

(* Every use has an entry to be pinned from, or is pinned to an entry.       *)
Settled(k, m) == IF Ref(k) \in Shas THEN Pins(m, k) ELSE k \in DOMAIN m
Covers(m)     == \A k \in UsedKeys : Settled(k, m)

-----------------------------------------------------------------------------
(* The quarantine: candidate 0 is what the ref resolved to, then the tags of *)
(* its series, newest first, without repeats and at most MaxCandidates in    *)
(* all.  A commit is chosen when its age could be looked up and clears the   *)
(* floor.                                                                    *)

SeriesSha(k, i) == upstream[<<RepoOf[Action(k)], Series[Ref(k)][i]>>]

Fallbacks(k, sha) ==
    LET listed == {i \in DOMAIN Series[Ref(k)] :
                     /\ SeriesSha(k, i) \notin {None, sha}
                     /\ \A j \in 1 .. i - 1 : SeriesSha(k, j) # SeriesSha(k, i)}
    IN  {i \in listed :
           Cardinality({j \in listed : j < i}) + 2 <= MaxCandidates}

(* The choice among them, given whether the series is walked at all (the     *)
(* fallback is on and its listing arrived) and the commits whose age was     *)
(* learnt and clears the floor: a set of one pick, or none.                  *)
AgedFirstOnly(k, sha, walk, clear) ==
    LET older == IF walk /\ Ref(k) \in Tags THEN Fallbacks(k, sha) ELSE {}
    IN  IF sha \in clear
        THEN {[sha |-> sha, selected |-> None]}
        ELSE {[sha |-> SeriesSha(k, i), selected |-> Series[Ref(k)][i]] :
                i \in {i \in older : \A j \in older : i <= j}}

Aged(k, sha, walk, clear) ==
    LET older == IF walk /\ Ref(k) \in Tags
                 THEN {i \in Fallbacks(k, sha) : SeriesSha(k, i) \in clear}
                 ELSE {}
    IN  IF sha \in clear
        THEN {[sha |-> sha, selected |-> None]}
        ELSE {[sha |-> SeriesSha(k, i), selected |-> Series[Ref(k)][i]] :
                i \in {i \in older : \A j \in older : i <= j}}

Exempt(k) == inv.fresh \/ Action(k) \in Trusted

Targets(k, sha, walk, clear) ==
    IF Exempt(k) THEN {[sha |-> sha, selected |-> None]}
                 ELSE Aged(k, sha, walk, clear)

(* A ref is a commit already, or the lookup finds what upstream says now,    *)
(* or it fails.                                                              *)
Resolved(k) == IF Ref(k) \in Shas
               THEN {Ref(k)}
               ELSE {upstream[<<RepoOf[Action(k)], Ref(k)>>], None}

-----------------------------------------------------------------------------
(* What an invocation does at its beginning and end.                         *)

First(k) == k \in todo /\ \A j \in todo : Rank[k] <= Rank[j]

Load(i, phase, keys) ==
    /\ pc' = phase
    /\ inv' = i
    /\ mem' = lockfile
    /\ todo' = keys
    /\ latest' = NoLocks
    /\ failed' = FALSE
    /\ dirty' = FALSE
    /\ exit' = None

(* The process ends; nothing of its memory remains.                          *)
Ends(code) ==
    /\ pc' = "idle"
    /\ inv' = None
    /\ mem' = NoLocks
    /\ todo' = {}
    /\ latest' = NoLocks
    /\ failed' = FALSE
    /\ dirty' = FALSE
    /\ exit' = code

(* save_lockfile opens the file for writing, which empties it ...            *)
Truncate(m) ==
    /\ lockfile' = Torn
    /\ mem' = m
    /\ pc' = "save"
    /\ UNCHANGED <<uses, vendor, inv, todo, latest, failed, dirty, exit>>

(* ... and then writes it.  A lock or vendor that counted a failure still    *)
(* saves the rest and exits 1.                                               *)
Write ==
    /\ pc = "save"
    /\ lockfile' = mem
    /\ Ends(IF failed THEN 1 ELSE 0)
    /\ stage' = CASE inv.cmd = "vendor" -> stage
                  [] inv.cmd = "lock" /\ ~inv.force ->
                       IF stage = "edited" /\ ~failed THEN "locked" ELSE stage
                  [] OTHER -> "edited"
    /\ UNCHANGED <<uses, vendor, worldVars>>

(* Exits that change nothing: workflows the parser rejects, a malformed      *)
(* policy, a lockfile json.load cannot read, an empty lockfile.              *)
Refuse ==
    /\ pc = "idle"
    /\ exit' = 1
    /\ UNCHANGED <<pc, inv, mem, todo, latest, failed, dirty,
                   repoVars, worldVars, stage>>

NothingToDo(i) ==
    /\ pc = "idle"
    /\ \/ i.cmd = "lock" /\ UsedKeys = {}
       \/ /\ i.cmd = "rewrite"
          /\ lockfile \notin {Torn, NoLocks}
          /\ \A k \in DOMAIN lockfile : Ref(k) \in Shas
    /\ exit' = 0
    /\ UNCHANGED <<pc, inv, mem, todo, latest, failed, dirty,
                   repoVars, worldVars, stage>>

-----------------------------------------------------------------------------
(* lock: resolve every used ref the lockfile does not pin yet, or every one  *)
(* with --force, and put each through the quarantine.                        *)

StartLock(i) ==
    /\ pc = "idle"
    /\ i.cmd = "lock"
    /\ UsedKeys # {}
    /\ lockfile # Torn
    /\ Load(i, "lock", UsedKeys)
    /\ UNCHANGED <<repoVars, worldVars, stage>>

(* A commit another entry resolved to gets no entry of its own, not even     *)
(* under --force.                                                            *)
CoveredByName(k)   == \E j \in DOMAIN mem \ {k} : Action(j) = Action(k)
Covered(k) == \E j \in DOMAIN mem \ {k} : /\ Action(j) = Action(k)
                                         /\ mem[j].resolved = Ref(k)

LockSkipsCoveredOnly(k) == Ref(k) \in Shas /\ Covered(k)
LockSkips(k) ==
    \/ k \in DOMAIN mem /\ ~inv.force
    \/ Ref(k) \in Shas /\ Covered(k)

LockSkipForgets(k) ==
    /\ pc = "lock" /\ First(k) /\ k \notin DOMAIN latest
    /\ LockSkips(k)
    /\ UNCHANGED vars

LockSkip(k) ==
    /\ pc = "lock" /\ First(k) /\ k \notin DOMAIN latest
    /\ LockSkips(k)
    /\ todo' = todo \ {k}
    /\ UNCHANGED <<pc, inv, mem, latest, failed, dirty, exit,
                   repoVars, worldVars, stage>>

LockResolveUnchecked(k) ==
    /\ pc = "lock" /\ First(k) /\ k \notin DOMAIN latest
    /\ ~LockSkips(k)
    /\ \E sha \in Resolved(k) : latest' = Put(latest, k, sha)
    /\ UNCHANGED <<todo, pc, inv, mem, failed, dirty, exit,
                   repoVars, worldVars, stage>>

LockResolve(k) ==
    /\ pc = "lock" /\ First(k) /\ k \notin DOMAIN latest
    /\ ~LockSkips(k)
    /\ \E sha \in Resolved(k) :
         IF sha = None
         THEN /\ todo' = todo \ {k}
              /\ failed' = TRUE
              /\ UNCHANGED latest
         ELSE /\ latest' = Put(latest, k, sha)
              /\ UNCHANGED <<todo, failed>>
    /\ UNCHANGED <<pc, inv, mem, dirty, exit, repoVars, worldVars, stage>>

(* The entry is new but for the integrity hash, which stays with the commit  *)
(* it was computed for.                                                      *)
NewEntryDropsHash(k, p) ==
    [resolved |-> p.sha, selected |-> p.selected, integrity |-> None,
     at       |-> {s \in Slots : uses[s] = k}]

NewEntryKeepsHash(k, p) ==
    [resolved  |-> p.sha,
     selected  |-> p.selected,
     integrity |-> IF k \in DOMAIN mem THEN mem[k].integrity ELSE None,
     at        |-> {s \in Slots : uses[s] = k}]

NewEntry(k, p) ==
    [resolved  |-> p.sha,
     selected  |-> p.selected,
     integrity |-> IF k \in DOMAIN mem /\ mem[k].resolved = p.sha
                   THEN mem[k].integrity ELSE None,
     at        |-> {s \in Slots : uses[s] = k}]

LockPin(k) ==
    /\ pc = "lock" /\ First(k) /\ k \in DOMAIN latest
    /\ \E walk \in BOOLEAN, clear \in SUBSET aged :
         \E p \in Targets(k, latest[k], walk, clear) :
           mem' = Put(mem, k, NewEntry(k, p))
    /\ todo' = todo \ {k}
    /\ latest' = Drop(latest, k)
    /\ UNCHANGED <<pc, inv, failed, dirty, exit, repoVars, worldVars, stage>>

LockRefuse(k) ==
    /\ pc = "lock" /\ First(k) /\ k \in DOMAIN latest
    /\ \E walk \in BOOLEAN, clear \in SUBSET aged :
         Targets(k, latest[k], walk, clear) = {}
    /\ todo' = todo \ {k}
    /\ latest' = Drop(latest, k)
    /\ failed' = TRUE
    /\ UNCHANGED <<pc, inv, mem, dirty, exit, repoVars, worldVars, stage>>

(* An entry's locations are wherever its ref or its commit is used now; an   *)
(* entry no longer used keeps the ones it had.                               *)
OccurrencesByRef(k, m) == {s \in Slots : uses[s] = k}

Occurrences(k, m) ==
    {s \in Slots : /\ uses[s] # NoUse
                   /\ Action(uses[s]) = Action(k)
                   /\ Ref(uses[s]) \in {Ref(k), m[k].resolved}}

RefreshedPrunes(m) ==
    [k \in {j \in DOMAIN m : Occurrences(j, m) # {}} |->
        [m[k] EXCEPT !.at = Occurrences(k, m)]]

Refreshed(m) ==
    [k \in DOMAIN m |->
        IF Occurrences(k, m) = {} THEN m[k]
        ELSE [m[k] EXCEPT !.at = Occurrences(k, m)]]

LockSave ==
    /\ pc = "lock" /\ todo = {}
    /\ Truncate(Refreshed(mem))
    /\ UNCHANGED <<worldVars, stage>>

Lock(k) == LockSkip(k) \/ LockResolve(k) \/ LockPin(k) \/ LockRefuse(k)

-----------------------------------------------------------------------------
(* update: ask upstream about every tag first; then, with --apply, move the  *)
(* outdated entries to what was learnt, again through the quarantine.        *)

StartUpdate(i) ==
    /\ pc = "idle"
    /\ i.cmd = "update"
    /\ lockfile \notin {Torn, NoLocks}
    /\ Load(i, "check", {k \in DOMAIN lockfile : Ref(k) \in Tags})
    /\ UNCHANGED <<repoVars, worldVars, stage>>

UpdateCheck(k) ==
    /\ pc = "check" /\ First(k)
    /\ \E sha \in Resolved(k) :
         latest' = IF sha \in {None, mem[k].resolved} THEN latest
                                                     ELSE Put(latest, k, sha)
    /\ todo' = todo \ {k}
    /\ UNCHANGED <<pc, inv, mem, failed, dirty, exit, repoVars, worldVars, stage>>

UpdateApply ==
    /\ pc = "check" /\ todo = {}
    /\ IF inv.apply /\ latest # NoLocks
       THEN /\ pc' = "apply"
            /\ todo' = DOMAIN latest
            /\ UNCHANGED <<inv, mem, latest, failed, dirty, exit>>
       ELSE Ends(0)
    /\ UNCHANGED <<repoVars, worldVars, stage>>

(* A moved entry loses the hash of the content it no longer pins.            *)
MovedKeepsHash(e, p)     == [e EXCEPT !.resolved = p.sha, !.selected = p.selected]
MovedKeepsSelected(e, p) ==
    [e EXCEPT !.resolved = p.sha,
              !.selected = IF p.selected = None THEN e.selected ELSE p.selected,
              !.integrity = None]

Moved(e, p) == [e EXCEPT !.resolved = p.sha,
                         !.selected = p.selected,
                         !.integrity = None]

UpdateMove(k) ==
    /\ pc = "apply" /\ First(k)
    /\ \E walk \in BOOLEAN, clear \in SUBSET aged :
         \E p \in Targets(k, latest[k], walk, clear) :
           /\ p.sha # mem[k].resolved
           /\ mem' = Put(mem, k, Moved(mem[k], p))
    /\ todo' = todo \ {k}
    /\ dirty' = TRUE
    /\ UNCHANGED <<pc, inv, latest, failed, exit, repoVars, worldVars, stage>>

(* SKIPPED: nothing clears the floor.  HELD: what clears it is pinned now.   *)
UpdateKeep(k) ==
    /\ pc = "apply" /\ First(k)
    /\ \E walk \in BOOLEAN, clear \in SUBSET aged :
         \A p \in Targets(k, latest[k], walk, clear) : p.sha = mem[k].resolved
    /\ todo' = todo \ {k}
    /\ UNCHANGED <<pc, inv, mem, latest, failed, dirty, exit,
                   repoVars, worldVars, stage>>

UpdateSave ==
    /\ pc = "apply" /\ todo = {}
    /\ IF dirty THEN Truncate(mem)
                ELSE Ends(0) /\ UNCHANGED repoVars
    /\ UNCHANGED <<worldVars, stage>>

Update(k) == UpdateCheck(k) \/ UpdateMove(k) \/ UpdateKeep(k)

-----------------------------------------------------------------------------
(* vendor: unpack every locked commit that has no directory yet (or all of   *)
(* them with --force) and record the hash of what was unpacked.              *)

DirFor(k, m) == DirOf[<<Action(k), m[k].resolved>>]

StartVendor(i) ==
    /\ pc = "idle"
    /\ i.cmd = "vendor"
    /\ lockfile \notin {Torn, NoLocks}
    /\ Load(i, "vendor", DOMAIN lockfile)
    /\ UNCHANGED <<repoVars, worldVars, stage>>

VendorSkip(k) ==
    /\ pc = "vendor" /\ First(k)
    /\ vendor[DirFor(k, mem)] # Absent /\ ~inv.force
    /\ todo' = todo \ {k}
    /\ UNCHANGED <<pc, inv, mem, latest, failed, dirty, exit,
                   repoVars, worldVars, stage>>

(* The download or the unpacking fails, the subpath is not in the archive,   *)
(* or the old directory cannot be removed.                                   *)
VendorFail(k) ==
    /\ pc = "vendor" /\ First(k)
    /\ vendor[DirFor(k, mem)] = Absent \/ inv.force
    /\ todo' = todo \ {k}
    /\ failed' = TRUE
    /\ UNCHANGED <<pc, inv, mem, latest, dirty, exit, repoVars, worldVars, stage>>

(* The old directory goes and the copy begins ...                            *)
VendorCopy(k) ==
    /\ pc = "vendor" /\ First(k)
    /\ vendor[DirFor(k, mem)] = Absent \/ inv.force
    /\ vendor' = [vendor EXCEPT ![DirFor(k, mem)] = Partial]
    /\ pc' = "copy"
    /\ UNCHANGED <<inv, mem, todo, latest, failed, dirty, exit,
                   uses, lockfile, worldVars, stage>>

Pristine(k, m) == <<Action(k), m[k].resolved>>

(* ... it completes and its hash is recorded, even if the metadata file then *)
(* cannot be written ...                                                     *)
VendorRecord(k) ==
    /\ pc = "copy" /\ First(k)
    /\ vendor' = [vendor EXCEPT ![DirFor(k, mem)] = Pristine(k, mem)]
    /\ mem' = Put(mem, k,
                  [mem[k] EXCEPT !.integrity = vendor'[DirFor(k, mem)]])
    /\ dirty' = TRUE
    /\ failed' \in {failed, TRUE}
    /\ todo' = todo \ {k}
    /\ pc' = "vendor"
    /\ UNCHANGED <<inv, latest, exit, uses, lockfile, worldVars, stage>>

VendorBreakRetries(k) ==
    /\ pc = "copy" /\ First(k)
    /\ \E left \in {Absent, Partial, Pristine(k, mem)} :
         vendor' = [vendor EXCEPT ![DirFor(k, mem)] = left]
    /\ failed' = TRUE
    /\ pc' = "vendor"
    /\ UNCHANGED <<todo, inv, mem, latest, dirty, exit,
                   uses, lockfile, worldVars, stage>>

(* ... or it, or the hashing, fails: no hash, and whatever was copied stays. *)
VendorBreakUncounted(k) ==
    /\ pc = "copy" /\ First(k)
    /\ \E left \in {Absent, Partial, Pristine(k, mem)} :
         vendor' = [vendor EXCEPT ![DirFor(k, mem)] = left]
    /\ todo' = todo \ {k}
    /\ pc' = "vendor"
    /\ UNCHANGED <<inv, mem, latest, failed, dirty, exit,
                   uses, lockfile, worldVars, stage>>

VendorBreak(k) ==
    /\ pc = "copy" /\ First(k)
    /\ \E left \in {Absent, Partial, Pristine(k, mem)} :
         vendor' = [vendor EXCEPT ![DirFor(k, mem)] = left]
    /\ failed' = TRUE
    /\ todo' = todo \ {k}
    /\ pc' = "vendor"
    /\ UNCHANGED <<inv, mem, latest, dirty, exit,
                   uses, lockfile, worldVars, stage>>

VendorSave ==
    /\ pc = "vendor" /\ todo = {}
    /\ IF dirty THEN Truncate(mem)
                ELSE /\ Ends(IF failed THEN 1 ELSE 0)
                     /\ UNCHANGED repoVars
    /\ UNCHANGED <<worldVars, stage>>

Vendor(k) == VendorSkip(k) \/ VendorFail(k) \/ VendorCopy(k)
               \/ VendorRecord(k) \/ VendorBreak(k)

-----------------------------------------------------------------------------
(* rewrite: pin every mutable use the lockfile has an entry for.  The files  *)
(* change one by one; a refusal changes none, a write error may leave some   *)
(* changed and exits 1.                                                      *)

Pinned(k) == IF k \in DOMAIN lockfile /\ Ref(k) \in Tags
             THEN <<Action(k), lockfile[k].resolved>> ELSE k

Affected == {FileOf[s] : s \in {t \in Slots : Pinned(uses[t]) # uses[t]}}

Rewrite(i) ==
    /\ pc = "idle"
    /\ i.cmd = "rewrite"
    /\ lockfile \notin {Torn, NoLocks}
    /\ \E k \in DOMAIN lockfile : Ref(k) \in Tags
    /\ \E changed \in SUBSET Affected :
         /\ uses' = [s \in Slots |-> IF FileOf[s] \in changed
                                     THEN Pinned(uses[s]) ELSE uses[s]]
         /\ exit' \in IF changed = Affected THEN {0, 1} ELSE {1}
    /\ stage' = IF stage = "locked" /\ exit' = 0 THEN "pinned" ELSE stage
    /\ UNCHANGED <<pc, inv, mem, todo, latest, failed, dirty,
                   lockfile, vendor, worldVars>>

-----------------------------------------------------------------------------
(* verify: offline, it reads the workflows, the lockfile and the vendor tree.*)

(* Every use is pinned to a locked commit, or mutable and trusted.           *)
RefsVerify(m) ==
    \A k \in UsedKeys : IF Ref(k) \in Shas THEN Pins(m, k)
                                            ELSE Action(k) \in Trusted

(* known_dirs maps a directory to the last entry of that name.               *)
Owners(d, m) == {k \in DOMAIN m : DirFor(k, m) = d}
KnownAs(d, m) == CHOOSE k \in Owners(d, m) :
                   \A j \in Owners(d, m) : Rank[j] <= Rank[k]

VendorVerifiesNames(m) ==
    \A d \in Dirs : vendor[d] # Absent => Owners(d, m) # {}

VendorVerifies(m) ==
    \A d \in Dirs : vendor[d] # Absent =>
        /\ Owners(d, m) # {}
        /\ m[KnownAs(d, m)].integrity \in {None, vendor[d]}

Verify(i) ==
    /\ pc = "idle"
    /\ i.cmd = "verify"
    /\ lockfile \notin {Torn, NoLocks}
    /\ exit' = IF RefsVerify(lockfile) /\ VendorVerifies(lockfile) THEN 0 ELSE 1
    /\ UNCHANGED <<pc, inv, mem, todo, latest, failed, dirty,
                   repoVars, worldVars, stage>>

-----------------------------------------------------------------------------
(* What the program does not control.                                        *)

(* The process is killed, or an exception nobody catches ends it.            *)
Crash ==
    /\ pc # "idle"
    /\ Ends(1)
    /\ UNCHANGED <<repoVars, worldVars, stage>>

(* Upstream publishes a tag, moves one, or deletes one.                      *)
MoveTag ==
    /\ \E b \in Bindings :
         /\ upstream' = [upstream EXCEPT ![<<b[1], b[2]>>] = b[3]]
         /\ published' = published \cup {b}
    /\ UNCHANGED <<repoVars, runVars, aged, stage>>

RetireTag ==
    /\ \E t \in Retirable : upstream' = [upstream EXCEPT ![t] = None]
    /\ UNCHANGED <<repoVars, runVars, published, aged, stage>>

GrowOld ==
    /\ \E sha \in Shas \ aged : aged' = aged \cup {sha}
    /\ UNCHANGED <<repoVars, runVars, upstream, published, stage>>

(* A developer edits a workflow, meddles with the vendor tree, or removes a  *)
(* lockfile the program can no longer read.                                  *)
EditUse ==
    /\ pc = "idle"
    /\ \E s \in Slots, k \in TypedRefs \cup {NoUse} : uses' = [uses EXCEPT ![s] = k]
    /\ stage' = "edited"
    /\ UNCHANGED <<lockfile, vendor, runVars, worldVars>>

EditVendor ==
    /\ pc = "idle"
    /\ \E d \in Edited, c \in {Absent, Tampered} : vendor' = [vendor EXCEPT ![d] = c]
    /\ UNCHANGED <<uses, lockfile, runVars, worldVars, stage>>

RemoveTorn ==
    /\ pc = "idle"
    /\ lockfile = Torn
    /\ lockfile' = NoLocks
    /\ stage' = "edited"
    /\ UNCHANGED <<uses, vendor, runVars, worldVars>>

-----------------------------------------------------------------------------

Init ==
    /\ uses \in [Slots -> TypedRefs \cup {NoUse}]
    /\ lockfile = NoLocks
    /\ vendor = [d \in Dirs |-> Absent]
    /\ upstream \in [Repos \X Tags -> Shas \cup {None}]
    /\ published = {b \in Bindings : upstream[<<b[1], b[2]>>] = b[3]}
    /\ \A t \in Repos \X Tags :
         upstream[t] # None => <<t[1], t[2], upstream[t]>> \in published
    /\ aged \in SUBSET Shas
    /\ pc = "idle"
    /\ inv = None
    /\ mem = NoLocks
    /\ todo = {}
    /\ latest = NoLocks
    /\ failed = FALSE
    /\ dirty = FALSE
    /\ exit = None
    /\ stage = "edited"

Begin(i) == \/ NothingToDo(i) \/ StartLock(i) \/ StartUpdate(i) \/ StartVendor(i)
            \/ Rewrite(i) \/ Verify(i)

Step == \/ \E k \in Keys : Lock(k) \/ Update(k) \/ Vendor(k)
        \/ LockSave \/ UpdateApply \/ UpdateSave \/ VendorSave \/ Write

Outside == \/ Crash \/ MoveTag \/ RetireTag \/ GrowOld
           \/ EditUse \/ EditVendor \/ RemoveTorn

Next == Refuse \/ (\E i \in Invocations : Begin(i)) \/ Step \/ Outside

Spec == Init /\ [][Next]_vars

FairSpec == Spec /\ WF_vars(Step)

-----------------------------------------------------------------------------
(* Every variable holds a value of its kind, and a running invocation is in  *)
(* a phase of its own command.                                               *)
TypeOK ==
    /\ uses \in [Slots -> Keys \cup {NoUse}]
    /\ lockfile = Torn \/ IsLocks(lockfile)
    /\ vendor \in [Dirs -> Content \cup {Absent}]
    /\ upstream \in [Repos \X Tags -> Shas \cup {None}]
    /\ published \subseteq Repos \X Tags \X Shas
    /\ aged \subseteq Shas
    /\ pc \in {"idle", "lock", "check", "apply", "vendor", "copy", "save"}
    /\ IF pc = "idle" THEN inv = None ELSE inv \in Invocations
    /\ IsLocks(mem)
    /\ todo \subseteq Keys
    /\ DOMAIN latest \subseteq Keys /\ latest \in [DOMAIN latest -> Shas]
    /\ failed \in BOOLEAN
    /\ dirty \in BOOLEAN
    /\ exit \in {None, 0, 1}
    /\ stage \in {"edited", "locked", "pinned"}
    /\ pc \in {"check", "vendor", "copy"} => todo \subseteq DOMAIN mem
    /\ pc = "apply" => todo \subseteq DOMAIN latest
    /\ pc \in {"check", "apply"} => DOMAIN latest \subseteq DOMAIN mem

(* A recorded integrity hash is the hash of the commit the entry pins: it is *)
(* neither kept when update moves the pin nor carried over by a lock that    *)
(* resolved something else, and no copy cut short is ever recorded.          *)
HashesSound(m) == \A k \in DOMAIN m : m[k].integrity \in {None, Pristine(k, m)}

IntegritySound == /\ HashesSound(mem)
                  /\ lockfile # Torn => HashesSound(lockfile)

(* As long as nobody types --allow-fresh, no untrusted entry pins a commit   *)
(* that has not cleared the age floor, however tags move while lock and      *)
(* update are asking.                                                        *)
FloorKept(m) == \A k \in DOMAIN m : Action(k) \in Trusted \/ m[k].resolved \in aged

AgeFloor == (\A i \in Invocations : ~i.fresh) =>
                /\ FloorKept(mem)
                /\ lockfile # Torn => FloorKept(lockfile)

(* The tag rewrite shows beside a pin (selected, or else the ref) did name   *)
(* the pinned commit at some time.                                           *)
Shown(k, m) == IF m[k].selected = None THEN Ref(k) ELSE m[k].selected

TagsTruthful(m) == \A k \in DOMAIN m :
    Ref(k) \in Tags => <<RepoOf[Action(k)], Shown(k, m), m[k].resolved>> \in published

SelectedTruthful == /\ TagsTruthful(mem)
                    /\ lockfile # Torn => TagsTruthful(lockfile)

(* After an unforced lock that exits 0 every use has an entry; after a       *)
(* rewrite that exits 0 as well, verify accepts every use.  It stays so      *)
(* until a workflow is edited or the pins are moved on purpose, whatever     *)
(* crashes, failed locks, vendoring and re-locking come in between.          *)
GreenAfterRewrite ==
    lockfile # Torn =>
        /\ stage # "edited" => Covers(lockfile)
        /\ stage = "pinned" => RefsVerify(lockfile)

(* The pins as they would be read back once the save under way is over.      *)
Ledger == IF lockfile # Torn THEN PinsOf(lockfile)
          ELSE IF pc = "save" THEN PinsOf(mem) ELSE NoLocks

(* A pin moves only under update --apply or lock --force.                    *)
NoSilentDrift ==
    [][\A k \in DOMAIN Ledger \cap DOMAIN Ledger' :
         Ledger'[k] # Ledger[k] =>
            \/ inv.cmd = "update" /\ inv.apply
            \/ inv.cmd = "lock" /\ inv.force]_vars

(* A pin is dropped only with the whole file: when a save is cut short.      *)
NoPinDropped ==
    [][\/ DOMAIN Ledger \subseteq DOMAIN Ledger'
       \/ pc = "save" /\ lockfile' = Torn]_vars

(* update --apply leaves an entry it skips or holds as it was, its hash      *)
(* included, and forgets the hash of every entry it moves.                   *)
UpdateTouchesOnlyMoved ==
    pc = "apply" => \A k \in DOMAIN mem :
        IF mem[k].resolved = lockfile[k].resolved
        THEN mem[k] = lockfile[k]
        ELSE mem[k].integrity = None

(* A lock that exits 0 without --force lists every use under some entry.     *)
EveryUseIsListed ==
    [][pc = "save" /\ inv.cmd = "lock" /\ ~inv.force /\ exit' = 0 =>
         \A s \in Slots : uses[s] # NoUse =>
            \E k \in DOMAIN lockfile' : /\ Action(k) = Action(uses[s])
                                        /\ s \in lockfile'[k].at]_vars

(* After vendor --force exits 0, every entry records a hash and its          *)
(* directory holds exactly the commit it pins.                               *)
VendorComplete(m) ==
    \A k \in DOMAIN m : /\ m[k].integrity = Pristine(k, m)
                        /\ vendor[DirFor(k, m)] = Pristine(k, m)

ForcedVendorComplete ==
    [][pc = "save" /\ inv.cmd = "vendor" /\ inv.force /\ exit' = 0
         => VendorComplete(lockfile')]_vars

(* When verify accepts the vendor tree, a directory all of whose entries     *)
(* record a hash holds a commit one of them pins.                            *)
AcceptedIsAudited ==
    lockfile # Torn /\ VendorVerifies(lockfile) =>
        \A d \in Dirs :
            vendor[d] # Absent /\ (\A k \in Owners(d, lockfile) :
                                     lockfile[k].integrity # None)
              => \E k \in Owners(d, lockfile) : vendor[d] = Pristine(k, lockfile)

(* The file as it would be read back once the save under way is over, the    *)
(* locations left out.                                                       *)
Record(e) == [resolved |-> e.resolved, selected |-> e.selected, integrity |-> e.integrity]

Records(m) == [k \in DOMAIN m |-> Record(m[k])]

ReadBack == IF lockfile # Torn THEN Records(lockfile)
            ELSE IF pc = "save" THEN Records(mem) ELSE NoLocks

Phase == IF pc = "idle" THEN "idle" ELSE IF pc = "save" THEN "saved" ELSE "running"

Book == INSTANCE PinLedger WITH ledger <- ReadBack, run <- inv, phase <- Phase

(* The lockfile is the ledger PinLedger describes: whatever the steps of a   *)
(* command, its crashes and upstream's moves in between, each command        *)
(* changes the pins and hashes at most once, as a whole, and only in the way *)
(* that is its business.                                                     *)
LedgerKept == Book!Spec

(* At most so many steps are left: two for each key lock, vendor and update  *)
(* have not come to, one of them when the ref is resolved already or the     *)
(* copy under way, and what closes the command.                              *)
Remaining ==
    LET keys == Cardinality(todo)
    IN  CASE pc = "idle"   -> 0
          [] pc = "save"   -> 1
          [] pc = "lock"   -> keys + Cardinality(todo \ DOMAIN latest) + 2
          [] pc = "check"  -> 2 * keys + Cardinality(DOMAIN latest) + 3
          [] pc = "apply"  -> keys + 2
          [] pc = "vendor" -> 2 * keys + 2
          [] pc = "copy"   -> 2 * keys + 1

(* Every step of a command brings it nearer to its end, whatever fails, and  *)
(* nothing outside it takes it back: no key is resolved, moved or vendored   *)
(* twice.                                                                    *)
CommandIsBounded ==
    [][pc # "idle" => IF UNCHANGED runVars THEN Remaining' = Remaining
                                           ELSE Remaining' < Remaining]_vars

(* Every invocation ends, provided its lookups and copies return.            *)
Terminates == pc # "idle" ~> pc = "idle"

=============================================================================

# action-locker in TLA+

action-locker pins the `uses:` references of GitHub workflows to commits. It
keeps the pins in `action-lock.json`, rewrites the workflows to use them, keeps
copies of the pinned actions in a vendor tree, and verifies all three against
each other, offline, in CI. The program is one file, `src/action_locker.py`, and a
bundled copy of ruamel.yaml, `src/_vendor/ruamel/yaml/`, that reads the workflows.

This directory holds TLA+ specifications of it, TLC configurations that check
them on small instances, and proofs, checked by TLAPS, of the properties that
matter most.

    tlc -config lifecycle.cfg MCLocker          # likewise the other .cfg files
    tlapm LockerProofs.tla                      # likewise *Proofs.tla

## 1. The system

| Part | State | Operations | Depends on |
|---|---|---|---|
| Command lifecycle: `cmd_lock`, `cmd_update`, `cmd_vendor`, `cmd_verify`, `cmd_rewrite` | `action-lock.json`, the vendor tree, the workflows; in memory `lockdata`, the keys still to do, failure and dirty flags | one per command | all parts below |
| Quarantine: `select_aged_target`, `list_series_tags`, `ref_age_days` | none; asks GitHub | choose the newest target of a series that clears the age floor | git, the GitHub API |
| Ref resolution: `resolve_ref_to_sha` | none | a ref to a commit, by `git ls-remote`, then by the API | git, the GitHub API |
| Policy: `normalize_policy`, `effective_policy`, `is_trusted` | read from the lockfile | defaults, refusals, trusted prefixes | the lockfile |
| Parser gate: `_parse_for_production`, backends `stable`, `lab/0`, and `compare` | none | parse every workflow or refuse the command | bundled ruamel.yaml |
| Structural rewrite: `_cmd_rewrite_structural` and what it calls | the workflows on disk; in memory the listings, parses, candidates, committed files | prepare all, check all, replace one by one, change back | the parser, the file system |
| Legacy rewrite: `_cmd_rewrite_legacy` | the workflows | line by line with regular expressions | `lab/0` |
| Bundled ruamel.yaml, reading side: `scanner.py`, `parser.py`, `composer.py`, `constructor.py` | tokens and pending keys; a stack of methods; nodes, anchors | one event at a time, pulled by `load_all` | the text |
| Structural backend: `_stable_walk`, `_stable_emit` | none | walk a document to its `uses` | ruamel.yaml |
| Line scanner `lab/0`: `_lab_scan` | columns, keys and place of the line | read a workflow line by line | the text |
| Scan and compare report: `cmd_scan` | none | parse, compare, print, exit status | the parsers |
| Bundled parser's integrity: `_vendored_parser_integrity_valid`, `scripts/vendor_ruamel.py` | the copy and two manifests of hashes | remove, copy, write, check; check before every import | the file system |
| Dispatch: `.github/workflows/dispatch-reverify.yml` | `subscribers.txt` | notify every subscriber | the GitHub API |

The commands call each other never; they interact through the three things they
leave on disk. `lock` writes entries, `vendor` adds hashes to them, `update`
moves them and drops the hashes, `rewrite` moves the workflows to them, `verify`
compares everything. Upstream changes underneath: tags move and vanish, commits
age, lookups fail. Developers edit workflows and the vendor tree, and a process
may die anywhere. What is hard:

- *sequences of commands.* Each is simple; what a pin, a hash or a location means
  after several of them, with failures in between, is not;
- *the lockfile is read at the start and written at the end*, truncated first;
- *partial failure.* One ref of many does not resolve or is too young; a copy
  breaks off half-way; a file of many cannot be replaced;
- *the world moves while the program asks.* A tag can move between the lookup of
  a ref, the listing of its series and the question how old each commit is;
- *two readings of one language.* Two backends must find the same `uses` in the
  same text; one is a full YAML reader with unbounded look-ahead, the other
  remembers columns from line to line;
- *files are read twice.* rewrite lists and reads the workflows more than once
  and applies positions from one reading to the text of another.

What makes the parts correct:

- lifecycle: a recorded hash belongs to the pinned commit; no pin below the age
  floor; the shown tag is true; pins move only on purpose and never vanish one by
  one; lock then rewrite leaves workflows that verify accepts; what verify
  accepts in the vendor tree was recorded; every command ends;
- structural rewrite: what is written is the pinned form of what was read, an alias
  aside, which may get the pin of what was parsed at its place; success pins
  everything, a refusal undoes everything it can; files change as wholes;
- quarantine and resolution: the age of a merge, or of a release of the tag the
  commit was found under, is never more than the real age of the commit that is
  pinned; a pin is held back only for a reason; the search ends;
- policy: the most specific override rules, a malformed policy pins nothing;
- reading YAML: a key goes where it began, nothing is left open, a workflow means
  the same in every layout, every text comes to an end;
- the two backends: what both accept they place alike, and `lab/0` misses nothing;
- the gate: nothing but the pinned library is imported, and a scan and a command
  given the same settings come to the same verdict, except where only the command
  refuses.

## 2. The modules

| Module | What it is |
|---|---|
| `Locker` | the command line against one repository: five commands, upstream, developers, crashes |
| `PinLedger` | abstract: what the commands promise of the lockfile |
| `LockerClaims` | statements of the documentation that the code does not keep |
| `MCLocker` | small instances of both |
| `LockerProofs` | type correctness and the lemmas the other proofs use |
| `LockerPinProofs` | hashes, the age floor, shown tags, what verify accepts, that `Locker` implements `PinLedger`, and the bound on the steps of a command |
| `LockerLedgerProofs` | pins move only on purpose and do not vanish, and what update leaves alone |
| `LockerGreenProofs` | lock, then rewrite, then verify; where the uses are listed; a clean `vendor --force` |
| `PinFiles` | abstract: what rewriting promises of the workflow files |
| `RewriteFiles` | the structural rewrite, system call by system call |
| `RewriteClaims` | statements of the documentation about it that the code does not keep |
| `RewriteCommand` | the same rewrite beside `Locker`: its whole run is the one step `Locker!Rewrite` |
| `MCRewriteFiles` | small instances of `RewriteClaims` and `RewriteCommand` |
| `RewriteProofs` | type correctness, faithful candidates, that `RewriteFiles` implements `PinFiles`, what an undisturbed rewrite leaves behind, that it is `Locker`'s one step, and the bound on its steps |
| `Policy` | validation, defaults and overrides of the policy block |
| `Quarantine` | one search for a commit to pin, call by call, while upstream moves |
| `QuarantineClaims`, `MCQuarantine` | a statement of the README it does not keep; small instances |
| `QuarantineStep`, `MCQuarantineStep` | the same search beside `Locker`: its end is the step `LockPin` or `LockRefuse`; the instance of `MCQuarantine` with it |
| `QuarantineProofs` | type correctness, trusted ages, why a pin is held back, the candidates, the settings in force, that the search ends as `Locker`'s lock does, and the bound on its questions |
| `YamlScanner` | ruamel's scanner: tokens, pending keys, comments |
| `YamlParser` | its parser: tokens to events with a stack of methods |
| `YamlComposer` | its composer and constructor: nodes, aliases, merge keys |
| `StableBackend` | the structural backend: the pipeline of the three, and the walk |
| `LabScan` | the line scanner `lab/0` |
| `ParserCompare` | the comparison of what two backends found |
| `WorkflowParsers` | both backends on one text, compared |
| `WorkflowClaims`, `MCWorkflowParsers` | statements of the code they do not keep; the texts TLC reads |
| `YamlProofs` | the parser's stack is closed at the end; pending keys point at their tokens |
| `ParserGate`, `MCParserGate` | the bundled copy of the library, step by step of the script that makes it; the checks before it is used; the choice of a backend and the exit status; small instances |
| `ParserGateProofs` | only the whole library is imported; a scan and a command agree |

`MCLocker` extends `LockerClaims`, which extends `Locker`; likewise for `RewriteFiles`,
`Quarantine` (over `Policy`) and `WorkflowParsers`. The YAML modules extend one another
in the order of the pipeline, and `WorkflowParsers` extends `StableBackend` and
`ParserCompare` and instantiates `LabScan` on the same `text`; `ParserGate` extends
`ParserCompare` only. `RewriteFiles` instantiates `PinFiles` and `Locker` `PinLedger`,
each with a refinement mapping; among the proofs `LockerPinProofs` stands on the other
three of `Locker`.

`Locker` takes two parts of the program as one step each, and both are shown to be
that step. `RewriteCommand` and `QuarantineStep` instantiate `Locker` with the state
of the detailed module in the place of its variables. `Locker!Rewrite` is a whole run
of `RewriteFiles`: some subset of the affected files is pinned, and exit 0 means all
of them are. `Locker!LockPin` and `LockRefuse` are the end of a search of
`Quarantine`, for a lock whose only key is the ref at hand: `upstream` is the
listing as it arrived, `aged` the commits some accepted source calls old enough, and
a trusted action one of an invocation that allows fresh commits. The pick is what
this says something about: which commit, under which tag, from which places of the
series. A refusal `Locker` allows whenever the action is not exempt, since any age may
have gone unlearnt, so why a search refuses is left to `Quarantine`.

Some definitions exist to show that a property can fail: their names say what is
wrong with them (`AgedFirstOnly`, `RestoredEarly`), they stand before the
definition they vary, and nothing uses them. `PROJECT.json` pairs them with the
properties they break.

### Locker

| In the module | In the code |
|---|---|
| key `<<action, ref>>` | the string `action@ref` that keys `lockdata["locked"]` |
| `Entry` | an entry's `resolved`, `selected`, `integrity`, `locations`; `tag` is the key's ref |
| `lockfile`, `vendor`, `uses` | `action-lock.json`, `.github/vendored-actions`, the executable `uses:` of the workflows |
| `mem`, `todo`, `latest`, `failed`, `dirty` | `lockdata`, the rest of `sorted(...)`, a resolved ref not acted on yet, the failure list, `updated`/`newly_hashed` |
| `pc` | where in the command the process is; `save` is between the truncation and the write of `save_lockfile` |
| `upstream`, `aged` | what tags point at now; commits that clear the floor |
| `published`, `stage` | history: every binding a tag had; how far the workflows have come since they were edited |
| `StartLock`, `LockSkip`, `LockResolve`, `LockPin`, `LockRefuse`, `LockSave`, `Write` | `cmd_lock`, one iteration of its loop being a skip, or a resolution and then a decision |
| `StartUpdate`, `UpdateCheck`, `UpdateApply`, `UpdateMove`, `UpdateKeep`, `UpdateSave` | `cmd_update`, its loop of checks and its loop of applications |
| `StartVendor`, `VendorSkip`, `VendorFail`, `VendorCopy`, `VendorRecord`, `VendorBreak`, `VendorSave` | `cmd_vendor` |
| `Rewrite`, `Verify`, `NothingToDo`, `Refuse` | the commands that act at once, and every early exit |
| `Targets`, `Aged`, `Fallbacks` | `select_aged_target` and `list_series_tags` |

What is abstracted, and why it does not matter to the properties:

- Exit codes other than 0 are 1: no property tells them apart.
- An age is one fact, whether a commit clears the floor, because each run has one
  floor; a lookup learns it or fails, so any subset of the aged commits may be
  known in a step. An age can only grow, so `aged` only grows.
- A lookup of a ref finds what the name points at upstream at that moment, or fails;
  what else it may find is in `Quarantine`. Series listings likewise. The steps of one
  loop iteration are two (resolve; decide), so a tag can move in between.
- The hash of a tree is the tree, that is, `tree_hash` is collision-free, and the
  tree of a commit is the pair of action and commit.
- One invocation runs at a time, and developers edit only between invocations.
  `RewriteFiles` drops the second restriction for the files of a rewrite. Nothing
  in the program guards against two invocations at once and no document promises
  anything of them.
- `locations` are a set of slots (executable `uses`), a file is a set of slots.

### RewriteFiles

| In the module | In the code |
|---|---|
| a text: for each place `Other` or a token: the paths it is a use for, its target, and where that is spelled out; or `Broken` | what the stable backend makes of a workflow; a rejected one |
| `listed`, `again`, `results` | `paths` of `_cmd_rewrite_structural`, `paths` of `_parse_for_production`, its `results` |
| `PinOf` | `_rewrite_ref_map`; `PinsAssumption` says a pinned target is not mutable again |
| `Located`, `Candidate`, `Checks` | `_source_scalar_span` with `_validate_source_scalar`, `_candidate_rewrite_bytes`, `_validate_rewrite_candidate` |
| `prepared`, `next`, `Pairs` | the list of the same name, the place in the `zip`, its length |
| `committed`, `staged` | the list of that name as a number, a temporary file that is complete |
| `Stage`, `Replace`, `ReplaceFails`, `Restore`, `RestoreFails`, `Restored` | `_atomic_write_bytes` and the two loops around it |
| `Edit`, `Crash` | an editor or another process; the operating system |

A token without a path is an anchor, or a text of another kind; an alias is a token
whose target is spelled out at another place. `_validate_source_scalar` compares
no alias, so `Located` does not either: what is written over one is the pin of what was
parsed there, and an anchor that is replaced takes its other aliases along. A step that
an alias uses again, and an alias on the line of its anchor, are reported where the
anchor stands; they are paths of the token there, which is replaced once for all.

Quoting, comments and the `kind` of a use are left out: the replacement preserves
them or the second parse compares them, and neither changes which file gets which
target. So are places inside a token: a parse of another text may point into the
middle of one. Where the rest of it happens to be the target that was parsed, the code
replaces that rest; if the token is a use, the second parse then finds a target nobody
wanted there and refuses. A file's place in the sorted listing is a number.

### Policy and Quarantine

| In the module | In the code |
|---|---|
| `Errors`, `Normalized`, `Overrides`, `Before`, `Place` | `normalize_policy` with `check_keys`, `check_age`, `check_flag`, and its stable sort: an override's place is one more than the number of those before it |
| `Effective`, `Over`, `TrustedBy` | `effective_policy`; its dictionaries updated by one another; `normalize_trusted_prefixes` with `is_trusted` |
| `AskTags`, `AskHeads`, `AskAny`, `AskApiTags`, `AskApiHeads` | the five lookups of `resolve_ref_to_sha`, in order |
| `ListSeries`, `InSeries`, `Newer` | `list_series_tags`, its filter and `version_key` |
| `AddCandidate`, `Walked`, `Judge` | the two loops of `select_aged_target` |
| `AskRelease`, `AskMerged`, `AskCommitted` | the ladder of `ref_age_days` |
| `MoveTag`, `Publish` | upstream, between any two calls |

Every question may go unanswered. A name is its directories, its version chunks and
which of them a dash leads; an action and a prefix are sequences of path segments. An
annotated tag has an object of its own, and the filtered `ls-remote` returns that object.
`git ls-remote` takes a ref as the tail of a name (`EndsIn`), so `v4` also finds `a/v4`,
and a branch may have the name of a tag: the filtered lookups take the first line of
what is found, the last one the last, where the tags stand (`IsFirst`, `IsLast`, in the
order `Line`); the API knows whole names only. `found` remembers the tag a commit was
found under. Refs that spell out `tags/` or `heads/`, and names with a dash in a
directory, are left out. The two facts the README takes from GitHub are assumptions: a
merge makes a commit public, and an immutable release freezes its tag
(`MergeIsPublic`, `ReleaseIsPublic`). A policy block has a list of overrides, each
with a prefix (`PoliciesAreBlocks`); one of another shape is refused by
`normalize_policy` like the malformed ones among the samples.

### The YAML modules and the two backends

A text is a sequence of lexemes: an indicator character that stands by itself, a
word, a quoted scalar, `---` or `...`, each with its line and column. The models
keep every decision that depends on these and on the order of things; characters,
escapes, tags and the spelling of numbers are abstracted. `IsText` says what the
reader guarantees of a text: its lines never go back, and the last lexeme, the end,
stands on a line of its own, since every line of a sample ends in a line break.

| In the module | In the code |
|---|---|
| one action per `Fetch...` | one `fetch_...` method of `RoundTripScanner`, which the classes of `scanner.py` make up; `FetchComment` is the comment token of the round-trip scanner |
| `keys`, `Live`, `Saved`, `KeyHere` | `possible_simple_keys`, `stale_possible_simple_keys`, `save_possible_simple_key` |
| `indents`, `Kept`, `Unwound`, `Indented` | `unwind_indent`, `add_indent` |
| `phase`, `Gather`, `DropComment`, `AttachComment` | the loops of `check_token`, `_gather_comments` and `get_token` |
| `state`, `states`, `marks` | `Parser.state`, `states`, `marks`; one action per branch of the `parse_...` methods, those of one shape in the table `Rules` |
| `heap`, `open`, `anchors` | nodes of `Composer`, its recursion, its `anchors` |
| `KeysOf`, `LendersOf`, `Faults` | `flatten_mapping`, `merge_map_list`, `check_mapping_key` and the constructed mapping |
| `Walk`, `Job`, `Step`, `Emit`, `UsesPlace` | `_stable_walk`, `_stable_emit`, `_stable_uses_pos` |
| one action per `Read...` of `LabScan` | one path through the loop of `_lab_scan` for one line |
| `Disagreements` | `_compare_file` |

What is abstracted, besides: of several faults in one document any may be the one
that is reported; the parser's look at the token after an end token is not made,
so an error in it comes one event later; `KeyLimit` counts lexemes where the code
counts 1024 characters; an unfinished root that is merged into one of its own
mappings lends only the keys that are its own.

### ParserGate

| In the module | In the code |
|---|---|
| `package`, `links`, `embedded`; `notices`, `listed` | `_vendor/ruamel/yaml` and its manifest; `third_party/ruamel.yaml` and the manifest there |
| `StartVendor`, `Remove`, `CopyModule`, `Write` | `vendor` of `scripts/vendor_ruamel.py`: one file removed, copied or written at a time, the last eight in the order of `Writes` |
| `CheckPasses`, `Check` | `check`, at the end of `vendor` or by `--check` |
| `Crash`, `Edit` | the script killed, a file or a manifest left half-written; a maintainer who changes, removes or links a file |
| `Valid`, `Available` | `_vendored_parser_integrity_valid`, `stable_backend_available` |
| `ScanBackend`, `ScanExit`, `ScanCompareExit` | `cmd_scan`, `_cmd_scan_compare` |
| `CommandBackend`, `Authority`, `GateExit` | `_command_parser_name`, `_parse_for_production` |
| `RefusesLab`, `RefusesUses` | `cmd_rewrite`, which takes no `lab`; `discover_workflow_actions` of `lock` and `verify`, which refuses a target (`Unsplit`) it cannot split |

The hash of a file is what is in it: `"pinned"`, `"torn"`, `"edited"`. The check is
one step of the program; that the copy changes while it is checked or imported is
left out. A manifest that is cut short has lost its last lines; they are in the
order of the file names, and the names of the package's own files come last, the
very last one imported. Where another ruamel.yaml stands before the copy on the
import path the code refuses; the path is not modelled. `GateExit` is of a rewrite that
has something to pin: one that has not, or has no lockfile, ends before it parses.

## 3. What is checked

| Run | Question | Instance | Distinct states |
|---|---|---|---|
| `lifecycle` | do pins stay aged, true and complete through lock, update, rewrite and verify? | one action, a channel `v4` and a release `v41` of its series, two commits, two slots in two files, five command lines | 680 000 |
| `vendoring` | does a hash always belong to the pinned commit, does a clean `vendor --force` mean a complete tree, does every command end? | one slot, a tag that moves between two commits, a developer in the vendor tree, seven command lines, fairness | 128 000 |
| `rewriting` | does the rewrite write only pinned forms of what it read, an alias aside, undo what it must, keep the promise of `PinFiles`, and is it `Locker`'s one step? | three files of two lines, eight texts, among them swapped and crossed ones, uses that are aliases, an anchor that was renamed or removed, and a broken one, one interference at any step, fairness | 422 000 |
| `resolving` | is a trusted age real, a pin held back only for a reason, does the search end, and as `Locker`'s lock does in one step? | seven tags of a series and beside it, two of them annotated now or then, one that ends in the name of another, two branches, one with the name of a tag, three commits and a tag object, six policies, one change upstream at any step, fairness | 700 000 |
| `parsing` | does a workflow mean the same in every layout, does `lab/0` find every slot, does reading end? | 16 workflows with every comment and blank line that may stand between their lines, 1350 job bodies, 2500 small texts over all indicators, fairness | 342 000 |
| `gate` | is what the program imports the pinned library, whatever the script was killed at, and do a scan and a command agree? | a package of two modules, every order of removing and copying, crashes anywhere, one edit by hand, two workflows with six pairs of results, three commands, all 24 settings of option and variable | 1 650 000 |
| `claim_*` | see the findings | the smallest instance that shows it | |

Why these bounds are enough to be of use. In `lifecycle` two commits are the least with
which a pin can move and move back; `v41` on one of them gives the quarantine something
to fall back on and makes `selected` differ from the ref; a developer may type a mutable
ref or a commit in either slot, so a use can be covered by an entry of another name.
`vendoring` has the two directories between which a hash could be confused. Three files
in `rewriting` are the least with which two are to be changed back in order, and one
interference suffices to shift the listings or to replace a text between any two
readings; with `Renamed` an alias says something else than when it was parsed, with
`Dangling` nothing. In `resolving` the series has a channel, two releases, an annotated
release, and a prerelease with one of its own that only a ref with a dash takes in; a
lookup of `v41` may find the tag `a/v4.1` or the branch `v4.1` instead, and `v41` has
the release that would age them; `MaxCandidates` is three so that the cap bites, and one
change can fall between any two of the questions; the commits of the series repeat, so
that the cap, a release that is a candidate already and one that has moved all shift the
places `Locker` counts. In `parsing` the small texts put every indicator before and
after every context (block, flow, key, value), the workflows put every construct that
the backends treat specially on the path to a `uses`, and the job bodies stack dashes
and keys in every relation of columns the line scanner tells apart. In `gate` two
modules are the least for a package of which half is there, and any number of crashed
attempts may follow one another. Every run is finite because the model's counters are:
tags move only within `Bindings` or `MaxMoves` times, commits age once, an editor
interferes `MaxEdits` times, the script can only leave finitely many copies, a text has
an end. There is no symmetry reduction: the order of keys and of files matters to the
code. The lookups and failures are choices in every step, so "everything fails" and
"only the second fails" are among the behaviours. Deadlock is checked in the runs of
`Locker`, `RewriteFiles` and `ParserGate`; one search and one reading stop when they are
done, so there it is not, and `PickEnds` and `ReadingEnds` say that they stop nowhere
else.

Fairness. `FairSpec` of `Locker` and `RewriteFiles` is weak fairness of `Step`, the
steps of the running process. The program is sequential, with no locks and no waiting
but on its own lookups and copies, so a process that is not killed takes its next step;
that is all that is assumed. `git` and the age queries run under timeouts of 15 seconds;
the API requests of `resolve_ref_to_sha` have none, so that they return is an assumption
about the network. `Quarantine` has weak fairness of `Pick` for the same reason
(`FairStepSpec`, of the run `resolving`, adds only the history variable `listed`), and
`WorkflowParsers` of `Next`: both backends are plain loops over a text in memory.
`ParserGate` assumes none. No outside event is fair: upstream may never move, no
developer ever help.

The properties, by the hazard they are for (`PROJECT.json` lists the lines):

- `IntegritySound`, `UpdateTouchesOnlyMoved`: a hash carried to another commit.
- `AgeFloor`, `SelectedTruthful`: tags that move while the quarantine is asking.
- `LedgerKept`: a save that is cut short, a command that changes what is not its
  business, an entry renewed under `--force` with the hash of another commit or
  without its own. The ledger is the lockfile without locations, read as it will
  be once the save under way is over; `PinLedger` changes it in one step per
  command, or loses it as a whole.
- `NoSilentDrift`, `NoPinDropped`: pins that change or vanish behind the user's
  back. Both are about the pins as they would be read once the save under way is
  over, so a crash in the middle of a save shows as the loss of the whole file,
  which is the one exception `NoPinDropped` names.
- `GreenAfterRewrite`: coverage, partial failure and the order of the loop.
- `EveryUseIsListed`: locations that go stale.
- `ForcedVendorComplete`, `AcceptedIsAudited`: copies that break off, and edits of
  the vendor tree.
- `PreparedFaithful`, `SuccessPinsAll`, `RefusalUndoes`, `PromiseKept`: stale
  readings, shifted listings, failing replacements and crashes of a rewrite. The first
  says what an alias may get when the text changed under the parse.
- `RewriteIsOneStep`: what an observer of the files and of the exit status can tell of a
  rewrite that fails or is killed anywhere, the summary `Locker` builds on.
- `TrustedAgeIsReal`: a tag that moves between the lookup of its commit and the
  question about its release. It is about commits found under that tag: one found
  under another name is aged by the same release (see the findings).
- `HeldBackForAReason`, `CandidatesDistinct`: unanswered questions, and annotated tags
  that make one commit look like two: `CandidatesDistinct` says where that happens, with
  the tag object a ref led to and the commit behind it, and nowhere else.
- `PickIsOneStep`: places in a listing that shift under duplicates, missing tags and the
  cap, a tag that moves after it was listed, and a commit found under another name, the
  only one that may be pinned too young for every source (`Misaged`); also the summary
  `Locker` builds on.
- `MostSpecificRules`: overrides that overlap, in any order.
- `KeyPointsAtItsToken`: a number remembered across look-ahead, closed blocks and
  dropped comments.
- `NothingLeftOpen`: twenty methods that push and pop one stack.
- `ReadsWhatWasMeant`: the same workflow in flow style, with explicit keys, anchors,
  merges, comments; the sample says what it means, the model has to find it.
- `LabFindsEverySlot`: columns remembered from earlier lines.
- `AvailableIsPinned`: a copy that is half removed, half written, cut short or touched
  and still passes for the library.
- `VendoringRepairs`: the order in which eight files and two lists of files are written.
- `ScanForetells`: two places that choose a backend and decide an exit status. Where
  only a command refuses (`lab` for `rewrite`, a target that `lock` and `verify` cannot
  split) the scan may exit 0, and the property says that the command stops.
- `Terminates`, `RewriteEnds`, `PickEnds`, `ReadingEnds`: loops that must end
  whatever fails in them or stands in the text.
- `CommandIsBounded`, `RewriteIsBounded`, `SearchIsBounded`: a key, a file or a candidate
  that is taken up again. Each compares the steps left before and after every step
  (`Remaining`): one of the process lowers it, one of upstream or of an editor leaves it.

## 4. What is proved

For every value of the constants that satisfies the assumptions in the modules:

| Theorem | Statement |
|---|---|
| `LockerProofs!TypeCorrect` | `Spec => []TypeOK` |
| `LockerPinProofs!IntegrityCorrect` | `Spec => []IntegritySound` |
| `LockerPinProofs!AgeFloorHolds` | `Spec => []AgeFloor` |
| `LockerPinProofs!TagsTruthfulHolds` | `Spec => []SelectedTruthful` |
| `LockerPinProofs!AcceptedIsAuditedHolds` | `Spec => []AcceptedIsAudited` |
| `LockerPinProofs!LedgerKeptHolds` | `Spec => LedgerKept`: `Locker` implements `PinLedger` |
| `LockerPinProofs!CommandBoundHolds` | `Spec => CommandIsBounded /\ [](Remaining \in Nat)` |
| `LockerLedgerProofs!NoSilentDriftHolds` | `Spec => NoSilentDrift` |
| `LockerLedgerProofs!NoPinDroppedHolds` | `Spec => NoPinDropped` |
| `LockerLedgerProofs!UpdateTouchesOnlyMovedHolds` | `Spec => []UpdateTouchesOnlyMoved` |
| `LockerGreenProofs!GreenAfterRewriteHolds` | `Spec => []GreenAfterRewrite` |
| `LockerGreenProofs!EveryUseIsListedHolds` | `Spec => EveryUseIsListed` |
| `LockerGreenProofs!ForcedVendorCompleteHolds` | `DirsApart => (Spec => ForcedVendorComplete)` |
| `RewriteProofs!RewriteTypeCorrect` | `Spec => []TypeOK` |
| `RewriteProofs!PreparedFaithfulHolds` | `Spec => []PreparedFaithful` |
| `RewriteProofs!PromiseIsKept` | `Spec => PromiseKept`: `RewriteFiles` implements `PinFiles` |
| `RewriteProofs!SuccessPinsAllHolds` | `Spec => []SuccessPinsAll` |
| `RewriteProofs!RefusalUndoesHolds` | `Spec => []RefusalUndoes` |
| `RewriteProofs!RewriteIsOneStepHolds` | `Spec => RewriteIsOneStep`: `RewriteFiles` is `Locker!Rewrite` |
| `RewriteProofs!RewriteBoundHolds` | `Spec => RewriteIsBounded /\ [](Remaining \in Nat)` |
| `QuarantineProofs!QuarantineTyped` | `Spec => []TypeOK` |
| `QuarantineProofs!TrustedAgeHolds` | `Spec => []TrustedAgeIsReal` |
| `QuarantineProofs!HeldBackHolds` | `Spec => []HeldBackForAReason` |
| `QuarantineProofs!CandidatesHold` | `Spec => []CandidatesDistinct` |
| `QuarantineProofs!MostSpecificRulesHold` | `Spec => []MostSpecificRules` |
| `QuarantineProofs!PickIsOneStepHolds` | `StepSpec => PickIsOneStep`: a search ends as `Locker!LockPin` or `LockRefuse` |
| `QuarantineProofs!SearchBoundHolds` | `Spec => SearchIsBounded /\ [](Remaining \in 0 .. 3 * MaxCandidates + Cardinality(Names) + 8)` |
| `YamlProofs!StackIsClosed` | `Spec => []NothingLeftOpen` |
| `YamlProofs!KeyPointsHolds` | `Spec => []KeyPointsAtItsToken` |
| `ParserGateProofs!AvailableIsPinnedHolds` | `Spec => []AvailableIsPinned` |
| `ParserGateProofs!VendoringRepairsHolds` | `Spec => []VendoringRepairs` |
| `ParserGateProofs!ScanForetellsHolds` | `Spec => []ScanForetells` |

The arguments:

- *Type correctness* is inductive once it says what the phases know: the keys a
  check, an application or a copy still has to do are keys of `mem`. Without that
  `mem[k]` of a step could be anything.
- *Hashes.* `IntegritySound` is inductive over `TypeOK`: `NewEntry` keeps a hash only
  with its commit, `Moved` drops it, `VendorRecord` records it of a complete copy.
- *Age floor.* `Targets` returns aged commits unless the action is exempt, and `aged`
  only grows, so what was pinned stays aged.
- *Shown tags* need to know that what was looked up was published: `TagsInv` adds
  `UpstreamPublished` (what a tag points at now it was published as) and
  `LatestPublished` (so was what the process remembers).
- *The ledger.* An action property of a file that is truncated and then written needs
  to know what `mem` is in between: `LedgerInv` says that a process in `save` has
  truncated the file, that until then an update or vendor's copy agrees with the
  file except for what it changed on purpose, and that what update remembers
  differs from the pins it has.
- *The ledger as an abstract specification.* `ChangeInv` says that while a command runs
  each entry of its copy is that of the file, or what the command was entitled to
  make of it (`Justified`), and that it has not touched what it has not come to. That a
  pin was published under its tag, or is filed under its own commit, holds of every entry
  (`AllAttested`, from `SelectedTruthful` and `CommitsPinned`); that it is old
  enough holds from the moment it was chosen, because `aged` only grows, and it
  holds per command: an `--allow-fresh` waives the floor for its own pins, not for
  those of other runs. Opening the file is then the one step that shows.
- *What update leaves alone.* `UpdateInv` says that while update asks, its copy is the
  file, and that while it applies, an entry it has not come to is still that of the
  file. So no entry moves twice, and none comes back to its old commit without the
  hash it had.
- *What verify accepts.* A lockfile is finite (`FiniteLocks`: every run adds entries
  one at a time), so a directory some entry claims has a last claimant, which is
  the one `verify` compares. Where that one records a hash, `IntegritySound` says of
  which commit.
- *Green after rewrite* needs the most: `GreenInv` says that every pinned entry is
  filed under its own commit (`CommitsPinned`), that what lock passed over or
  dealt with is settled in `mem` or counted as a failure (`LockSettles`), and that
  a copy taken in the green stage stays green (`CopyStaysGreen`).
- *Where the uses are.* `ListedInv` says that the copy a clean lock is about to write
  was refreshed when it opened the file, after its last look at a use; `GreenInv`
  says that each use then had its entry, and no use changes before the file is
  written.
- *Vendor with --force.* `VendorInv` says that in such a run every entry done with and
  not failed has the hash of its own tree, and that its directory holds that tree
  unless the copy at work has just removed it. It is true only where no directory
  stands for two entries, which is the hypothesis `DirsApart`: `vendor_dir_name`
  (`action_locker.py:678`) writes the slashes of a name as `--` and keeps ten digits
  of the commit, so `o/r/a/b` and `o/r/a--b` at one commit share one.
- *Candidates.* `CandidateChecked`, and from it `CandidateFaithful`, is the heart of the
  structural rewrite. The parse a candidate is made from may belong to an older text or
  to another file. Where the parse has a mutable use, the token in the text was compared
  with it, so it is pinned, unless it is an alias, which nobody compares: that gets the
  pin of what was parsed. Where the parse has none and the text has a use, the second
  parse found that use's path in the first one and with the target that was wanted
  there, and a wanted target is never mutable, so the use was pinned already, or it is an
  alias whose anchor was replaced, which spells its own target. Hence a candidate is
  the pinned form of the text but for its aliases, whatever it was paired with, and of
  a text without aliases it is that form.
- *The promise.* `PlanInv` says that no file is listed twice, so none is prepared
  twice, that what is prepared comes from the part of the listing already passed,
  and that nothing stands replaced before everything is prepared. Each step is
  then a step of `PinFiles` or invisible to it.
- *An undisturbed rewrite.* `CalmInv` holds while nobody else has touched the files:
  the listings are the one increasing enumeration of the files there are
  (`ListedAsBegun`), so they agree and the parses belong to the files they are
  paired with; what is prepared is the pin of the text it was begun with
  (`PreparedAsBegun`); and each file holds that pin if it stands replaced and that
  text if not (`TextsAsBegun`). Success is then the case in which all stand
  replaced, a refusal without a failed restoration the one in which none does.
- *A rewrite in one step.* `AloneInv` says of the files nobody else has written, even
  when others are edited under the rewrite's hands, that what is prepared of them has
  the uses of the pinned text it was begun with (`AsPinned`, `AlonePrepared`), and that
  each holds what was prepared if it stands replaced and that text if not
  (`AloneTexts`). A file with aliases that is paired with the parse of another is left
  out (`OwnTargets`): an alias takes its pin from the parse, so such a file may get one
  it never asked for. So whenever the process ends, by itself or not, the files it
  pinned are a subset of those with something to pin, which is what `Rewrite` takes.
  That exit 0 means all of them is `SuccessPinsAll`, and holds undisturbed only:
  `claim_listing` shows what a file created at the wrong moment does to it.
- *Trusted ages.* An immutable release of a tag is asked for by name, long after the
  commit was found under that name. `QInv` says that whatever commit was ever found
  under a tag (by the lookup of a ref that is its name, `found`, in the listing, as a
  candidate) has been public at least as long as an immutable release of that tag says,
  if there is one. A tag with such a release does not move; one published later has age
  0. So the step that trusts the age of the tag trusts no more than that of the commit.
  Of a commit the lookup found under another name nothing of the kind is true, and
  nothing is claimed.
- *Held back.* Held back is a pin of a candidate after the first. `HeldInv` says that
  once the walk is past candidate 0 its age is unknown, or below the floor, or the
  policy takes trusted sources only. What a
  question may answer, and what is in force when (`Answers`), is an invariant of
  its own.
- *Candidates of a series.* `SeriesInv` says that the listing has members of the series
  only, and that a hash is added only when no candidate has it. All but the first are
  commits, so only a first one that is a tag object can stand for the commit of another.
- *A search in one step.* `Locker` picks by places in the listing: of those that stand for
  a commit not listed before, up to the cap, the first whose age was learnt and clears
  the floor. The search takes the newest tag left, adds it unless its commit is a
  candidate already, and then asks one candidate after another. `WalkInv` says that
  what it has been at lies before what is left (`Gone`, `Left`), that each commit it
  has been at is a candidate, and that the candidates after the first are first
  places of their commits, as many as there are such places behind the walk
  (`GoneInv`); what is left of the listing stands as it arrived (`ListedInv`). So a
  candidate is a place `Locker` may fall back to (`GoneIsFallback`): the places before
  it are counted by the candidates, and both stop at the cap. The search ends at the
  first age that clears, so the commits learnt to clear the floor are the one it pins, or
  none, and with that set `Targets` is the pick alone. That `aged` has that commit is
  `TrustedAgeIsReal`, the date of its committer, or `Misaged`.
- *The settings in force.* The order of the overrides is that of their places, and a
  place is a count. `Before` is a strict linear order (`BeforeIsOrder`), so what
  stands before has the smaller place (`PlaceFacts`); places are then different,
  and as there are as many places as overrides each is taken (`PlacesTaken`).
  The first match in that order has no match before it, which is what
  `MostSpecificRules` asks. `PolicyInv` carries this through the call.
- *Bounds.* That `Remaining` is a number needs finite sets: of keys (`FiniteWork`; what a
  command has to do comes from the workflows or from a lockfile that is finite), of
  files, of names. That it falls needs what the phases know: that a key asked about is not
  in `latest` yet, that `parse` never has more results than files (`Counts`), that a
  candidate asked about is one of the list. A rewrite that fails turns back, so a
  replacement still to come counts twice what a restoration does. With the bounds,
  what `Terminates`, `RewriteEnds` and `PickEnds` still take from TLC alone is
  that a process which has not ended can take its step, and does.
- *The stack.* `StackInv` says that between documents the stack is empty, that within
  one it has the end of the document at the bottom and nowhere else (`Shape`), and
  that the open collections are those the stack and the current method stand for
  (`Balanced`). Counting a filtered stack under `Append` and `Front` is the work.
  `NothingLeftOpen` follows, for every text and however the scanner makes tokens.
- *Pending keys.* A key remembers the number its token has among all tokens of the text,
  and `Value` inserts KEY at that number less the tokens handed out. `KeyInv` says for
  every key that can still become one that its token stands at that place of the queue
  and is no comment and no end of a block (`Pointed`); that the key of an inner flow
  level is later than that of an outer one (`Ordered`), so a KEY put before it moves no
  token another key points at; and that a token already handed out is awaited by no key
  (`Passed`). The last is why comments behind the first token may be dropped: they go
  only once `NeedMore` is false, and then nothing awaits that token. A comment on a line
  of its own leaves every key stale, which needs the lines of a text never to go back.
- *The copy of the library.* `GateInv` says that the manifest in the copy either lists
  every file of the pinned package or lacks one of its modules (`ManifestInv`),
  because it is written last, of a copy that is whole (`WriteInv`, `Clean`), and a
  manifest cut short loses its last lines first. A copy that can be imported has
  all modules; if it also agrees with its manifest, that manifest is complete.
  `ScanForetells` holds in every state, whatever the backends find.

`TagsInv`, `LedgerInv`, `ChangeInv`, `UpdateInv`, `GreenInv`, `ListedInv`, `VendorInv`,
`PlanInv`, `CalmInv`, `AloneInv`, `Counts`, `QInv`, `WalkInv`, `StackInv`, `KeyInv` and
`GateInv` were checked by TLC on the instances above before they were proved. The proofs
use no fact but the assumptions named in the modules (kinds of the constants, distinct
marks, an injective order of keys, series that are sequences, finite sets of slots, of
files and of names, pinned targets that are not mutable, for `RewriteCommand` a lockfile
with a mutable entry whose pins those targets are, for `QuarantineStep` a series that
puts newer releases first, names that differ from hashes and stand in some order, policy
blocks that have overrides with prefixes, the two facts about GitHub, texts with lines
that do not go back, a package that is not empty), and `DirsApart` where it is named.
TLC evaluates every assumption in the runs.

`Policy` and `YamlScanner` say what a stable sort, a filtered sequence or an updated
dictionary is by counts, comprehensions and functions, not with `SortSeq`,
`SelectSeq` or `@@`: those are recursive or built on `CHOOSE`, and the provers know
nothing of them.

Only model-checked: the liveness properties `Terminates`, `RewriteEnds`, `PickEnds`
and `ReadingEnds` (fairness and `ENABLED` are beyond the prover; of the first three
the bounds are proved, see above), `ReadsWhatWasMeant` (it compares
sample texts with what each was written to mean, so it says nothing beyond the
samples) and `LabFindsEverySlot` (two readers of one text, each a loop over all of
it: that they agree is an induction over the text, and the model is checked on the
texts that are read).

## 5. Findings

Each is a run that TLC refutes, and a line of the documentation or of a comment
that it contradicts.

| Run | What the code does | What is said |
|---|---|---|
| `claim_integrity` | `verify` keeps one entry per vendor directory, so a hash recorded under another entry of the same commit is never compared | README.md:124 |
| `claim_force` | `lock --force` passes a pinned use over as covered by an entry it then moves, and exits 0 | `action_locker.py:2452` |
| `claim_forward` | when one age lookup fails, `update --apply` moves a pin back to an older release | README.md:156 |
| `claim_listing` | a file created between the two listings shifts them, an untouched file is passed over, and `rewrite` exits 0 | README.md:89 |
| `claim_refused` | eight fresh releases hide an aged one: the walk stops at its cap and refuses | README.md:165 |
| `claim_half_read` | `lab/0` takes a line that begins with a dash for an item, also where it continues the value above, and reports half the value | `action_locker.py:1485` |

Seen while modelling, without a run: `rewrite` never moves a use that is already a
commit, so after `update --apply` it exits 0 and `verify` fails; `vendor` exits 0
over a copy that an earlier run cut short; a refused rewrite leaves a file changed
when changing it back fails too; `lab/0` accepts files the structural backend
refuses for the shape of `jobs` or `steps`, although its docstring speaks of
refusing what it does not understand; `resolve_ref_to_sha` returns the object of
an annotated tag, not its commit, when the first lookup answers, so the commit may be
looked at again under another tag (`CandidatesDistinct`); a branch `v4`, or a tag `a/v4`,
that a lookup of `v4` finds is aged by the release of the tag `v4`, although the
docstring of `ref_age_days` (`action_locker.py:460`) takes a release "when the ref came
from a tag that has one" (`Misaged`); a use that is an alias, in a file whose anchor
changed between the parse and the rewrite, or that was paired with the parse of another
file, is pinned to what the parse said, although `_validate_source_scalar`
(`action_locker.py:2952`) is to "cross-check a located token against the parser's
semantic value" (`PinnedAt`); `scan --parser lab` exits 0 where `rewrite` refuses that
backend, and a scan lets targets pass that `lock` and `verify` cannot split
(`RefusesLab`, `RefusesUses`); with `ACTION_LOCKER_PARSER` set and empty, `scan` runs the
stable backend and the other commands exit 2 (`ScanForetells` leaves that setting out).

## 6. What is not modelled, and why

- The report of `scan` and of `scan --parser compare`, and what `lab/0` is expected to
  refuse: they only print. The comparison and the exit status are modelled.
- The legacy rewrite's regular expressions: `Locker!Rewrite` allows any part of the
  affected files to be pinned before it fails, which is all an observer of the
  workflows can tell of it.
- The dumping side of the bundled library (`emitter.py`, `serializer.py`,
  `representer.py`) and its round-trip objects: the program never dumps.
- Characters: escapes, line folding, tags, the spelling of numbers and dates. The
  texts contain one word for each class the modelled code tells apart.
- `scripts/update_external_parser_corpus.py`: it downloads files for tests.
- The dispatch workflow: a loop of another program over `subscribers.txt`.
- Two invocations at once.

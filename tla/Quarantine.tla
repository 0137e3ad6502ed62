------------------------------ MODULE Quarantine ------------------------------
(***************************************************************************)
(* How lock and update find the commit to pin: resolve_ref_to_sha looks a  *)
(* ref up, list_series_tags lists its release series, select_aged_target   *)
(* walks the series from the newest release down, and ref_age_days asks    *)
(* three questions, in order of trust, about the age of each candidate.    *)
(* Every question is a call to git or to the GitHub API that may go        *)
(* unanswered, and the repository changes between any two of them.         *)
(***************************************************************************)
EXTENDS Policy

CONSTANTS
    Commits,        \* the commits of the repository
    Objects,        \* the tag objects of its annotated tags
    CommitOf,       \* the commit a tag object, or a commit, peels to
    Names,          \* tag names: directories, with no dash in them, then
                    \* chunks, some led by a dash: a/v4.3-rc has
                    \* dir <<a>>, v <<4, 3, rc>> and dash {3}
    Branches,       \* branch names, of the same shape
    Line,           \* where a name stands in a listing of the server
    PublicFor,      \* days since a commit became public
    MergedFor,      \* days since the first pull request with it was merged
    CommittedFor,   \* days since the date its committer wrote into it
    FirstTags,      \* the states the tags may start in
    FirstReleases,  \* and the releases
    FirstHeads,     \* and the branches
    MaxCandidates,  \* candidates looked at (eight)
    MaxMoves,       \* bound on the changes to the repository during a run
    Policies,       \* the policy blocks the lockfile may hold
    Me,             \* the action that is being pinned
    None

ASSUME Shapes ==
    /\ CommitOf \in [Commits \cup Objects -> Commits]
    /\ \A c \in Commits : CommitOf[c] = c
    /\ PublicFor \in [Commits -> Nat]
    /\ CommittedFor \in [Commits -> Nat]
    /\ MergedFor \in [Commits -> Nat \cup {None}]
    /\ FirstHeads \subseteq [Branches -> Commits]
    /\ MaxCandidates \in Nat \ {0, 1}
    /\ MaxMoves \in Nat

Shas == Commits \cup Objects

ASSUME FinitelyMany == IsFiniteSet(Names)

ASSUME NoneIsNothing == None \notin Nat \cup Shas \cup Names

Releases == [age : Nat, immutable : BOOLEAN]

(* merged_at is stamped by GitHub when the merge makes the commit public.    *)
ASSUME MergeIsPublic ==
    \A c \in Commits : MergedFor[c] \in Nat => MergedFor[c] <= PublicFor[c]

(* An immutable release freezes its tag, so the tagged commit has been       *)
(* public for at least as long.                                              *)
ASSUME ReleaseIsPublic ==
    /\ FirstTags \subseteq [Names -> Shas \cup {None}]
    /\ FirstReleases \subseteq [Names -> Releases \cup {None}]
    /\ \A t \in FirstTags, r \in FirstReleases, n \in Names :
          (r[n] # None /\ r[n].immutable) =>
              t[n] \in Shas /\ r[n].age <= PublicFor[CommitOf[t[n]]]

(* No name looks like a commit; a branch may have the name of a tag.         *)
ASSUME NamesApart == (Names \cup Branches) \cap Shas = {}

(* A listing is in the order of the names, which are of any length.          *)
ASSUME NamesInOrder ==
    /\ \A n \in Names \cup Branches :
          /\ Len(n.v) \in Nat /\ DOMAIN n.v = 1..Len(n.v)
          /\ \A j \in DOMAIN n.v : n.v[j] \in Nat
    /\ Line \in [Names \cup Branches -> Nat]
    /\ IsInjective(Line)

(* A block of another shape is an error of normalize_policy like a bare      *)
(* prefix is.                                                                *)
ASSUME PoliciesAreBlocks == \A p \in Policies : IsBlock(p)

(* check_age lets only numbers through.                                      *)
ASSUME FloorIsNumber ==
    /\ Default.min_age_days \in Nat
    /\ \A p \in Policies : ~Errors(p) => Effective(Me, Normalized(p)).min_age_days \in Nat

VARIABLES
    \* the repository
    tagged,         \* what each tag points at, None when there is no such tag
    heads,          \* the commit at the tip of each branch
    releases,       \* the release published for each tag
    moves,          \* how often the repository has changed
    \* the call
    policy,         \* the policy block of the lockfile
    ref,            \* the ref to pin
    floor,          \* [min_age_days, require_trusted_age, fallback] in force
    pc,             \* the next question
    resolved,       \* what resolve_ref_to_sha returned
    found,          \* the tag it was found under, None for a branch (history)
    listing,        \* tag -> commit, from list_series_tags
    candidates,     \* the candidates so far
    i,              \* the candidate whose age is asked for
    newest,         \* the age of candidate 0
    unknown,        \* any_unknown
    result

repository == <<tagged, heads, releases, moves>>
vars == <<tagged, heads, releases, moves, policy, ref, floor, pc, resolved, found,
          listing, candidates, i, newest, unknown, result>>

(* is_sha                                                                    *)
IsSha(x) == x \in Shas

(* ls-remote takes a ref as the tail of a name: v4 also stands for a/v4.     *)
EndsIn(n, r) == /\ n.v = r.v /\ n.dash = r.dash
                /\ \E k \in 0..Len(n.dir) : SubSeq(n.dir, k + 1, Len(n.dir)) = r.dir
TagsLike(r)  == {n \in Names : tagged[n] # None /\ EndsIn(n, r)}
HeadsLike(r) == {b \in Branches : EndsIn(b, r)}
IsFirst(n, S) == n \in S /\ \A m \in S : Line[n] <= Line[m]
IsLast(n, S)  == n \in S /\ \A m \in S : Line[m] <= Line[n]

(* The release series of a ref: the tag itself and what extends it by a dot; *)
(* names with a dash only when the ref has one.                              *)
Extends(n, r) == /\ n.dir = r.dir /\ Len(r.v) < Len(n.v)
                 /\ SubSeq(n.v, 1, Len(r.v)) = r.v
                 /\ n.dash \cap 1..(Len(r.v) + 1) = r.dash
InSeries(n, r) == (n = r \/ Extends(n, r)) /\ (n.dash # {} => r.dash # {})

(* version_key, newest first: chunk by chunk, v4.3 above v4, and in the      *)
(* order of the listing when the chunks are the same.                        *)
Newer(m, n) == \/ Len(n.v) < Len(m.v) /\ SubSeq(m.v, 1, Len(n.v)) = n.v
               \/ \E j \in DOMAIN m.v \cap DOMAIN n.v :
                     m.v[j] > n.v[j] /\ SubSeq(m.v, 1, j - 1) = SubSeq(n.v, 1, j - 1)
               \/ m.v = n.v /\ Line[m] < Line[n]

Peeled(n) == CommitOf[tagged[n]]

Nothing == [ok |-> FALSE, reason |-> "none"]

Init == /\ tagged \in FirstTags
        /\ releases \in FirstReleases
        /\ heads \in FirstHeads
        /\ moves = 0
        /\ policy \in Policies
        /\ ref \in Names \cup Branches \cup Commits
        /\ pc = "policy" /\ floor = Default
        /\ resolved = None /\ found = None /\ listing = <<>> /\ candidates = <<>>
        /\ i = 1 /\ newest = None /\ unknown = FALSE /\ result = Nothing

Ends(outcome) == result' = outcome /\ pc' = "end"
Fails(why) == Ends([ok |-> FALSE, reason |-> why])

(* A malformed policy stops the command before anything is asked.            *)
ReadPolicy ==
    /\ pc = "policy"
    /\ \/ Errors(policy) /\ Fails("policy") /\ UNCHANGED floor
       \/ /\ ~Errors(policy)
          /\ floor' = Effective(Me, Normalized(policy))
          /\ pc' = IF IsSha(ref) THEN "walk" ELSE "tags"
          /\ UNCHANGED result
    /\ resolved' = IF IsSha(ref) THEN ref ELSE None
    /\ UNCHANGED <<repository, policy, ref, found, listing, candidates, i, newest,
                   unknown>>

(* ----------------------------- resolve_ref_to_sha ------------------------ *)
Finds(sha, tag) ==
    /\ resolved' = sha /\ found' = tag /\ pc' = "walk"
    /\ UNCHANGED <<result, floor>>
Skips(next) == pc' = next /\ UNCHANGED <<resolved, found, result, floor>>
Gives(why)  == Fails(why) /\ UNCHANGED <<resolved, found, floor>>

(* ls-remote --tags --refs: the first tag as it stands, never peeled.  An    *)
(* exit status other than 0 goes on to the branches, a timeout to the API.   *)
AskTags == /\ pc = "tags"
           /\ \/ \E n \in Names : IsFirst(n, TagsLike(ref)) /\ Finds(tagged[n], n)
              \/ Skips("heads")
              \/ Skips("apiTags")

AskHeads == /\ pc = "heads"
            /\ \/ \E b \in Branches : IsFirst(b, HeadsLike(ref)) /\ Finds(heads[b], None)
               \/ Skips("any")
               \/ Skips("apiTags")

(* The unfiltered ls-remote, read from its end: the tags come last, each     *)
(* with the commit it peels to.                                              *)
AskAny == /\ pc = "any"
          /\ \/ \E n \in Names : IsLast(n, TagsLike(ref)) /\ Finds(Peeled(n), n)
             \/ /\ TagsLike(ref) = {}
                /\ \E b \in Branches : IsLast(b, HeadsLike(ref)) /\ Finds(heads[b], None)
             \/ Skips("apiTags")

(* The API knows a ref by its whole name, and a tag object is peeled.  An    *)
(* HTTP error goes on to the next question; any other error of urllib is not *)
(* caught.                                                                   *)
AskApiTags == /\ pc = "apiTags"
              /\ \/ /\ ref \in Names /\ tagged[ref] # None
                    /\ Finds(Peeled(ref), ref)
                 \/ Skips("apiHeads")
                 \/ Gives("uncaught")

AskApiHeads == /\ pc = "apiHeads"
               /\ \/ ref \in Branches /\ Finds(heads[ref], None)
                  \/ Gives("unresolved")
                  \/ Gives("uncaught")

Resolve == /\ AskTags \/ AskHeads \/ AskAny \/ AskApiTags \/ AskApiHeads
           /\ UNCHANGED <<repository, policy, ref, listing, candidates, i,
                          newest, unknown>>

(* ----------------------------- select_aged_target ------------------------ *)
Candidate(tag, sha) == [tag |-> tag, sha |-> sha]
(* Mutation: the commit of the ref itself is not remembered.                 *)
SeenFallbacks == {candidates[j].sha : j \in DOMAIN candidates \ {1}}
SeenShas == {candidates[j].sha : j \in DOMAIN candidates}

(* A trusted prefix exempts an action from the floor.                        *)
Exempt == TrustedBy(Me, policy.trusted)
PinExempt ==
    /\ pc = "walk" /\ Exempt
    /\ Ends([ok |-> TRUE, reason |-> "exempt", sha |-> resolved, tag |-> ref,
             age |-> None, held |-> FALSE])
    /\ UNCHANGED <<repository, policy, ref, floor, resolved, found, listing,
                   candidates, i, newest, unknown>>

(* Candidate 0 is what the ref points at.  list_series_tags is one more call *)
(* to git, some time after the ref was resolved; without an answer there is  *)
(* no series.                                                                *)
ListSeries ==
    /\ pc = "walk" /\ candidates = <<>> /\ ~Exempt
    /\ candidates' = <<Candidate(ref, resolved)>>
    /\ \/ /\ floor.fallback /\ ~IsSha(ref)
          /\ listing' = [n \in {m \in Names : tagged[m] # None /\ InSeries(m, ref)}
                           |-> Peeled(n)]
       \/ listing' = <<>>
    /\ UNCHANGED <<repository, policy, ref, floor, pc, resolved, found, i,
                   newest, unknown, result>>

(* Mutation: the oldest first, sorted without reverse.                       *)
AddOldest ==
    /\ pc = "walk" /\ candidates # <<>>
    /\ Len(candidates) < MaxCandidates
    /\ \E n \in DOMAIN listing :
          /\ \A m \in DOMAIN listing \ {n} : Newer(m, n)
          /\ candidates' = IF listing[n] \in SeenShas THEN candidates
                           ELSE Append(candidates, Candidate(n, listing[n]))
          /\ listing' = [m \in DOMAIN listing \ {n} |-> listing[m]]
    /\ UNCHANGED <<repository, policy, ref, floor, pc, resolved, found, i,
                   newest, unknown, result>>

(* The newest tag left is a candidate unless its commit is one already.      *)
AddCandidate ==
    /\ pc = "walk" /\ candidates # <<>>
    /\ Len(candidates) < MaxCandidates
    /\ \E n \in DOMAIN listing :
          /\ \A m \in DOMAIN listing \ {n} : Newer(n, m)
          /\ candidates' = IF listing[n] \in SeenShas THEN candidates
                           ELSE Append(candidates, Candidate(n, listing[n]))
          /\ listing' = [m \in DOMAIN listing \ {n} |-> listing[m]]
    /\ UNCHANGED <<repository, policy, ref, floor, pc, resolved, found, i,
                   newest, unknown, result>>

(* Mutation: the walk goes on until all candidates are found.                *)
WalkedFull ==
    /\ pc = "walk" /\ Len(candidates) = MaxCandidates
    /\ pc' = "release"
    /\ UNCHANGED <<repository, policy, ref, floor, resolved, found, listing,
                   candidates, i, newest, unknown, result>>

Walked ==
    /\ pc = "walk" /\ candidates # <<>>
    /\ Len(candidates) = MaxCandidates \/ DOMAIN listing = {}
    /\ pc' = "release"
    /\ UNCHANGED <<repository, policy, ref, floor, resolved, found, listing,
                   candidates, i, newest, unknown, result>>

(* ------------------------------- ref_age_days ---------------------------- *)
Current == candidates[i]

(* Mutation: any release counts.                                             *)
ReleaseAgeAny(tag) ==
    IF tag \in Names /\ releases[tag] # None THEN releases[tag].age ELSE None
(* get_release_published_at: only an immutable release counts.               *)
ReleaseAge(tag) ==
    IF tag \in Names /\ releases[tag] # None /\ releases[tag].immutable
    THEN releases[tag].age ELSE None

Sources == {"release", "merged", "committed"}
IsTrusted(source) == source # "committed"

(* Mutation: the walk goes one candidate too far, with the age of none.      *)
JudgeOneMore(age, source) ==
    /\ newest' = IF i = 1 THEN age ELSE newest
    /\ unknown' = (unknown \/ age = None)
    /\ i' = i + 1
    /\ IF i <= Len(candidates) THEN pc' = "release" /\ UNCHANGED result
       ELSE Fails("fresh")

(* Mutation: every candidate passes for the newest.                          *)
JudgeForgets(age, source) ==
    /\ newest' = age
    /\ unknown' = (unknown \/ age = None)
    /\ IF age # None /\ age >= floor.min_age_days
       THEN /\ Ends([ok |-> TRUE, reason |-> source, sha |-> Current.sha,
                     tag |-> Current.tag, age |-> age, held |-> i > 1])
            /\ UNCHANGED i
       ELSE IF i < Len(candidates)
       THEN i' = i + 1 /\ pc' = "release" /\ UNCHANGED result
       ELSE Fails("fresh") /\ UNCHANGED i

(* What the loop does with the age of one candidate.                         *)
Judge(age, source) ==
    /\ newest' = IF i = 1 THEN age ELSE newest
    /\ unknown' = (unknown \/ age = None)
    /\ IF age # None /\ (floor.require_trusted_age => IsTrusted(source))
          /\ age >= floor.min_age_days
       THEN /\ Ends([ok |-> TRUE, reason |-> source, sha |-> Current.sha,
                     tag |-> Current.tag, age |-> age, held |-> i > 1])
            /\ UNCHANGED i
       ELSE IF i < Len(candidates)
       THEN i' = i + 1 /\ pc' = "release" /\ UNCHANGED result
       ELSE /\ Fails(IF unknown' /\ newest' = None THEN "unknown" ELSE "fresh")
            /\ UNCHANGED i

(* A lookup that fails, times out or finds nothing sends the question down   *)
(* the ladder.                                                               *)
Asks(source, age, next) ==
    /\ pc = source
    /\ \/ age # None /\ Judge(age, source)
       \/ next # "end" /\ pc' = next /\ UNCHANGED <<i, newest, unknown, result>>
       \/ next = "end" /\ Judge(None, source)
    /\ UNCHANGED <<repository, policy, ref, floor, resolved, found, listing,
                   candidates>>

AskRelease   == Asks("release", ReleaseAge(Current.tag), "merged")
AskMerged    == Asks("merged", MergedFor[CommitOf[Current.sha]], "committed")
(* Mutation: without an answer the ladder is climbed again.                  *)
AskCommittedAgain == Asks("committed", CommittedFor[CommitOf[Current.sha]], "release")
AskCommitted == Asks("committed", CommittedFor[CommitOf[Current.sha]], "end")

(* ------------------------------ the repository --------------------------- *)
(* A tag without an immutable release moves.                                 *)
MoveTag == /\ moves < MaxMoves
           /\ \E n \in Names, s \in Shas :
                 /\ releases[n] # None => ~releases[n].immutable
                 /\ tagged[n] # s
                 /\ tagged' = [tagged EXCEPT ![n] = s]
           /\ UNCHANGED <<heads, releases>>

(* An immutable release is published now.                                    *)
Publish == /\ moves < MaxMoves
           /\ \E n \in Names :
                 /\ tagged[n] # None
                 /\ releases[n] = None
                 /\ releases' = [releases EXCEPT ![n] = [age |-> 0, immutable |-> TRUE]]
           /\ UNCHANGED <<tagged, heads>>

Upstream == /\ MoveTag \/ Publish
            /\ pc # "end"
            /\ moves' = moves + 1
            /\ UNCHANGED <<policy, ref, floor, pc, resolved, found, listing,
                           candidates, i, newest, unknown, result>>

Pick == ReadPolicy \/ Resolve \/ PinExempt \/ ListSeries \/ AddCandidate \/ Walked
        \/ AskRelease \/ AskMerged \/ AskCommitted

Next == Pick \/ Upstream
Spec == Init /\ [][Next]_vars
(* Every call to git and to the API ends, with an answer or without.         *)
FairSpec == Spec /\ WF_vars(Pick)

(* ------------------------------- properties ------------------------------ *)
(* Every variable has its type.                                              *)
Steps == {"policy", "tags", "heads", "any", "apiTags", "apiHeads", "walk",
          "release", "merged", "committed", "end"}
Reasons == Sources \cup {"none", "policy", "uncaught", "unresolved", "exempt",
                         "unknown", "fresh"}
Refs == Names \cup Branches \cup Shas
TypeOK ==
    /\ tagged \in [Names -> Shas \cup {None}]
    /\ heads \in [Branches -> Commits]
    /\ releases \in [Names -> Releases \cup {None}]
    /\ moves \in 0..MaxMoves
    /\ policy \in Policies
    /\ ref \in Refs /\ pc \in Steps
    /\ resolved \in Shas \cup {None} /\ found \in Names \cup {None}
    /\ \E S \in SUBSET Names : listing \in [S -> Commits]
    /\ candidates \in Seq([tag : Refs, sha : Shas])
    /\ i \in Nat \ {0}
    /\ candidates # <<>> => i \in DOMAIN candidates
    /\ newest \in Nat \cup {None} /\ unknown \in BOOLEAN
    /\ result.ok \in BOOLEAN /\ result.reason \in Reasons
    /\ result.ok => result.sha \in Shas /\ result.tag \in Refs

(* A pin that rests on a merged pull request, or on the immutable release of *)
(* the tag its commit was found under, is a commit that really has been      *)
(* public for the days the policy asks, whatever moved between the calls     *)
(* that found the commit and those that found its age.  (A commit found      *)
(* under another name, a branch of the tag's name or a/v4 for v4, is aged by *)
(* the release of the ref all the same.)                                     *)
AgedByItsOwn == result.reason = "merged"
                \/ (result.reason = "release" /\ (result.held \/ found = ref))
TrustedAgeIsReal ==
    (result.ok /\ AgedByItsOwn) => PublicFor[CommitOf[result.sha]] >= floor.min_age_days

(* The pin is held back only when what the ref points at is not known to be  *)
(* old enough, by a source the policy takes.                                 *)
HeldBackForAReason ==
    (result.ok /\ result.held) =>
        newest = None \/ newest < floor.min_age_days \/ floor.require_trusted_age

(* No commit is looked at twice, unless the ref led to a tag object: what is *)
(* remembered of that is its own hash, not the commit behind it.  There are  *)
(* never more candidates than the bound, and every one after the first is a  *)
(* release of the series that was asked for.                                 *)
CommitAt(j) == CommitOf[candidates[j].sha]
CandidatesDistinct ==
    /\ Len(candidates) <= MaxCandidates
    /\ \A j, k \in DOMAIN candidates :
          /\ candidates[j].sha = candidates[k].sha => j = k
          /\ CommitAt(j) = CommitAt(k) =>
                j = k \/ (1 \in {j, k} /\ candidates[1].sha \in Objects)
    /\ \A j \in DOMAIN candidates : j > 1 => InSeries(candidates[j].tag, ref)

(* The settings in force are those of the longest prefix that matches,       *)
(* wherever it stands in the file, and of the first one of several; what it  *)
(* leaves out is that of the block, then the default.  A malformed block     *)
(* pins nothing.                                                             *)
MostSpecificRules ==
    LET block    == policy.overrides
        match    == {j \in DOMAIN block : IsPrefix(block[j].prefix, Me)}
        length(j) == Len(block[j].prefix)
        Yields(j, k) == length(k) < length(j) \/ (length(k) = length(j) /\ j <= k)
        InForce(own) == \A key \in Settings :
            floor[key] = IF key \in DOMAIN own THEN own[key]
                         ELSE IF key \in DOMAIN policy.fields THEN policy.fields[key]
                         ELSE Default[key]
    IN  /\ Errors(policy) => ~result.ok
        /\ pc \notin {"policy", "end"} =>
              IF match = {} THEN InForce(<<>>)
              ELSE \E j \in match : /\ \A k \in match : Yields(j, k)
                                    /\ InForce(block[j].fields)

(* At most so many steps are left: lookups, the listing, its releases, and   *)
(* three questions for each candidate.                                       *)
LookupsLeft == CASE pc = "policy" -> 6 [] pc = "tags" -> 5 [] pc = "heads" -> 4
                 [] pc = "any" -> 3 [] pc = "apiTags" -> 2 [] pc = "apiHeads" -> 1
                 [] OTHER -> 0
QuestionsLeft == CASE pc = "release" -> 3 [] pc = "merged" -> 2 [] OTHER -> 1
Remaining ==
    IF pc = "end" THEN 0
    ELSE IF pc \in Sources THEN 3 * (Len(candidates) - i) + QuestionsLeft
    ELSE 3 * MaxCandidates + 1
           + (IF candidates = <<>> THEN LookupsLeft + Cardinality(Names) + 1
                                   ELSE Cardinality(DOMAIN listing))

(* Nothing is asked twice: every step of the search brings it nearer to its  *)
(* end, however often it goes unanswered, and nothing that happens upstream  *)
(* takes it back.                                                            *)
SearchIsBounded ==
    [][IF moves' = moves THEN Remaining' < Remaining ELSE Remaining' = Remaining]_vars

(* Whatever goes unanswered, the search for a pin ends.                      *)
PickEnds == <>(pc = "end")

=============================================================================

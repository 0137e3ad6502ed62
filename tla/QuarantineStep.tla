---------------------------- MODULE QuarantineStep ----------------------------
(* The search for a commit as Locker takes it: once a ref is resolved, one   *)
(* step pins it or refuses it.  The search asks one question after the       *)
(* other while the repository changes; Locker picks from the series as the   *)
(* listing found it, and knows the ages all at once.                         *)
EXTENDS Quarantine

CONSTANT Series     \* the release series of each name, newest first

(* Any order of the series that puts a newer release before an older one.    *)
ASSUME SeriesAssumption ==
    \A r \in Names \cup Branches :
        /\ Series[r] \in Seq(Names)
        /\ {Series[r][a] : a \in DOMAIN Series[r]} = {n \in Names : InSeries(n, r)}
        /\ \A a, b \in DOMAIN Series[r] :
              /\ Series[r][a] = Series[r][b] => a = b
              /\ Newer(Series[r][a], Series[r][b]) => a < b

VARIABLE listed     \* the listing as it arrived (history)

stepVars == <<vars, listed>>

StepInit == Init /\ listed = <<>>
StepNext == /\ Next
            /\ listed' = IF ListSeries THEN listing' ELSE listed
StepSpec == StepInit /\ [][StepNext]_stepVars
FairStepSpec == StepSpec /\ WF_vars(Pick)

-----------------------------------------------------------------------------
(* Locker's state for a lock whose only key is the ref at hand.              *)
Key == <<Me, ref>>

(* The commits of which some source the policy takes says they are old       *)
(* enough: a trusted one never says more than how long they were public, but *)
(* for the release of the ref when its commit was found under another name.  *)
Misaged(s) == /\ s = resolved /\ found # ref
              /\ ReleaseAge(ref) # None /\ ReleaseAge(ref) >= floor.min_age_days
Clears == {s \in Shas :
              \/ PublicFor[CommitOf[s]] >= floor.min_age_days
              \/ Misaged(s)
              \/ /\ ~floor.require_trusted_age
                 /\ CommittedFor[CommitOf[s]] >= floor.min_age_days}

Listed == [t \in {Me} \X (Names \cup Branches) |->
              IF t[2] \in DOMAIN listed THEN listed[t[2]] ELSE None]

(* The command has just been given the commit of its key, or it is done with *)
(* the key.  An exempt action is one of a lock that allows fresh commits.    *)
LockCall == [cmd |-> "lock", force |-> FALSE, fresh |-> Exempt, apply |-> FALSE]

Nowhere == [k \in {} |-> None]
InHand  == IF pc = "end" THEN Nowhere ELSE [k \in {Key} |-> resolved]

(* The new entry; this lock has nobody who uses the key, nor a copy of it.   *)
Pinned == IF pc = "end" /\ result.ok
          THEN [k \in {Key} |->
                  [resolved  |-> result.sha,
                   selected  |-> IF result.held THEN result.tag ELSE None,
                   integrity |-> None,
                   at        |-> {}]]
          ELSE Nowhere

Command == INSTANCE Locker WITH
    Actions <- {Me}, Repos <- {Me}, RepoOf <- [a \in {Me} |-> Me],
    Tags <- Names \cup Branches, Slots <- {}, Files <- {}, FileOf <- <<>>,
    Rank <- [k \in {Me} \X (Names \cup Branches \cup Shas) |-> 0], Trusted <- {},
    Dirs <- {}, DirOf <- <<>>, Invocations <- {}, Bindings <- {}, Retirable <- {},
    TypedRefs <- {}, Edited <- {},
    NoUse <- None, Absent <- None, Partial <- None, Tampered <- None, Torn <- None,
    uses <- <<>>, lockfile <- Nowhere, vendor <- <<>>,
    upstream <- Listed, published <- {}, aged <- Clears,
    pc <- "lock", inv <- LockCall, mem <- Pinned,
    todo <- IF pc = "end" THEN {} ELSE {Key}, latest <- InHand,
    failed <- pc = "end" /\ ~result.ok, dirty <- FALSE, exit <- None,
    stage <- "edited"

-----------------------------------------------------------------------------
(* The search ends as Locker's lock does with a key, in one step: it pins    *)
(* what the ref points at, or a release an accepted source calls old enough, *)
(* one of those Locker's Fallbacks takes from the listing, whatever happened *)
(* to the tags since; or it refuses.  The entry says which of the releases   *)
(* it is, and nothing when it is what the ref points at.                     *)
PickIsOneStep ==
    [][(pc \in {"walk"} \cup Sources /\ pc' = "end")
         => Command!LockPin(Key) \/ Command!LockRefuse(Key)]_stepVars

=============================================================================

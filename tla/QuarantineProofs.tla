--------------------------- MODULE QuarantineProofs ---------------------------
(* Proofs about Quarantine and QuarantineStep, for every value of their      *)
(* constants.                                                                *)
EXTENDS QuarantineStep, FiniteSetTheorems, FunctionTheorems, WellFoundedInduction, TLAPS

(* What is known of a tag and a commit that was once looked up under it: an  *)
(* immutable release of the tag is no older than the commit is public.       *)
Sound(tag, sha) ==
    (tag \in Names /\ releases[tag] # None /\ releases[tag].immutable) =>
        releases[tag].age <= PublicFor[CommitOf[sha]]

Typed ==
    /\ tagged \in [Names -> Shas \cup {None}]
    /\ heads \in [Branches -> Commits]
    /\ releases \in [Names -> Releases \cup {None}]
    /\ policy \in Policies
    /\ ref \in Names \cup Branches \cup Shas
    /\ floor.min_age_days \in Nat
    /\ resolved \in Shas \cup {None} /\ found \in Names \cup {None}
    /\ DOMAIN listing \subseteq Names
    /\ \A n \in DOMAIN listing : listing[n] \in Commits
    /\ candidates \in Seq([tag : Names \cup Branches \cup Shas, sha : Shas])
    /\ i \in Nat \ {0}
    /\ candidates # <<>> => i \in DOMAIN candidates

Located ==
    /\ pc = "walk" => resolved \in Shas
    /\ pc \in Sources => candidates # <<>>
    /\ candidates = <<>> => i = 1
    /\ candidates # <<>> => pc \in {"walk", "end"} \cup Sources
    /\ result.ok => pc = "end"

SoundWorld ==
    \A n \in Names : tagged[n] # None => Sound(n, tagged[n])
(* The ref answers for its commit only when that was found under its name.   *)
SoundCall ==
    /\ (resolved # None /\ found = ref) => Sound(ref, resolved)
    /\ \A n \in DOMAIN listing : Sound(n, listing[n])
    /\ \A j \in DOMAIN candidates :
          (j # 1 \/ found = ref) => Sound(candidates[j].tag, candidates[j].sha)

QInv == Typed /\ Located /\ SoundWorld /\ SoundCall /\ TrustedAgeIsReal

(* What a tag object or a commit peels to is a commit.                       *)
LEMMA PeelFacts ==
    ASSUME NEW s \in Shas
    PROVE  /\ CommitOf[s] \in Commits /\ CommitOf[s] \in Shas
           /\ CommitOf[CommitOf[s]] = CommitOf[s]
           /\ PublicFor[CommitOf[s]] \in Nat /\ CommittedFor[CommitOf[s]] \in Nat
           /\ MergedFor[CommitOf[s]] \in Nat \cup {None}
           /\ s # None
  BY Shapes, NoneIsNothing DEF Shas

(* Sound with the releases as they are after a step.                         *)
SoundAfter(tag, sha) ==
    (tag \in Names /\ releases'[tag] # None /\ releases'[tag].immutable) =>
        releases'[tag].age <= PublicFor[CommitOf[sha]]

(* The repository starts sound.                                              *)
LEMMA InitSound == Init => QInv
<1> SUFFICES ASSUME Init PROVE QInv
  OBVIOUS
<1>1. /\ tagged \in [Names -> Shas \cup {None}]
      /\ releases \in [Names -> Releases \cup {None}]
  BY ReleaseIsPublic DEF Init
<1>2. SoundWorld
  BY ReleaseIsPublic DEF Init, SoundWorld, Sound
<1>3. Typed
  BY <1>1, FloorIsNumber, NoneIsNothing, Shapes DEF Init, Typed, Shas
<1>4. Located /\ SoundCall /\ TrustedAgeIsReal
  BY NoneIsNothing DEF Init, Located, SoundCall, TrustedAgeIsReal, Nothing, Sources
<1> QED
  BY <1>2, <1>3, <1>4 DEF QInv

(* Reading the policy.                                                       *)
LEMMA ReadPolicySound == QInv /\ ReadPolicy => QInv'
<1> SUFFICES ASSUME QInv, ReadPolicy PROVE QInv'
  OBVIOUS
<1> USE DEF QInv
<1>1. floor'.min_age_days \in Nat
  BY FloorIsNumber DEF ReadPolicy, Typed
<1>2. Typed'
  BY <1>1, NoneIsNothing DEF ReadPolicy, Typed, repository, IsSha
<1>3. Located'
  BY DEF ReadPolicy, Located, Fails, Ends, Sources, IsSha
<1>4. SoundWorld' /\ SoundCall'
  BY NamesApart DEF ReadPolicy, SoundWorld, SoundCall, Sound, repository, IsSha
<1>5. TrustedAgeIsReal'
  BY DEF ReadPolicy, TrustedAgeIsReal, AgedByItsOwn, Located, Fails, Ends
<1> QED
  BY <1>2, <1>3, <1>4, <1>5

(* Whatever the lookups answer, what is found is sound.                      *)
LEMMA ResolveSound == QInv /\ Resolve => QInv'
<1> SUFFICES ASSUME QInv, Resolve PROVE QInv'
  OBVIOUS
<1> USE DEF QInv
<1>0. \A n \in Names : tagged[n] # None =>
         /\ tagged[n] \in Shas /\ Peeled(n) \in Shas
         /\ Sound(n, tagged[n]) /\ Sound(n, Peeled(n))
  BY PeelFacts DEF Typed, SoundWorld, Sound, Peeled
<1>1. \A n \in Branches : heads[n] \in Shas /\ heads[n] # None
  BY NoneIsNothing DEF Typed, Shas
<1>2. /\ resolved' \in Shas \cup {None} /\ found' \in Names \cup {None}
      /\ resolved' # None /\ found' = ref => Sound(ref, resolved')
      /\ pc' = "walk" => resolved' \in Shas
      /\ pc' \notin Sources /\ pc' # "policy"
      /\ UNCHANGED floor
      /\ result' = result \/ ~result'.ok
  <2> DEFINE Good == /\ resolved' \in Shas \cup {None} /\ found' \in Names \cup {None}
                     /\ resolved' # None /\ found' = ref => Sound(ref, resolved')
                     /\ pc' = "walk" => resolved' \in Shas
                     /\ pc' \notin Sources /\ pc' # "policy"
                     /\ UNCHANGED floor
                     /\ result' = result \/ ~result'.ok
  <2>1. ASSUME NEW sha \in Shas, NEW tag \in Names, Finds(sha, tag), Sound(tag, sha)
        PROVE  Good
    BY <2>1 DEF Finds, Sources
  <2>2. ASSUME NEW sha \in Shas, Finds(sha, None)
        PROVE  Good
    BY <2>2, NoneIsNothing DEF Finds, Sources, Sound
  <2>3. ASSUME NEW next, Skips(next),
               next \in {"heads", "any", "apiTags", "apiHeads"}
        PROVE  Good
    BY <2>3 DEF Skips, Sources, Typed, SoundCall
  <2>4. ASSUME NEW why, Gives(why)
        PROVE  Good
    BY <2>4 DEF Gives, Fails, Ends, Sources, Typed, SoundCall
  <2>5. AskTags => Good
    <3>1. ASSUME NEW n \in Names, IsFirst(n, TagsLike(ref)), Finds(tagged[n], n)
          PROVE  Good
      BY <1>0, <2>1, <3>1 DEF IsFirst, TagsLike
    <3> QED BY <2>3, <3>1 DEF AskTags
  <2>6. AskHeads => Good
    BY <1>1, <2>2, <2>3 DEF AskHeads
  <2>7. AskAny => Good
    <3>1. ASSUME NEW n \in Names, IsLast(n, TagsLike(ref)), Finds(Peeled(n), n)
          PROVE  Good
      BY <1>0, <2>1, <3>1 DEF IsLast, TagsLike
    <3> QED BY <1>1, <2>2, <2>3, <3>1 DEF AskAny
  <2>8. AskApiTags => Good
    BY <1>0, <2>1, <2>3, <2>4 DEF AskApiTags
  <2>9. AskApiHeads => Good
    BY <1>1, <2>2, <2>4 DEF AskApiHeads
  <2> QED
    BY <2>5, <2>6, <2>7, <2>8, <2>9 DEF Resolve
<1>3. UNCHANGED <<repository, policy, ref, listing, candidates, i, newest, unknown>>
  BY DEF Resolve
<1>4. candidates = <<>> /\ ~result.ok
  BY DEF Resolve, AskTags, AskHeads, AskAny, AskApiTags, AskApiHeads, Located, Sources
<1>5. Typed' /\ Located' /\ SoundWorld' /\ SoundCall'
  BY <1>2, <1>3, <1>4 DEF Typed, Located, SoundWorld, SoundCall, Sound, repository
<1>6. TrustedAgeIsReal'
  BY <1>2, <1>4 DEF TrustedAgeIsReal
<1> QED
  BY <1>5, <1>6

(* An exempt action is pinned without an age.                                *)
LEMMA PinExemptSound == QInv /\ PinExempt => QInv'
  BY DEF QInv, PinExempt, Ends, Typed, Located, SoundWorld, SoundCall, Sound,
         TrustedAgeIsReal, AgedByItsOwn, repository, Sources

(* The listing holds the commits the tags have at that moment.               *)
LEMMA ListSeriesSound == QInv /\ ListSeries => QInv'
<1> SUFFICES ASSUME QInv, ListSeries PROVE QInv'
  OBVIOUS
<1> USE DEF QInv
<1>1. /\ candidates' = <<Candidate(ref, resolved)>>
      /\ resolved \in Shas /\ ref \in Names \cup Branches \cup Shas
      /\ found = ref => Sound(ref, resolved)
      /\ pc = "walk" /\ i = 1
  BY NoneIsNothing, PeelFacts DEF ListSeries, Located, SoundCall, Typed
<1>2. /\ DOMAIN listing' \subseteq Names
      /\ \A n \in DOMAIN listing' : listing'[n] \in Commits /\ Sound(n, listing'[n])
  BY PeelFacts DEF ListSeries, Typed, SoundWorld, Sound, Peeled
<1>3. /\ candidates' \in Seq([tag : Names \cup Branches \cup Shas, sha : Shas])
      /\ candidates' # <<>> /\ DOMAIN candidates' = {1}
      /\ candidates'[1].tag = ref /\ candidates'[1].sha = resolved
  BY <1>1 DEF Candidate
<1>4. UNCHANGED <<repository, policy, ref, floor, pc, resolved, found, i, newest,
                  unknown, result>>
  BY DEF ListSeries
<1>5. Typed'
  BY <1>1, <1>2, <1>3, <1>4 DEF Typed, repository
<1>6. Located' /\ SoundWorld' /\ TrustedAgeIsReal'
  BY <1>1, <1>3, <1>4 DEF Located, SoundWorld, Sound, TrustedAgeIsReal, AgedByItsOwn, repository, Sources
<1>7. SoundCall'
  BY <1>1, <1>2, <1>3, <1>4 DEF SoundCall, Sound, repository
<1> QED
  BY <1>5, <1>6, <1>7

(* A candidate comes from the listing.                                       *)
LEMMA AddCandidateSound == QInv /\ AddCandidate => QInv'
<1> SUFFICES ASSUME QInv, AddCandidate PROVE QInv'
  OBVIOUS
<1> USE DEF QInv
<1>1. PICK n \in DOMAIN listing :
          /\ candidates' = IF listing[n] \in SeenShas THEN candidates
                           ELSE Append(candidates, Candidate(n, listing[n]))
          /\ listing' = [m \in DOMAIN listing \ {n} |-> listing[m]]
  BY DEF AddCandidate
<1>2. UNCHANGED <<repository, policy, ref, floor, pc, resolved, found, i, newest,
                  unknown, result>> /\ pc = "walk" /\ candidates # <<>>
  BY DEF AddCandidate
<1> DEFINE Cand == [tag : Names \cup Branches \cup Shas, sha : Shas]
           new  == Candidate(n, listing[n])
<1>3. /\ candidates \in Seq(Cand) /\ new \in Cand
      /\ Sound(new.tag, new.sha)
  BY DEF Typed, SoundCall, Candidate, Shas
<1>4. /\ candidates' \in Seq(Cand) /\ candidates' # <<>>
      /\ DOMAIN candidates \subseteq DOMAIN candidates'
      /\ \A j \in DOMAIN candidates' :
            candidates'[j] = new \/ (j \in DOMAIN candidates /\ candidates'[j] = candidates[j])
  <2>1. CASE candidates' = candidates
    BY <2>1, <1>2, <1>3
  <2>2. CASE candidates' = Append(candidates, new)
    BY <2>2, <1>3, Len(candidates) \in Nat, DOMAIN candidates = 1..Len(candidates),
       DOMAIN candidates' = 1..(Len(candidates) + 1)
  <2> QED
    BY <2>1, <2>2, <1>1
<1>5. Typed'
  BY <1>1, <1>2, <1>4 DEF Typed, repository
<1>6. Located' /\ SoundWorld' /\ TrustedAgeIsReal'
  BY <1>2, <1>4 DEF Located, SoundWorld, Sound, TrustedAgeIsReal, AgedByItsOwn, repository
<1>7. SoundCall'
  BY <1>1, <1>2, <1>3, <1>4 DEF SoundCall, Sound, repository
<1> QED
  BY <1>5, <1>6, <1>7

(* The walk is over.                                                         *)
LEMMA WalkedSound == QInv /\ Walked => QInv'
  BY DEF QInv, Walked, Typed, Located, SoundWorld, SoundCall, Sound,
         TrustedAgeIsReal, AgedByItsOwn, repository, Sources

(* The candidate at hand, once there are candidates.                         *)
LEMMA CurrentFacts ==
    ASSUME QInv, candidates # <<>>
    PROVE  /\ i \in DOMAIN candidates /\ DOMAIN candidates = 1..Len(candidates)
           /\ Len(candidates) \in Nat
           /\ Current.sha \in Shas
           /\ (i # 1 \/ found = ref) => Sound(Current.tag, Current.sha)
<1>1. /\ i \in DOMAIN candidates
      /\ (i # 1 \/ found = ref) => Sound(Current.tag, Current.sha)
  BY DEF QInv, Typed, SoundCall, Current
<1> DEFINE Cand == [tag : Names \cup Branches \cup Shas, sha : Shas]
<1>2. candidates \in Seq(Cand)
  BY DEF QInv, Typed
<1> HIDE DEF Cand
<1>3. DOMAIN candidates = 1..Len(candidates) /\ Len(candidates) \in Nat
  BY <1>2
<1>4. Current \in Cand
  BY <1>1, <1>2, <1>3 DEF Current
<1>5. Current.sha \in Shas
  BY <1>4 DEF Cand
<1> QED
  BY <1>1, <1>3, <1>5

(* The age speaks of the commit: a merge, or a release of its own tag.       *)
Answerable(source) == source = "merged" \/ (source = "release" /\ (i # 1 \/ found = ref))

(* Judging an age that is real, if its source is trusted.                    *)
LEMMA JudgeSound ==
    ASSUME QInv, NEW age \in Nat \cup {None}, NEW source \in Sources,
           Judge(age, source), pc \in Sources,
           UNCHANGED <<repository, policy, ref, floor, resolved, found, listing, candidates>>,
           (age # None /\ Answerable(source)) => age <= PublicFor[CommitOf[Current.sha]]
    PROVE  QInv'
<1> USE DEF QInv
<1>0. candidates # <<>> /\ ~result.ok
  BY DEF Located, Sources
<1>1. /\ i \in DOMAIN candidates /\ DOMAIN candidates = 1..Len(candidates)
      /\ Len(candidates) \in Nat /\ Current.sha \in Shas
  BY <1>0, CurrentFacts
<1>2. i' = i \/ (i' = i + 1 /\ i < Len(candidates))
  BY DEF Judge
<1>3. i' \in DOMAIN candidates
  BY <1>1, <1>2
<1>4. Typed' /\ SoundWorld' /\ SoundCall'
  BY <1>1, <1>3 DEF Typed, SoundWorld, SoundCall, Sound, repository
<1>5. pc' = "release" \/ pc' = "end"
  BY DEF Judge, Ends, Fails
<1>6. Located'
  <2>1. result'.ok => pc' = "end"
    BY <1>0 DEF Judge, Ends, Fails
  <2> QED BY <1>0, <1>5, <2>1 DEF Located, Sources
<1>7. TrustedAgeIsReal'
  <2>1. CASE UNCHANGED result
    BY <2>1 DEF TrustedAgeIsReal, AgedByItsOwn
  <2>2. CASE ~result'.ok
    BY <2>2 DEF TrustedAgeIsReal
  <2>3. CASE /\ age # None /\ age >= floor.min_age_days
             /\ result' = [ok |-> TRUE, reason |-> source, sha |-> Current.sha,
                           tag |-> Current.tag, age |-> age, held |-> i > 1]
    <3>1. floor.min_age_days \in Nat /\ PublicFor[CommitOf[Current.sha]] \in Nat
      BY <1>1, PeelFacts DEF Typed
    <3> QED
      <4>1. /\ result'.reason = source /\ result'.held = (i > 1)
            /\ result'.sha = Current.sha /\ found' = found /\ ref' = ref /\ floor' = floor
        BY <2>3
      <4>2. i > 1 => i # 1
        BY <1>1
      <4>3. AgedByItsOwn' => Answerable(source)
        BY <4>1, <4>2 DEF AgedByItsOwn, Answerable
      <4>4. Answerable(source) => floor.min_age_days <= PublicFor[CommitOf[Current.sha]]
        BY <2>3, <3>1, NoneIsNothing
      <4> QED BY <4>1, <4>3, <4>4, <3>1 DEF TrustedAgeIsReal
  <2> QED
    BY <2>1, <2>2, <2>3 DEF Judge, Ends, Fails
<1> QED
  BY <1>4, <1>6, <1>7

(* The three questions.                                                      *)
LEMMA AskSound == QInv /\ (AskRelease \/ AskMerged \/ AskCommitted) => QInv'
<1> SUFFICES ASSUME QInv, AskRelease \/ AskMerged \/ AskCommitted PROVE QInv'
  OBVIOUS
<1> USE DEF QInv
<1>1. /\ candidates # <<>> /\ i \in DOMAIN candidates /\ pc \in Sources
      /\ Current.sha \in Shas
      /\ (i # 1 \/ found = ref) => Sound(Current.tag, Current.sha)
      /\ UNCHANGED <<repository, policy, ref, floor, resolved, found, listing, candidates>>
  <2>1. pc \in Sources
    BY DEF AskRelease, AskMerged, AskCommitted, Asks, Sources
  <2>2. candidates # <<>>
    BY <2>1 DEF Located
  <2>3. UNCHANGED <<repository, policy, ref, floor, resolved, found, listing, candidates>>
    BY DEF AskRelease, AskMerged, AskCommitted, Asks
  <2> QED
    BY <2>1, <2>2, <2>3, CurrentFacts
<1>2. ASSUME NEW source \in Sources, NEW age \in Nat \cup {None}, NEW next \in Sources \cup {"end"},
             Asks(source, age, next),
             (age # None /\ Answerable(source)) => age <= PublicFor[CommitOf[Current.sha]]
      PROVE  QInv'
  <2>1. CASE Judge(age, source)
    BY <2>1, <1>1, <1>2, JudgeSound
  <2>2. CASE Judge(None, source)
    BY <2>2, <1>1, <1>2, JudgeSound
  <2>3. CASE next # "end" /\ pc' = next /\ UNCHANGED <<i, newest, unknown, result>>
    <3>1. ~result.ok
      BY <1>1 DEF Located, Sources
    <3> QED
      BY <2>3, <3>1, <1>1, <1>2 DEF Typed, Located, SoundWorld, SoundCall, Sound,
         TrustedAgeIsReal, AgedByItsOwn, repository, Sources
  <2> QED
    BY <2>1, <2>2, <2>3, <1>2 DEF Asks
<1>3. /\ PublicFor[CommitOf[Current.sha]] \in Nat
      /\ MergedFor[CommitOf[Current.sha]] \in Nat \cup {None}
      /\ CommittedFor[CommitOf[Current.sha]] \in Nat
      /\ CommitOf[Current.sha] \in Commits
  BY <1>1, PeelFacts
<1>4. CASE AskRelease
  <2>1. /\ ReleaseAge(Current.tag) \in Nat \cup {None}
        /\ (ReleaseAge(Current.tag) # None /\ (i # 1 \/ found = ref)) =>
              ReleaseAge(Current.tag) <= PublicFor[CommitOf[Current.sha]]
    BY <1>1 DEF ReleaseAge, Sound, Typed, Releases
  <2> QED
    BY <2>1, <1>2, <1>4 DEF AskRelease, Sources, Answerable
<1>5. CASE AskMerged
  <2>1. MergedFor[CommitOf[Current.sha]] # None =>
            MergedFor[CommitOf[Current.sha]] <= PublicFor[CommitOf[Current.sha]]
    BY <1>3, MergeIsPublic
  <2> QED
    BY <2>1, <1>2, <1>3, <1>5 DEF AskMerged, Sources
<1>6. CASE AskCommitted
  BY <1>2, <1>3, <1>6 DEF AskCommitted, Sources, Answerable
<1> QED
  BY <1>4, <1>5, <1>6

(* What happens upstream while the call runs.                                *)
LEMMA UpstreamSound == QInv /\ Upstream => QInv'
<1> SUFFICES ASSUME QInv, Upstream PROVE QInv'
  OBVIOUS
<1> USE DEF QInv
<1>1. UNCHANGED <<policy, ref, floor, pc, resolved, found, listing, candidates, i,
                  newest, unknown, result, heads>>
  BY DEF Upstream, MoveTag, Publish
<1>2. /\ tagged' \in [Names -> Shas \cup {None}]
      /\ releases' \in [Names -> Releases \cup {None}]
  <2>1. CASE MoveTag
    BY <2>1 DEF MoveTag, Typed
  <2>2. CASE Publish
    <3>1. [age |-> 0, immutable |-> TRUE] \in Releases
      BY DEF Releases
    <3> QED
      BY <2>2, <3>1 DEF Publish, Typed
  <2> QED
    BY <2>1, <2>2 DEF Upstream
<1>3. ASSUME NEW n \in Names, NEW s \in Shas, Sound(n, s)
      PROVE  SoundAfter(n, s)
  <2>1. PublicFor[CommitOf[s]] \in Nat
    BY PeelFacts
  <2>2. CASE releases'[n] = releases[n]
    BY <2>2, <1>3 DEF Sound, SoundAfter
  <2>3. CASE releases'[n] = [age |-> 0, immutable |-> TRUE]
    BY <2>1, <2>3 DEF SoundAfter
  <2> QED
    BY <2>2, <2>3 DEF Upstream, MoveTag, Publish, Typed
<1>4. Typed' /\ Located' /\ TrustedAgeIsReal'
  BY <1>1, <1>2 DEF Typed, Located, TrustedAgeIsReal, AgedByItsOwn
<1>5. SoundWorld'
  <2>1. CASE MoveTag
    BY <2>1, <1>2 DEF MoveTag, SoundWorld, Sound, Typed
  <2>2. CASE Publish
    BY <2>2, <1>2, <1>3 DEF Publish, SoundWorld, Sound, SoundAfter, Typed
  <2> QED
    BY <2>1, <2>2 DEF Upstream
<1>6. ASSUME NEW x, NEW s \in Shas, Sound(x, s)
      PROVE  SoundAfter(x, s)
  <2>1. CASE x \in Names
    BY <2>1, <1>3, <1>6
  <2> QED
    BY <2>1 DEF SoundAfter
<1>7. SoundCall'
  <2>1. resolved # None /\ found = ref => SoundAfter(ref, resolved)
    BY <1>6 DEF SoundCall, Typed
  <2>2. \A n \in DOMAIN listing : SoundAfter(n, listing[n])
    BY <1>6 DEF SoundCall, Typed, Shas
  <2>3. ASSUME NEW j \in DOMAIN candidates, j # 1 \/ found = ref
        PROVE  SoundAfter(candidates[j].tag, candidates[j].sha)
    <3> DEFINE Cand == [tag : Names \cup Branches \cup Shas, sha : Shas]
    <3>1. candidates \in Seq(Cand)
      BY DEF Typed
    <3>2. candidates[j] \in Cand
      <4> HIDE DEF Cand
      <4> QED
        BY <3>1
    <3>3. candidates[j].sha \in Shas
      BY <3>2
    <3> QED
      BY <2>3, <3>3, <1>6 DEF SoundCall
  <2> QED
    BY <2>1, <2>2, <2>3, <1>1 DEF SoundCall, Sound, SoundAfter
<1> QED
  BY <1>4, <1>5, <1>7

(* QInv is an invariant.                                                     *)
LEMMA QInvHolds == Spec => []QInv
<1>1. QInv /\ [Next]_vars => QInv'
  <2> SUFFICES ASSUME QInv, [Next]_vars PROVE QInv'
    OBVIOUS
  <2>1. CASE UNCHANGED vars
    BY <2>1 DEF QInv, vars, Typed, Located, SoundWorld, SoundCall, Sound, TrustedAgeIsReal,
             AgedByItsOwn
  <2> QED
    BY <2>1, ReadPolicySound, ResolveSound, PinExemptSound, ListSeriesSound,
       AddCandidateSound, WalkedSound, AskSound, UpstreamSound DEF Next, Pick
<1> QED
  BY <1>1, InitSound, PTL DEF Spec

(* A pin that rests on a merge, or on the immutable release of the tag its   *)
(* commit was found under, has been public for as long as the policy asks,   *)
(* for every repository, policy and order of events.                         *)
THEOREM TrustedAgeHolds == Spec => []TrustedAgeIsReal
  BY QInvHolds, PTL DEF QInv

(* ------------------------------- the types ------------------------------- *)
(* What Typed leaves out of TypeOK.                                          *)
Answers ==
    /\ moves \in 0..MaxMoves
    /\ pc \in Steps
    /\ \E S \in SUBSET Names : listing \in [S -> Commits]
    /\ newest \in Nat \cup {None} /\ unknown \in BOOLEAN
    /\ result.ok \in BOOLEAN /\ result.reason \in Reasons
    /\ result.ok => result.sha \in Shas /\ result.tag \in Refs

(* A call that fails says why and pins nothing.                              *)
LEMMA FailureAnswers ==
    ASSUME NEW why \in Reasons, result' = [ok |-> FALSE, reason |-> why]
    PROVE  ~result'.ok /\ result'.ok \in BOOLEAN /\ result'.reason \in Reasons
<1>1. result'.ok = FALSE /\ result'.reason = why
  OBVIOUS
<1> QED BY <1>1

(* A call that ends gives a commit and a tag, or none of the two.            *)
LEMMA JudgeAnswers ==
    ASSUME QInv, Answers, NEW age \in Nat \cup {None}, NEW source \in Sources,
           Judge(age, source), candidates # <<>>, UNCHANGED <<moves, listing>>
    PROVE  Answers'
<1>1. Current.sha \in Shas /\ Current.tag \in Refs
  <2> DEFINE Cand == [tag : Refs, sha : Shas]
  <2>1. candidates \in Seq(Cand)
    BY DEF QInv, Typed, Refs
  <2>2. i \in DOMAIN candidates
    BY CurrentFacts
  <2>3. Current \in Cand
    <3> HIDE DEF Cand
    <3> QED BY <2>1, <2>2 DEF Current
  <2> QED BY <2>3
<1>2. newest' \in Nat \cup {None} /\ unknown' \in BOOLEAN
  BY DEF Judge, Answers
<1>3. /\ pc' \in Steps
      /\ result'.ok \in BOOLEAN /\ result'.reason \in Reasons
      /\ result'.ok => result'.sha \in Shas /\ result'.tag \in Refs
  <2>1. CASE UNCHANGED result /\ pc' = "release"
    BY <2>1 DEF Answers, Steps
  <2>2. CASE /\ result' = [ok |-> TRUE, reason |-> source, sha |-> Current.sha,
                           tag |-> Current.tag, age |-> age, held |-> i > 1]
             /\ pc' = "end"
    BY <1>1, <2>2 DEF Steps, Reasons
  <2>3. CASE /\ result' = [ok |-> FALSE, reason |-> "unknown"] \/ result' = [ok |-> FALSE, reason |-> "fresh"]
             /\ pc' = "end"
    BY <2>3, FailureAnswers DEF Steps, Reasons
  <2> QED BY <2>1, <2>2, <2>3 DEF Judge, Ends, Fails
<1>4. moves' \in 0..MaxMoves /\ \E S \in SUBSET Names : listing' \in [S -> Commits]
  BY DEF Answers
<1> QED BY <1>2, <1>3, <1>4 DEF Answers

(* Every step keeps the types.                                               *)
LEMMA NextAnswers ==
    ASSUME QInv, Answers, [Next]_vars
    PROVE  Answers'
<1>1. CASE UNCHANGED vars
  BY <1>1 DEF vars, Answers
<1>2. CASE ReadPolicy \/ Resolve
  <2>1. UNCHANGED <<moves, listing, newest, unknown>>
    BY <1>2 DEF ReadPolicy, Resolve, repository
  <2>2. pc' \in Steps
    BY <1>2 DEF Answers, ReadPolicy, Resolve, AskTags, AskHeads, AskAny, AskApiTags, AskApiHeads,
                Finds, Skips, Gives, Fails, Ends, Steps
  <2>3. result' = result \/ \E why \in Reasons : result' = [ok |-> FALSE, reason |-> why]
    BY <1>2 DEF ReadPolicy, Resolve, AskTags, AskHeads, AskAny, AskApiTags, AskApiHeads,
                Finds, Skips, Gives, Fails, Ends, Reasons
  <2>4. /\ result'.ok \in BOOLEAN /\ result'.reason \in Reasons
        /\ result'.ok => result'.sha \in Shas /\ result'.tag \in Refs
    BY <2>3, FailureAnswers DEF Answers
  <2> QED BY <2>1, <2>2, <2>4 DEF Answers
<1>3. CASE PinExempt
  BY <1>3 DEF PinExempt, Ends, Answers, QInv, Typed, Located, repository, Steps, Reasons, Refs
<1>4. CASE ListSeries
  <2>1. \E S \in SUBSET Names : listing' \in [S -> Commits]
    <3>1. CASE listing' = <<>>
      <4>1. listing' \in [{} -> Commits]
        BY <3>1
      <4> QED BY <4>1
    <3>2. CASE listing' = [n \in {m \in Names : tagged[m] # None /\ InSeries(m, ref)} |-> Peeled(n)]
      <4>1. \A n \in Names : tagged[n] # None => Peeled(n) \in Commits
        BY PeelFacts DEF Peeled, QInv, Typed
      <4> QED BY <3>2, <4>1
    <3> QED BY <1>4, <3>1, <3>2 DEF ListSeries
  <2> QED BY <1>4, <2>1 DEF ListSeries, Answers, repository
<1>5. CASE AddCandidate
  <2>1. PICK n \in DOMAIN listing : listing' = [m \in DOMAIN listing \ {n} |-> listing[m]]
    BY <1>5 DEF AddCandidate
  <2>2. PICK S \in SUBSET Names : listing \in [S -> Commits]
    BY DEF Answers
  <2>3. listing' \in [S \ {n} -> Commits]
    BY <2>1, <2>2
  <2>4. \E R \in SUBSET Names : listing' \in [R -> Commits]
    BY <2>2, <2>3
  <2> QED BY <1>5, <2>4 DEF AddCandidate, Answers, repository
<1>6. CASE Walked
  BY <1>6 DEF Walked, Answers, repository, Steps
<1>7. ASSUME NEW source \in Sources, NEW age, NEW next \in Sources \cup {"end"},
             Asks(source, age, next), age \in Nat \cup {None}
      PROVE  Answers'
  <2>1. candidates # <<>> /\ UNCHANGED <<moves, listing>>
    BY <1>7 DEF Asks, QInv, Located, repository
  <2>2. CASE Judge(age, source) \/ Judge(None, source)
    BY <1>7, <2>1, <2>2, JudgeAnswers
  <2>3. CASE pc' = next /\ next # "end" /\ UNCHANGED <<i, newest, unknown, result>>
    BY <1>7, <2>1, <2>3 DEF Answers, Steps, Sources
  <2> QED BY <1>7, <2>2, <2>3 DEF Asks
<1>8. CASE AskRelease \/ AskMerged \/ AskCommitted
  <2>1. candidates # <<>>
    BY <1>8 DEF AskRelease, AskMerged, AskCommitted, Asks, QInv, Located, Sources
  <2>2. /\ ReleaseAge(Current.tag) \in Nat \cup {None}
        /\ MergedFor[CommitOf[Current.sha]] \in Nat \cup {None}
        /\ CommittedFor[CommitOf[Current.sha]] \in Nat \cup {None}
    BY <2>1, CurrentFacts, PeelFacts DEF ReleaseAge, QInv, Typed, Releases
  <2> QED BY <1>7, <1>8, <2>2 DEF AskRelease, AskMerged, AskCommitted, Sources
<1>9. CASE Upstream
  <2>1. moves' \in 0..MaxMoves
    BY <1>9, Shapes DEF Upstream, MoveTag, Publish, Answers
  <2> QED BY <1>9, <2>1 DEF Upstream, Answers
<1> QED
  BY <1>1, <1>2, <1>3, <1>4, <1>5, <1>6, <1>8, <1>9 DEF Next, Pick

(* Answers is an invariant.                                                  *)
LEMMA AnswersHold == Spec => []Answers
<1>1. Init => Answers
  <2> SUFFICES ASSUME Init PROVE Answers
    OBVIOUS
  <2>1. listing \in [{} -> Commits]
    BY DEF Init
  <2>2. moves \in 0..MaxMoves
    BY Shapes DEF Init
  <2> QED BY <2>1, <2>2 DEF Init, Answers, Steps, Nothing, Reasons
<1>2. QInv /\ Answers /\ [Next]_vars => Answers'
  BY NextAnswers
<1> QED BY <1>1, <1>2, QInvHolds, PTL DEF Spec

(* Every variable keeps its type.                                            *)
THEOREM QuarantineTyped == Spec => []TypeOK
<1>1. QInv /\ Answers => TypeOK
  BY DEF QInv, Typed, Answers, TypeOK, Refs
<1> QED BY <1>1, QInvHolds, AnswersHold, PTL

(* --------------------------- what is held back --------------------------- *)
(* Candidate 0 did not pass: its age is unknown, or below the floor, or from *)
(* a source the policy does not take.                                        *)
Younger == newest = None \/ newest < floor.min_age_days \/ floor.require_trusted_age
HeldInv ==
    /\ pc = "policy" => i = 1
    /\ i > 1 => Younger
    /\ (result.ok /\ result.held) => i > 1

(* The walk gets past candidate 0 only over its age.                         *)
LEMMA JudgeHeld ==
    ASSUME QInv, Answers, HeldInv, NEW age \in Nat \cup {None}, NEW source \in Sources,
           Judge(age, source), UNCHANGED floor, i \in Nat \ {0}
    PROVE  HeldInv'
<1>1. floor.min_age_days \in Nat
  BY DEF QInv, Typed
<1>2. pc' # "policy"
  BY DEF Judge, Ends, Fails
<1>3. CASE /\ i' = i
           /\ result' = [ok |-> TRUE, reason |-> source, sha |-> Current.sha,
                         tag |-> Current.tag, age |-> age, held |-> i > 1]
  <2>1. i > 1 => newest' = newest
    BY DEF Judge
  <2> QED BY <1>2, <1>3, <2>1 DEF HeldInv, Younger
<1>4. CASE i' = i /\ ~result'.ok
  <2>1. i > 1 => newest' = newest
    BY DEF Judge
  <2> QED BY <1>2, <1>4, <2>1 DEF HeldInv, Younger
<1>5. CASE i' = i + 1 /\ UNCHANGED result
  <2>1. ~ (age # None /\ (floor.require_trusted_age => IsTrusted(source)) /\ age >= floor.min_age_days)
    BY <1>5 DEF Judge
  <2>2. i = 1 => newest' = age
    BY DEF Judge
  <2>3. i # 1 => newest' = newest /\ i > 1
    BY DEF Judge
  <2>4. Younger'
    BY <1>1, <2>1, <2>2, <2>3 DEF HeldInv, Younger
  <2>5. i' > 1
    BY <1>5
  <2> QED BY <1>2, <2>4, <2>5 DEF HeldInv
<1> QED BY <1>3, <1>4, <1>5 DEF Judge, Ends, Fails

(* Every step keeps it.                                                      *)
LEMMA NextHeld ==
    ASSUME QInv, Answers, HeldInv, [Next]_vars
    PROVE  HeldInv'
<1>0. i \in Nat \ {0}
  BY DEF QInv, Typed
<1>1. CASE UNCHANGED vars \/ Upstream
  BY <1>1 DEF vars, Upstream, HeldInv, Younger
<1>2. CASE ReadPolicy
  BY <1>2 DEF ReadPolicy, HeldInv, Fails, Ends, QInv, Located, repository
<1>3. CASE Resolve
  <2>1. UNCHANGED <<i, newest, floor>> /\ pc' # "policy"
    BY <1>3 DEF Resolve, AskTags, AskHeads, AskAny, AskApiTags, AskApiHeads,
                Finds, Skips, Gives, Fails, Ends
  <2>2. result' = result \/ \E why : Fails(why)
    BY <1>3, Zenon DEF Resolve, AskTags, AskHeads, AskAny, AskApiTags, AskApiHeads, Finds, Skips, Gives
  <2>3. result' = result \/ ~result'.ok
    BY <2>2 DEF Fails, Ends
  <2> QED BY <2>1, <2>3 DEF HeldInv, Younger
<1>4. CASE PinExempt \/ ListSeries \/ AddCandidate \/ Walked
  <2>1. UNCHANGED <<i, newest, floor>> /\ pc' # "policy"
    BY <1>4 DEF PinExempt, ListSeries, AddCandidate, Walked, Ends
  <2>2. result' = result \/ ~result'.held
    BY <1>4 DEF PinExempt, ListSeries, AddCandidate, Walked, Ends
  <2> QED BY <2>1, <2>2 DEF HeldInv, Younger
<1>5. ASSUME NEW source \in Sources, NEW age, NEW next \in Sources \cup {"end"},
             Asks(source, age, next), age \in Nat \cup {None}
      PROVE  HeldInv'
  <2>1. UNCHANGED floor
    BY <1>5 DEF Asks
  <2>2. CASE Judge(age, source) \/ Judge(None, source)
    BY <1>0, <1>5, <2>1, <2>2, JudgeHeld
  <2>3. CASE pc' = next /\ next # "end" /\ UNCHANGED <<i, newest, unknown, result>>
    BY <1>5, <2>1, <2>3 DEF HeldInv, Younger, Sources
  <2> QED BY <1>5, <2>2, <2>3 DEF Asks
<1>6. CASE AskRelease \/ AskMerged \/ AskCommitted
  <2>1. candidates # <<>>
    BY <1>6 DEF AskRelease, AskMerged, AskCommitted, Asks, QInv, Located, Sources
  <2>2. /\ ReleaseAge(Current.tag) \in Nat \cup {None}
        /\ MergedFor[CommitOf[Current.sha]] \in Nat \cup {None}
        /\ CommittedFor[CommitOf[Current.sha]] \in Nat \cup {None}
    BY <2>1, CurrentFacts, PeelFacts DEF ReleaseAge, QInv, Typed, Releases
  <2> QED BY <1>5, <1>6, <2>2 DEF AskRelease, AskMerged, AskCommitted, Sources
<1> QED
  BY <1>1, <1>2, <1>3, <1>4, <1>6 DEF Next, Pick

(* A pin is held back only when candidate 0 is not known to be old enough,   *)
(* by a source the policy takes.                                             *)
THEOREM HeldBackHolds == Spec => []HeldBackForAReason
<1>1. Init => HeldInv
  BY DEF Init, HeldInv, Nothing
<1>2. QInv /\ Answers /\ HeldInv /\ [Next]_vars => HeldInv'
  BY NextHeld
<1>3. HeldInv => HeldBackForAReason
  BY DEF HeldInv, HeldBackForAReason, Younger
<1> QED BY <1>1, <1>2, <1>3, QInvHolds, AnswersHold, PTL DEF Spec

(* ----------------------------- the candidates ---------------------------- *)
(* What is listed for the walk is of the series, as what was taken from it   *)
(* is, and a commit, no commit twice.                                        *)
SeriesInv ==
    /\ \A n \in DOMAIN listing : InSeries(n, ref)
    /\ \A j \in DOMAIN candidates : j # 1 => candidates[j].sha \in Commits
    /\ CandidatesDistinct

(* A candidate taken from the listing is of the series and new.              *)
LEMMA AddDistinct ==
    ASSUME QInv, SeriesInv, AddCandidate
    PROVE  SeriesInv'
<1>1. PICK n \in DOMAIN listing :
          /\ candidates' = IF listing[n] \in SeenShas THEN candidates
                           ELSE Append(candidates, Candidate(n, listing[n]))
          /\ listing' = [m \in DOMAIN listing \ {n} |-> listing[m]]
  BY DEF AddCandidate
<1>2. ref' = ref /\ pc' = pc /\ pc = "walk" /\ Len(candidates) < MaxCandidates
  BY DEF AddCandidate
<1>3. CASE candidates' = candidates
  BY <1>1, <1>2, <1>3 DEF SeriesInv, CandidatesDistinct, CommitAt
<1>4. CASE listing[n] \notin SeenShas /\ candidates' = Append(candidates, Candidate(n, listing[n]))
  <2> DEFINE new == Candidate(n, listing[n])
             last == Len(candidates) + 1
             Cand == [tag : Names \cup Branches \cup Shas, sha : Shas]
  <2>1. new.tag = n /\ new.sha = listing[n]
    BY DEF Candidate
  <2>2. new \in Cand /\ candidates \in Seq(Cand)
    BY DEF Candidate, QInv, Typed, Shas
  <2> HIDE DEF new, Cand
  <2>3. /\ Len(candidates) \in Nat /\ Len(candidates') = last
        /\ DOMAIN candidates = 1..Len(candidates)
        /\ DOMAIN candidates' = DOMAIN candidates \cup {last} /\ last \notin DOMAIN candidates
        /\ candidates'[last] = new
        /\ \A j \in DOMAIN candidates : candidates'[j] = candidates[j]
    BY <1>4, <2>2 DEF new
  <2>4. \A j \in DOMAIN candidates : candidates[j].sha # listing[n]
    BY <1>4 DEF SeenShas
  <2>5. Len(candidates') <= MaxCandidates
    BY <1>2, <2>3, Shapes
  <2> HIDE DEF last
  <2>6. \A j, k \in DOMAIN candidates' : candidates'[j].sha = candidates'[k].sha => j = k
    BY <2>1, <2>3, <2>4 DEF SeriesInv, CandidatesDistinct
  <2>9. listing[n] \in Commits /\ CommitOf[listing[n]] = listing[n]
    BY Shapes DEF QInv, Typed
  <2>10. /\ 1 \in DOMAIN candidates /\ last # 1
         /\ candidates'[1] = candidates[1]
    <3>1. candidates # <<>>
      BY DEF AddCandidate
    <3>2. Len(candidates) # 0
      BY <2>2, <3>1
    <3> QED BY <2>3, <3>2 DEF last
  <2>11. ASSUME NEW j \in DOMAIN candidates, CommitAt(j) = listing[n]
         PROVE  j = 1 /\ candidates[1].sha \in Objects
    <3>0. candidates[j] \in Cand
      BY <2>2
    <3>1. candidates[j].sha \in Shas
      BY <3>0 DEF Cand
    <3>2. candidates[j].sha \notin Commits
      BY <2>4, <2>11, Shapes DEF CommitAt
    <3> QED BY <3>1, <3>2 DEF SeriesInv, Shas
  <2>12. ASSUME NEW j \in DOMAIN candidates', NEW k \in DOMAIN candidates', CommitAt(j)' = CommitAt(k)'
         PROVE  j = k \/ (1 \in {j, k} /\ candidates'[1].sha \in Objects)
    <3>1. CASE j # last /\ k # last
      BY <2>3, <2>10, <2>12, <3>1 DEF SeriesInv, CandidatesDistinct, CommitAt
    <3>2. CASE j # last /\ k = last
      BY <2>1, <2>3, <2>9, <2>10, <2>11, <2>12, <3>2 DEF CommitAt
    <3>3. CASE j = last /\ k # last
      BY <2>1, <2>3, <2>9, <2>10, <2>11, <2>12, <3>3 DEF CommitAt
    <3> QED BY <3>1, <3>2, <3>3
  <2>13. \A j \in DOMAIN candidates' : j # 1 => candidates'[j].sha \in Commits
    BY <2>1, <2>3, <2>9 DEF SeriesInv
  <2>7. \A j \in DOMAIN candidates' : j > 1 => InSeries(candidates'[j].tag, ref)
    BY <2>1, <2>3 DEF SeriesInv, CandidatesDistinct
  <2>8. \A m \in DOMAIN listing' : InSeries(m, ref)
    BY <1>1 DEF SeriesInv
  <2> QED BY <1>2, <2>5, <2>6, <2>7, <2>8, <2>12, <2>13 DEF SeriesInv, CandidatesDistinct, CommitAt
<1> QED BY <1>1, <1>3, <1>4

(* Every step keeps them so.                                                 *)
LEMMA NextDistinct ==
    ASSUME QInv, SeriesInv, [Next]_vars
    PROVE  SeriesInv'
<1>1. CASE UNCHANGED <<candidates, listing, ref>>
  BY <1>1 DEF SeriesInv, CandidatesDistinct, CommitAt
<1>2. CASE ListSeries
  <2>1. candidates' = <<Candidate(ref, resolved)>> /\ ref' = ref
    BY <1>2 DEF ListSeries
  <2>2. Len(candidates') = 1 /\ DOMAIN candidates' = {1}
    BY <2>1
  <2>3. \A n \in DOMAIN listing' : InSeries(n, ref)
    BY <1>2 DEF ListSeries
  <2> QED BY <2>1, <2>2, <2>3, Shapes DEF SeriesInv, CandidatesDistinct
<1>3. CASE AddCandidate
  BY <1>3, AddDistinct
<1>4. CASE ReadPolicy \/ Resolve \/ PinExempt \/ Walked \/ AskRelease \/ AskMerged \/ AskCommitted
           \/ Upstream \/ UNCHANGED vars
  <2>1. UNCHANGED <<candidates, listing, ref>>
    BY <1>4 DEF ReadPolicy, Resolve, PinExempt, Walked, AskRelease, AskMerged, AskCommitted, Asks,
                Upstream, vars
  <2> QED BY <1>1, <2>1
<1> QED BY <1>2, <1>3, <1>4 DEF Next, Pick

(* No commit is a candidate twice, but for the one behind the tag object the *)
(* ref led to; none stands beyond the bound, and every one but what the ref  *)
(* points at is a release of its series.                                     *)
THEOREM CandidatesHold == Spec => []CandidatesDistinct
<1>1. Init => SeriesInv
  BY Shapes DEF Init, SeriesInv, CandidatesDistinct
<1>2. QInv /\ SeriesInv /\ [Next]_vars => SeriesInv'
  BY NextDistinct
<1>3. SeriesInv => CandidatesDistinct
  BY DEF SeriesInv
<1> QED BY <1>1, <1>2, <1>3, QInvHolds, PTL DEF Spec

(* ------------------------------- the policy ------------------------------ *)
(* The overrides the sort puts before j.                                     *)
Ahead(raw, j) == {k \in DOMAIN raw.overrides : Before(raw, k, j)}

(* A set of numbers that is not empty has a least one.                       *)
LEMMA LeastOf ==
    ASSUME NEW T \in SUBSET Nat, T # {}
    PROVE  \E x \in T : \A y \in T : x <= y
<1>1. \E x \in T : \A y \in T : ~ (<<y, x>> \in OpToRel(<, Nat))
  BY NatLessThanWellFounded, WFMin
<1>2. PICK x \in T : \A y \in T : ~ (<<y, x>> \in OpToRel(<, Nat))
  BY <1>1
<1>3. ASSUME NEW y \in T PROVE x <= y
  <2>1. ~ (y < x)
    BY <1>2 DEF OpToRel
  <2> QED BY <2>1
<1> QED BY <1>3

(* The order of the sort is a strict and total one.                          *)
LEMMA BeforeIsOrder ==
    ASSUME NEW raw, IsBlock(raw), NEW j \in DOMAIN raw.overrides,
           NEW k \in DOMAIN raw.overrides, NEW x \in DOMAIN raw.overrides
    PROVE  /\ ~Before(raw, j, j)
           /\ j # k => Before(raw, j, k) \/ Before(raw, k, j)
           /\ (Before(raw, x, k) /\ Before(raw, k, j)) => Before(raw, x, j)
<1> DEFINE length(y) == Len(raw.overrides[y].prefix)
<1>1. /\ j \in Nat /\ k \in Nat /\ x \in Nat
      /\ length(j) \in Nat /\ length(k) \in Nat /\ length(x) \in Nat
  BY DEF IsBlock
<1>2. \A y, z : Before(raw, y, z)
                 <=> (length(y) > length(z) \/ (length(y) = length(z) /\ y < z))
  BY DEF Before
<1> HIDE DEF length
<1> QED BY <1>1, <1>2

(* So places are numbers of the list, and who stands before has a lower one. *)
LEMMA PlaceFacts ==
    ASSUME NEW raw, IsBlock(raw), NEW j \in DOMAIN raw.overrides
    PROVE  /\ Place(raw, j) \in DOMAIN raw.overrides
           /\ \A k \in DOMAIN raw.overrides : Before(raw, k, j) => Place(raw, k) < Place(raw, j)
<1> DEFINE D == DOMAIN raw.overrides
           n == Len(raw.overrides)
<1>1. D = 1..n /\ n \in Nat
  BY DEF IsBlock
<1>2. IsFiniteSet(D) /\ Cardinality(D) = n
  BY <1>1, FS_Interval
<1>3. \A k \in D : /\ Place(raw, k) = 1 + Cardinality(Ahead(raw, k))
                   /\ IsFiniteSet(Ahead(raw, k)) /\ Cardinality(Ahead(raw, k)) \in Nat
  <2> SUFFICES ASSUME NEW k \in D
               PROVE  /\ Place(raw, k) = 1 + Cardinality(Ahead(raw, k))
                      /\ IsFiniteSet(Ahead(raw, k)) /\ Cardinality(Ahead(raw, k)) \in Nat
    OBVIOUS
  <2>1. Ahead(raw, k) \in SUBSET D
    BY DEF Ahead
  <2>2. IsFiniteSet(Ahead(raw, k))
    BY <1>2, <2>1, FS_Subset
  <2> QED BY <2>2, FS_CardinalityType DEF Place, Ahead
<1>4. Place(raw, j) \in D
  <2>1. Ahead(raw, j) \in SUBSET (D \ {j})
    BY BeforeIsOrder DEF Ahead
  <2>2. IsFiniteSet(D \ {j}) /\ Cardinality(D \ {j}) = n - 1
    BY <1>2, FS_RemoveElement
  <2>3. Cardinality(Ahead(raw, j)) <= n - 1
    BY <2>1, <2>2, FS_Subset
  <2> QED BY <1>1, <1>3, <2>3
<1>5. ASSUME NEW k \in D, Before(raw, k, j)
      PROVE  Place(raw, k) < Place(raw, j)
  <2>1. Ahead(raw, k) \in SUBSET Ahead(raw, j)
    BY <1>5, BeforeIsOrder DEF Ahead
  <2>2. k \in Ahead(raw, j) /\ k \notin Ahead(raw, k)
    BY <1>5, BeforeIsOrder DEF Ahead
  <2>3. /\ Cardinality(Ahead(raw, k)) <= Cardinality(Ahead(raw, j))
        /\ Cardinality(Ahead(raw, k)) # Cardinality(Ahead(raw, j))
    BY <1>3, <2>1, <2>2, FS_Subset
  <2> QED BY <1>3, <2>3
<1> QED BY <1>4, <1>5

(* Every place is taken by exactly one override: the sort loses none.        *)
LEMMA PlacesTaken ==
    ASSUME NEW raw, IsBlock(raw)
    PROVE  /\ \A p \in DOMAIN raw.overrides : \E j \in DOMAIN raw.overrides : Place(raw, j) = p
           /\ \A j, k \in DOMAIN raw.overrides : Place(raw, j) = Place(raw, k) => j = k
<1> DEFINE D == DOMAIN raw.overrides
           place == [j \in D |-> Place(raw, j)]
<1>1. \A j \in D : Place(raw, j) \in D /\ Place(raw, j) \in Nat
  <2>1. D \subseteq Nat
    BY DEF IsBlock
  <2> QED BY <2>1, PlaceFacts
<1>2. \A j, k \in D : Place(raw, j) = Place(raw, k) => j = k
  <2> SUFFICES ASSUME NEW j \in D, NEW k \in D, Place(raw, j) = Place(raw, k), j # k PROVE FALSE
    OBVIOUS
  <2>1. Place(raw, j) < Place(raw, k) \/ Place(raw, k) < Place(raw, j)
    BY BeforeIsOrder, PlaceFacts
  <2> QED BY <1>1, <2>1
<1>3. place \in [D -> D] /\ \A a, b \in D : place[a] = place[b] => a = b
  BY <1>1, <1>2
<1>4. IsFiniteSet(D)
  BY FS_Interval DEF IsBlock
<1> HIDE DEF D, place
<1>5. place \in Injection(D, D)
  BY <1>3, Fun_IsInj
<1>6. place \in Surjection(D, D)
  BY <1>4, <1>5, FS_Injection
<1>7. \A p \in D : \E j \in D : place[j] = p
  BY <1>6, Fun_SurjectionProperties
<1> QED BY <1>2, <1>7 DEF D, place

(* Normalized puts the longest prefix first and keeps the order of the file  *)
(* among those of one length, so what Effective finds first is the first of  *)
(* the longest that match.                                                   *)
LEMMA LongestWins ==
    ASSUME NEW raw, IsBlock(raw), NEW action,
           NEW match, match = {j \in DOMAIN raw.overrides : IsPrefix(raw.overrides[j].prefix, action)},
           match # {}
    PROVE  \E j \in match :
              /\ \A k \in match :
                    \/ Len(raw.overrides[k].prefix) < Len(raw.overrides[j].prefix)
                    \/ Len(raw.overrides[k].prefix) = Len(raw.overrides[j].prefix) /\ j <= k
              /\ Effective(action, Normalized(raw))
                    = Over(raw.overrides[j].fields, Over(raw.fields, Default))
<1> DEFINE D == DOMAIN raw.overrides
           at(p) == CHOOSE j \in D : Place(raw, j) = p
           sorted == Overrides(raw)
           matching == {p \in DOMAIN sorted : IsPrefix(sorted[p].prefix, action)}
           first == CHOOSE p \in matching : \A q \in matching : p <= q
<1>1. \A p \in D : at(p) \in D /\ Place(raw, at(p)) = p
  BY PlacesTaken
<1>2. \A j \in D : Place(raw, j) \in D /\ at(Place(raw, j)) = j
  BY <1>1, PlacesTaken, PlaceFacts
<1>3. DOMAIN sorted = D /\ \A p \in D : sorted[p] = raw.overrides[at(p)]
  BY DEF Overrides
<1> HIDE DEF sorted
<1>4. /\ \A j \in match : Place(raw, j) \in matching
      /\ \A p \in matching : p \in D /\ at(p) \in match
  <2> HIDE DEF at
  <2>1. ASSUME NEW j \in match PROVE Place(raw, j) \in matching
    BY <1>2, <1>3, <2>1
  <2>2. ASSUME NEW p \in matching PROVE p \in D /\ at(p) \in match
    BY <1>1, <1>3, <2>2
  <2> QED BY <2>1, <2>2
<1>5. D \subseteq Nat
  BY DEF IsBlock
<1> HIDE DEF at
<1>6. first \in matching /\ \A q \in matching : first <= q
  <2>1. matching \in SUBSET Nat /\ matching # {}
    BY <1>4, <1>5
  <2> HIDE DEF matching
  <2>2. \E p \in matching : \A q \in matching : p <= q
    BY <2>1, LeastOf
  <2> QED BY <2>2
<1>7. \A k \in match : ~Before(raw, k, at(first))
  <2> SUFFICES ASSUME NEW k \in match, Before(raw, k, at(first)) PROVE FALSE
    OBVIOUS
  <2>1. at(first) \in D /\ Place(raw, at(first)) = first /\ k \in D
    BY <1>1, <1>4, <1>6
  <2>2. Place(raw, k) < first
    BY <2>1, PlaceFacts
  <2>3. first <= Place(raw, k) /\ first \in Nat /\ Place(raw, k) \in Nat
    BY <1>2, <1>4, <1>5, <1>6, <2>1
  <2> QED BY <2>2, <2>3
<1>8. \A k \in match :
         \/ Len(raw.overrides[k].prefix) < Len(raw.overrides[at(first)].prefix)
         \/ /\ Len(raw.overrides[k].prefix) = Len(raw.overrides[at(first)].prefix)
            /\ at(first) <= k
  <2> TAKE k \in match
  <2>1. k \in D /\ at(first) \in D
    BY <1>1, <1>4, <1>6
  <2>2. Len(raw.overrides[k].prefix) \in Nat /\ Len(raw.overrides[at(first)].prefix) \in Nat
    BY <2>1 DEF IsBlock
  <2>3. k \in Nat /\ at(first) \in Nat
    BY <1>5, <2>1
  <2>4. ~Before(raw, k, at(first))
    BY <1>7
  <2> HIDE DEF first
  <2> QED BY <2>2, <2>3, <2>4 DEF Before
<1>9. Effective(action, Normalized(raw)) = Over(sorted[first].fields, Over(raw.fields, Default))
  BY <1>6 DEF Effective, Normalized, sorted
<1> QED BY <1>3, <1>4, <1>6, <1>8, <1>9

(* Without an override that matches the block's own settings are in force.   *)
LEMMA NoneMatches ==
    ASSUME NEW raw, IsBlock(raw), NEW action,
           \A j \in DOMAIN raw.overrides : ~IsPrefix(raw.overrides[j].prefix, action)
    PROVE  Effective(action, Normalized(raw)) = Over(raw.fields, Default)
<1> DEFINE D == DOMAIN raw.overrides
           at(p) == CHOOSE j \in D : Place(raw, j) = p
           sorted == Overrides(raw)
<1>1. \A p \in D : at(p) \in D
  BY PlacesTaken
<1>2. DOMAIN sorted = D /\ \A p \in D : sorted[p] = raw.overrides[at(p)]
  BY DEF Overrides
<1> HIDE DEF sorted, at
<1>3. {p \in DOMAIN sorted : IsPrefix(sorted[p].prefix, action)} = {}
  BY <1>1, <1>2
<1> QED BY <1>3 DEF Effective, Normalized, sorted

(* From the reading of the policy on the floor is what it puts in force, and *)
(* a malformed one ends the call there.                                      *)
PolicyInv ==
    /\ pc \notin {"policy", "end"} => floor = Effective(Me, Normalized(policy))
    /\ Errors(policy) => pc \in {"policy", "end"} /\ ~result.ok

(* The policy is read once and not changed.                                  *)
LEMMA NextPolicy ==
    ASSUME QInv, PolicyInv, [Next]_vars
    PROVE  PolicyInv'
<1>1. policy' = policy
  BY DEF Next, Pick, ReadPolicy, Resolve, PinExempt, ListSeries, AddCandidate, Walked,
         AskRelease, AskMerged, AskCommitted, Asks, Upstream, vars
<1>2. Errors(policy') = Errors(policy) /\ Effective(Me, Normalized(policy')) = Effective(Me, Normalized(policy))
  BY <1>1
<1> USE DEF PolicyInv
<1>3. CASE ReadPolicy
  <2>1. CASE Errors(policy) /\ Fails("policy")
    BY <1>2, <2>1 DEF Fails, Ends
  <2>2. CASE /\ ~Errors(policy)
             /\ floor' = Effective(Me, Normalized(policy))
    BY <1>2, <2>2
  <2> QED BY <1>3, <2>1, <2>2 DEF ReadPolicy
<1>4. CASE UNCHANGED vars \/ Upstream
  <2>1. UNCHANGED <<pc, floor, result>>
    BY <1>4 DEF vars, Upstream
  <2> QED BY <1>2, <2>1
<1>5. CASE Resolve \/ PinExempt \/ ListSeries \/ AddCandidate \/ Walked
           \/ AskRelease \/ AskMerged \/ AskCommitted
  <2>1. pc \notin {"policy", "end"} /\ floor' = floor
    BY <1>5 DEF Resolve, AskTags, AskHeads, AskAny, AskApiTags, AskApiHeads, Finds, Skips,
                Gives, PinExempt, ListSeries, AddCandidate, Walked, AskRelease, AskMerged,
                AskCommitted, Asks
  <2> QED BY <1>2, <2>1
<1> QED BY <1>3, <1>4, <1>5 DEF Next, Pick

(* For every policy block each setting in force is that of the longest       *)
(* prefix that matches, the first one of several, then that of the block,    *)
(* then the default; a malformed block pins nothing.                         *)
THEOREM MostSpecificRulesHold == Spec => []MostSpecificRules
<1>1. Init => PolicyInv
  BY DEF Init, PolicyInv, Nothing
<1>2. QInv /\ PolicyInv /\ [Next]_vars => PolicyInv'
  BY NextPolicy
<1>3. QInv /\ PolicyInv => MostSpecificRules
  <2> SUFFICES ASSUME QInv, PolicyInv PROVE MostSpecificRules
    OBVIOUS
  <2> DEFINE block == policy.overrides
             match == {j \in DOMAIN block : IsPrefix(block[j].prefix, Me)}
             length(j) == Len(block[j].prefix)
             Yields(j, k) == length(k) < length(j) \/ (length(k) = length(j) /\ j <= k)
             InForce(own) == \A key \in Settings :
                 floor[key] = IF key \in DOMAIN own THEN own[key]
                              ELSE IF key \in DOMAIN policy.fields THEN policy.fields[key]
                              ELSE Default[key]
  <2>1. Settings \subseteq DOMAIN Default
    BY DEF Settings, Default
  <2>2. ASSUME pc \notin {"policy", "end"}, match = {} PROVE InForce(<<>>)
    <3>1. IsBlock(policy) /\ floor = Effective(Me, Normalized(policy))
      BY <2>2, PoliciesAreBlocks DEF QInv, Typed, PolicyInv
    <3>2. \A j \in DOMAIN block : ~IsPrefix(block[j].prefix, Me)
      BY <2>2
    <3>3. floor = Over(policy.fields, Default)
      BY <3>1, <3>2, NoneMatches
    <3>4. \A key : key \notin DOMAIN <<>>
      OBVIOUS
    <3> QED BY <2>1, <3>3, <3>4 DEF Over
  <2>3. ASSUME pc \notin {"policy", "end"}, match # {}
        PROVE  \E j \in match : /\ \A k \in match : Yields(j, k)
                                /\ InForce(block[j].fields)
    <3>1. IsBlock(policy) /\ floor = Effective(Me, Normalized(policy))
      BY <2>3, PoliciesAreBlocks DEF QInv, Typed, PolicyInv
    <3>2. PICK j \in match :
             /\ \A k \in match : Yields(j, k)
             /\ floor = Over(block[j].fields, Over(policy.fields, Default))
      BY <2>3, <3>1, LongestWins
    <3>3. InForce(block[j].fields)
      BY <2>1, <3>2 DEF Over
    <3> QED BY <3>2, <3>3
  <2> QED BY <2>2, <2>3 DEF MostSpecificRules, PolicyInv
<1> QED BY <1>1, <1>2, <1>3, QInvHolds, PTL DEF Spec

(* ------------------------------- one step -------------------------------- *)
(* The series of the ref at hand, what the listing found for each place of   *)
(* it, and the places Locker's Fallbacks counts: the first of each commit.   *)
Ladder == Series[ref]
Found(a) == IF Ladder[a] \in DOMAIN listed THEN listed[Ladder[a]] ELSE None
Firsts == {a \in DOMAIN Ladder : /\ Found(a) \notin {None, resolved}
                                 /\ \A b \in 1 .. a - 1 : Found(b) # Found(a)}

(* The places the walk has been at, and those it has left.                   *)
Gone == {a \in DOMAIN Ladder : Ladder[a] \in DOMAIN listed \ DOMAIN listing}
Left == {a \in DOMAIN Ladder : Ladder[a] \in DOMAIN listing}

(* What is left of the listing stands as it arrived, and the first candidate *)
(* is what the ref points at.                                                *)
ListedInv ==
    /\ pc \in {"walk", "end"} \cup Sources
    /\ candidates[1] = Candidate(ref, resolved) /\ resolved \in Shas /\ ~Exempt
    /\ \A n \in DOMAIN listed : n \in Names /\ InSeries(n, ref) /\ listed[n] \in Commits
    /\ \A n \in DOMAIN listing : n \in DOMAIN listed /\ listing[n] = listed[n]
    /\ IsSha(ref) => DOMAIN listed = {} /\ Len(candidates) = 1

(* The walk goes down the series: every commit it has passed is a candidate, *)
(* every other candidate is the first place of its commit, and there are as  *)
(* many of them as of such places.                                           *)
GoneInv ==
    /\ \A a \in Gone, b \in Left : a < b
    /\ \A a \in Gone : listed[Ladder[a]] \in SeenShas
    /\ \A j \in DOMAIN candidates \ {1} :
          \E a \in Gone \cap Firsts : candidates[j] = Candidate(Ladder[a], listed[Ladder[a]])
    /\ Cardinality(Gone \cap Firsts) = Len(candidates) - 1

WalkInv == candidates # <<>> => ListedInv /\ (~IsSha(ref) => GoneInv)

(* The places of a series are numbers, finitely many.                        *)
LEMMA LadderFacts ==
    ASSUME QInv, ~IsSha(ref)
    PROVE  /\ DOMAIN Ladder = 1 .. Len(Ladder) /\ Len(Ladder) \in Nat
           /\ IsFiniteSet(DOMAIN Ladder)
           /\ \A n : (n \in Names /\ InSeries(n, ref)) <=> \E a \in DOMAIN Ladder : Ladder[a] = n
           /\ \A a, b \in DOMAIN Ladder :
                 /\ Ladder[a] = Ladder[b] => a = b
                 /\ Newer(Ladder[a], Ladder[b]) => a < b
<1>1. ref \in Names \cup Branches
  BY DEF QInv, Typed, IsSha
<1>2. Ladder \in Seq(Names)
  BY <1>1, SeriesAssumption DEF Ladder
<1>3. DOMAIN Ladder = 1 .. Len(Ladder) /\ Len(Ladder) \in Nat
  BY <1>2
<1>4. IsFiniteSet(DOMAIN Ladder)
  BY <1>3, FS_Interval
<1>5. {Ladder[a] : a \in DOMAIN Ladder} = {n \in Names : InSeries(n, ref)}
  BY <1>1, SeriesAssumption DEF Ladder
<1>6. \A n : (n \in Names /\ InSeries(n, ref)) <=> \E a \in DOMAIN Ladder : Ladder[a] = n
  BY <1>5
<1>7. \A a, b \in DOMAIN Ladder :
         /\ Ladder[a] = Ladder[b] => a = b
         /\ Newer(Ladder[a], Ladder[b]) => a < b
  BY <1>1, SeriesAssumption DEF Ladder
<1> QED BY <1>3, <1>4, <1>6, <1>7

(* The listing comes in.                                                     *)
LEMMA ListWalk ==
    ASSUME QInv, ListSeries, listed' = listing'
    PROVE  WalkInv'
<1>1. /\ candidates' = <<Candidate(ref, resolved)>>
      /\ UNCHANGED <<policy, ref, pc, resolved>> /\ pc = "walk" /\ ~Exempt
      /\ resolved \in Shas
  BY DEF ListSeries, QInv, Located
<1>2. Len(candidates') = 1 /\ DOMAIN candidates' = {1} /\ candidates'[1] = Candidate(ref, resolved)
  BY <1>1
<1>3. /\ \A n \in DOMAIN listing' : n \in Names /\ InSeries(n, ref) /\ listing'[n] \in Commits
      /\ IsSha(ref) => DOMAIN listing' = {}
  <2>1. CASE listing' = <<>>
    BY <2>1
  <2>2. CASE /\ ~IsSha(ref)
             /\ listing' = [n \in {m \in Names : tagged[m] # None /\ InSeries(m, ref)} |-> Peeled(n)]
    <3>1. \A n \in Names : tagged[n] # None => Peeled(n) \in Commits
      BY PeelFacts DEF QInv, Typed, Peeled
    <3> QED BY <2>2, <3>1
  <2> QED BY <2>1, <2>2 DEF ListSeries
<1>4. ListedInv'
  BY <1>1, <1>2, <1>3 DEF ListedInv, Candidate, Exempt, IsSha
<1>5. Gone' = {}
  BY DEF Gone
<1>6. Cardinality(Gone' \cap Firsts') = 0
  BY <1>5, FS_EmptySet
<1>7. GoneInv'
  BY <1>2, <1>5, <1>6 DEF GoneInv
<1> QED BY <1>4, <1>7 DEF WalkInv

(* One release further down.                                                 *)
LEMMA AddWalk ==
    ASSUME QInv, WalkInv, AddCandidate, listed' = listed
    PROVE  WalkInv'
<1>1. /\ UNCHANGED <<policy, ref, pc, resolved>> /\ pc = "walk" /\ candidates # <<>>
      /\ ListedInv
  BY DEF AddCandidate, WalkInv
<1>2. PICK n \in DOMAIN listing :
          /\ \A m \in DOMAIN listing \ {n} : Newer(n, m)
          /\ candidates' = IF listing[n] \in SeenShas THEN candidates
                           ELSE Append(candidates, Candidate(n, listing[n]))
          /\ listing' = [m \in DOMAIN listing \ {n} |-> listing[m]]
  BY DEF AddCandidate
<1>3. n \in DOMAIN listed /\ listing[n] = listed[n] /\ ~IsSha(ref) /\ GoneInv
  BY <1>1, <1>2 DEF ListedInv, WalkInv
<1> DEFINE Cand == [tag : Names \cup Branches \cup Shas, sha : Shas]
           new  == Candidate(n, listed[n])
<1>4. candidates \in Seq(Cand) /\ new \in Cand
  BY <1>1, <1>3 DEF QInv, Typed, Candidate, ListedInv, Shas
<1> HIDE DEF Cand
<1>5. /\ Len(candidates) \in Nat /\ Len(candidates) # 0
      /\ DOMAIN candidates = 1 .. Len(candidates) /\ 1 \in DOMAIN candidates
  BY <1>1, <1>4
<1>6. PICK x \in DOMAIN Ladder : Ladder[x] = n
  BY <1>1, <1>3, LadderFacts DEF ListedInv
<1>7. /\ Gone' = Gone \cup {x} /\ x \notin Gone
      /\ Left' = Left \ {x} /\ x \in Left
      /\ Firsts' = Firsts /\ Ladder' = Ladder
  <2>1. Ladder' = Ladder
    BY <1>1 DEF Ladder
  <2>2. Firsts' = Firsts
    BY <1>1, <2>1 DEF Firsts, Found
  <2>3. \A a \in DOMAIN Ladder : Ladder[a] = n <=> a = x
    BY <1>3, <1>6, LadderFacts
  <2>4. DOMAIN listing' = DOMAIN listing \ {n}
    BY <1>2
  <2>5. Gone' = Gone \cup {x} /\ x \notin Gone
    BY <1>3, <1>6, <2>1, <2>3, <2>4 DEF Gone
  <2>6. Left' = Left \ {x} /\ x \in Left
    BY <1>6, <2>1, <2>3, <2>4 DEF Left
  <2> QED BY <2>1, <2>2, <2>5, <2>6
<1>8. \A b \in Left' : x < b
  <2> SUFFICES ASSUME NEW b \in Left' PROVE x < b
    OBVIOUS
  <2>1. b \in DOMAIN Ladder /\ Ladder[b] \in DOMAIN listing /\ b # x
    BY <1>7 DEF Left
  <2>2. Ladder[b] # n
    BY <1>3, <1>6, <2>1, LadderFacts
  <2>3. Newer(Ladder[x], Ladder[b])
    BY <1>2, <1>6, <2>1, <2>2
  <2> QED BY <1>3, <2>1, <2>3, LadderFacts
<1>9. \A a \in Gone', b \in Left' : a < b
  BY <1>3, <1>7, <1>8 DEF GoneInv
<1>10. \A a \in Gone : a < x
  BY <1>3, <1>7 DEF GoneInv
<1>11. IsFiniteSet(Gone \cap Firsts)
  <2>1. Gone \cap Firsts \in SUBSET DOMAIN Ladder
    BY DEF Gone
  <2> QED BY <1>3, <2>1, LadderFacts, FS_Subset
<1>12. Found(x) = listed[n] /\ listed[n] \in Shas /\ listed[n] # None
  BY <1>1, <1>3, <1>6, NoneIsNothing DEF Found, ListedInv, Shas
<1>13. CASE listed[n] \in SeenShas
  <2>1. candidates' = candidates /\ SeenShas' = SeenShas
    BY <1>2, <1>3, <1>13 DEF SeenShas
  <2>2. x \notin Firsts
    <3>1. PICK j \in DOMAIN candidates : listed[n] = candidates[j].sha
      BY <1>13 DEF SeenShas
    <3>2. CASE j = 1
      BY <1>1, <1>12, <3>1, <3>2 DEF ListedInv, Candidate, Firsts
    <3>3. CASE j # 1
      <4>1. PICK a \in Gone \cap Firsts : candidates[j] = Candidate(Ladder[a], listed[Ladder[a]])
        BY <1>3, <3>3 DEF GoneInv
      <4>2. Found(a) = Found(x)
        BY <1>12, <3>1, <4>1 DEF Found, Gone, Candidate
      <4>3. a \in 1 .. x - 1
        <5>1. a < x /\ a \in Nat /\ x \in Nat /\ a >= 1
          BY <1>3, <1>10, <4>1, LadderFacts DEF Gone
        <5> QED BY <5>1
      <4> QED BY <4>2, <4>3 DEF Firsts
    <3> QED BY <3>2, <3>3
  <2>3. Gone' \cap Firsts' = Gone \cap Firsts
    BY <1>7, <2>2
  <2>4. GoneInv'
    <3>1. \A a \in Gone' : listed'[Ladder'[a]] \in SeenShas'
      BY <1>3, <1>6, <1>7, <1>13, <2>1 DEF GoneInv
    <3>2. \A j \in DOMAIN candidates' \ {1} : \E a \in Gone' \cap Firsts' :
             candidates'[j] = Candidate(Ladder'[a], listed'[Ladder'[a]])
      BY <1>3, <1>7, <2>1, <2>3 DEF GoneInv
    <3> QED BY <1>3, <1>9, <2>1, <2>3, <3>1, <3>2 DEF GoneInv
  <2>5. ListedInv'
    BY <1>1, <1>2, <2>1 DEF ListedInv, Exempt, IsSha
  <2> QED BY <2>4, <2>5 DEF WalkInv
<1>14. CASE listed[n] \notin SeenShas
  <2> DEFINE last == Len(candidates) + 1
  <2>1. candidates' = Append(candidates, new)
    BY <1>2, <1>3, <1>14
  <2> HIDE DEF new
  <2>2. /\ Len(candidates') = last
        /\ DOMAIN candidates' = DOMAIN candidates \cup {last} /\ last \notin DOMAIN candidates
        /\ candidates'[last] = new
        /\ \A j \in DOMAIN candidates : candidates'[j] = candidates[j]
    BY <1>4, <1>5, <2>1
  <2> HIDE DEF last
  <2> USE DEF new
  <2>3. SeenShas' = SeenShas \cup {listed[n]}
    <3>1. SeenShas \subseteq SeenShas'
      BY <2>2 DEF SeenShas
    <3>2. listed[n] \in SeenShas'
      BY <2>2 DEF SeenShas, Candidate
    <3>3. ASSUME NEW s \in SeenShas' PROVE s \in SeenShas \cup {listed[n]}
      BY <2>2, <3>3 DEF SeenShas, Candidate
    <3> QED BY <3>1, <3>2, <3>3
  <2>4. x \in Firsts
    <3>1. Found(x) # resolved
      BY <1>1, <1>5, <1>12, <1>14 DEF ListedInv, Candidate, SeenShas
    <3>2. ASSUME NEW b \in 1 .. x - 1 PROVE Found(b) # Found(x)
      <4>1. b \in DOMAIN Ladder /\ b < x /\ x \in Nat /\ b \in Nat
        BY <1>3, LadderFacts
      <4>2. CASE Ladder[b] \notin DOMAIN listed
        BY <1>12, <4>2 DEF Found
      <4>3. CASE Ladder[b] \in DOMAIN listed
        <5>1. b \notin Left'
          BY <1>8, <4>1
        <5>2. b \notin Left
          BY <1>7, <4>1, <5>1
        <5>3. b \in Gone
          BY <4>1, <4>3, <5>2 DEF Gone, Left
        <5> QED BY <1>3, <1>12, <1>14, <4>3, <5>3 DEF GoneInv, Found
      <4> QED BY <4>2, <4>3
    <3> QED BY <1>12, <3>1, <3>2 DEF Firsts
  <2>5. Gone' \cap Firsts' = (Gone \cap Firsts) \cup {x} /\ x \notin Gone \cap Firsts
    BY <1>7, <2>4
  <2>6. Cardinality(Gone' \cap Firsts') = Len(candidates') - 1
    <3>1. Cardinality(Gone' \cap Firsts') = Cardinality(Gone \cap Firsts) + 1
      BY <1>11, <2>5, FS_AddElement
    <3>2. Cardinality(Gone \cap Firsts) = Len(candidates) - 1
      BY <1>3 DEF GoneInv
    <3> QED BY <1>5, <2>2, <3>1, <3>2 DEF last
  <2>7. \A a \in Gone' : listed'[Ladder'[a]] \in SeenShas'
    BY <1>3, <1>6, <1>7, <2>3 DEF GoneInv
  <2>8. ASSUME NEW j \in DOMAIN candidates' \ {1}
        PROVE  \E a \in Gone' \cap Firsts' : candidates'[j] = Candidate(Ladder'[a], listed'[Ladder'[a]])
    <3>1. CASE j = last
      BY <1>6, <1>7, <2>2, <2>5, <3>1
    <3>2. CASE j # last
      <4>1. j \in DOMAIN candidates \ {1} /\ candidates'[j] = candidates[j]
        BY <2>2, <2>8, <3>2
      <4>2. \E a \in Gone \cap Firsts : candidates[j] = Candidate(Ladder[a], listed[Ladder[a]])
        BY <1>3, <4>1 DEF GoneInv
      <4> QED BY <1>7, <2>5, <4>1, <4>2
    <3> QED BY <3>1, <3>2
  <2>9. GoneInv'
    BY <1>9, <2>6, <2>7, <2>8 DEF GoneInv
  <2>10. ListedInv'
    BY <1>1, <1>2, <1>3, <1>5, <2>2 DEF ListedInv, Exempt, IsSha
  <2> QED BY <2>9, <2>10 DEF WalkInv
<1> QED BY <1>13, <1>14

(* Every step keeps the walk in order.                                       *)
LEMMA NextWalk ==
    ASSUME QInv, WalkInv, [StepNext]_stepVars
    PROVE  WalkInv'
<1>1. CASE /\ UNCHANGED <<candidates, listing, listed, ref, policy>>
           /\ candidates # <<>> => resolved' = resolved /\ pc' \in {"walk", "end"} \cup Sources
  <2> SUFFICES ASSUME candidates # <<>> PROVE WalkInv'
    BY <1>1 DEF WalkInv
  <2>1. ListedInv /\ (~IsSha(ref) => GoneInv)
    BY DEF WalkInv
  <2>2. ListedInv'
    BY <1>1, <2>1 DEF ListedInv, Exempt, IsSha
  <2>3. Ladder' = Ladder /\ SeenShas' = SeenShas
    BY <1>1 DEF Ladder, SeenShas
  <2>4. Gone' = Gone /\ Left' = Left
    BY <1>1, <2>3 DEF Gone, Left
  <2>5. Firsts' = Firsts
    BY <1>1, <2>3 DEF Firsts, Found
  <2>6. ~IsSha(ref') => GoneInv'
    <3>1. GoneInv => GoneInv'
      BY <1>1, <2>3, <2>4, <2>5 DEF GoneInv
    <3> QED BY <1>1, <2>1, <3>1 DEF IsSha
  <2> QED BY <2>2, <2>6 DEF WalkInv
<1>2. CASE ListSeries /\ listed' = listing'
  BY <1>2, ListWalk
<1>3. CASE AddCandidate /\ listed' = listed
  BY <1>3, AddWalk
<1>4. CASE UNCHANGED stepVars
  <2>1. candidates # <<>> => pc \in {"walk", "end"} \cup Sources
    BY DEF WalkInv, ListedInv
  <2> QED BY <1>1, <1>4, <2>1 DEF stepVars, vars
<1>5. CASE (ReadPolicy \/ Resolve) /\ listed' = listed
  <2>1. candidates = <<>>
    BY <1>5 DEF WalkInv, ListedInv, Sources, ReadPolicy, Resolve, AskTags, AskHeads, AskAny,
                AskApiTags, AskApiHeads
  <2>2. UNCHANGED <<candidates, listing, listed, ref, policy>>
    BY <1>5 DEF ReadPolicy, Resolve
  <2> QED BY <1>1, <2>1, <2>2
<1>6. CASE (PinExempt \/ Walked \/ AskRelease \/ AskMerged \/ AskCommitted \/ Upstream) /\ listed' = listed
  <2>1. UNCHANGED <<candidates, listing, listed, ref, policy, resolved>>
    BY <1>6 DEF PinExempt, Walked, AskRelease, AskMerged, AskCommitted, Asks, Upstream
  <2>2. pc' \in {"walk", "end"} \cup Sources \/ pc' = pc
    BY <1>6 DEF PinExempt, Walked, AskRelease, AskMerged, AskCommitted, Asks, Judge, Ends, Fails,
                Upstream, Sources
  <2>3. candidates # <<>> => pc \in {"walk", "end"} \cup Sources
    BY DEF WalkInv, ListedInv
  <2> QED BY <1>1, <2>1, <2>2, <2>3
<1>7. ~ListSeries => listed' = listed \/ UNCHANGED stepVars
  BY DEF StepNext
<1> QED BY <1>2, <1>3, <1>4, <1>5, <1>6, <1>7 DEF StepNext, Next, Pick

(* The search within the step module is the search.                          *)
LEMMA StepIsSearch == StepSpec => Spec
<1>1. StepInit => Init
  BY DEF StepInit
<1>2. [StepNext]_stepVars => [Next]_vars
  BY DEF StepNext, stepVars
<1> QED BY <1>1, <1>2, PTL DEF StepSpec, Spec

(* What a search that ends leaves: what the ref points at, when the action   *)
(* is exempt or that is a commit that clears; or a release below it that     *)
(* does; or nothing.                                                         *)
PinsRef == /\ result'.ok /\ ~result'.held /\ result'.sha = resolved
           /\ Exempt \/ resolved \in Clears
PinsOlder == /\ result'.ok /\ result'.held
             /\ candidates # <<>> /\ ~Exempt /\ ~IsSha(ref)
             /\ \E a \in Gone \cap Firsts :
                   /\ result'.tag = Ladder[a] /\ result'.sha = listed[Ladder[a]]
                   /\ listed[Ladder[a]] \in Clears
PinsNone == ~result'.ok /\ ~Exempt

(* What the age of a candidate says, by the source it comes from.            *)
WhatItSays(age, source) == age # None =>
    /\ source = "committed" => age <= CommittedFor[CommitOf[Current.sha]]
    /\ Answerable(source) => age <= PublicFor[CommitOf[Current.sha]]
    /\ source = "release" => age = ReleaseAge(Current.tag)

(* Judging a candidate to the end leaves one of these.                       *)
LEMMA JudgePicks ==
    ASSUME QInv, WalkInv, candidates # <<>>, NEW age \in Nat \cup {None}, NEW source \in Sources,
           Judge(age, source), pc' = "end",
           WhatItSays(age, source)
    PROVE  PinsRef \/ PinsOlder \/ PinsNone
<1>1. /\ i \in DOMAIN candidates /\ DOMAIN candidates = 1 .. Len(candidates)
      /\ Len(candidates) \in Nat /\ Current.sha \in Shas
  BY CurrentFacts
<1>2. ListedInv /\ (~IsSha(ref) => GoneInv)
  BY DEF WalkInv
<1>3. CASE /\ age # None /\ (floor.require_trusted_age => IsTrusted(source))
           /\ age >= floor.min_age_days
           /\ result' = [ok |-> TRUE, reason |-> source, sha |-> Current.sha,
                         tag |-> Current.tag, age |-> age, held |-> i > 1]
  <2>1. /\ floor.min_age_days \in Nat /\ PublicFor[CommitOf[Current.sha]] \in Nat
        /\ CommittedFor[CommitOf[Current.sha]] \in Nat /\ age \in Nat
    BY <1>1, <1>3, PeelFacts DEF QInv, Typed
  <2>2. Current.sha \in Clears
    <3>1. CASE Answerable(source)
      <4>1. floor.min_age_days <= PublicFor[CommitOf[Current.sha]]
        BY <1>3, <2>1, <3>1 DEF WhatItSays
      <4> QED BY <1>1, <2>1, <4>1 DEF Clears
    <3>2. CASE source = "committed"
      <4>1. floor.min_age_days <= CommittedFor[CommitOf[Current.sha]]
        BY <1>3, <2>1, <3>2 DEF WhatItSays
      <4>2. ~floor.require_trusted_age
        BY <1>3, <3>2 DEF IsTrusted
      <4> QED BY <1>1, <2>1, <4>1, <4>2 DEF Clears
    <3>3. CASE source = "release" /\ i = 1 /\ found # ref
      <4>1. Current.sha = resolved /\ Current.tag = ref
        BY <1>2, <3>3 DEF ListedInv, Current, Candidate
      <4>2. ReleaseAge(ref) # None /\ ReleaseAge(ref) >= floor.min_age_days
        BY <1>3, <3>3, <4>1 DEF WhatItSays
      <4>3. Misaged(Current.sha)
        BY <3>3, <4>1, <4>2 DEF Misaged
      <4> QED BY <1>1, <4>3 DEF Clears
    <3> QED BY <3>1, <3>2, <3>3 DEF Sources, Answerable
  <2>3. CASE i = 1
    <3>1. Current.sha = resolved
      BY <1>2, <2>3 DEF ListedInv, Current, Candidate
    <3>2. ~(i > 1)
      BY <2>3
    <3>3. result'.ok /\ result'.held = (i > 1) /\ result'.sha = resolved
      BY <1>3, <3>1, Zenon
    <3> QED BY <2>2, <3>1, <3>2, <3>3 DEF PinsRef
  <2>4. CASE i # 1
    <3>1. i > 1 /\ i \in DOMAIN candidates \ {1}
      BY <1>1, <2>4
    <3>2. ~IsSha(ref)
      BY <1>1, <1>2, <3>1 DEF ListedInv
    <3>3. PICK a \in Gone \cap Firsts : Current = Candidate(Ladder[a], listed[Ladder[a]])
      BY <1>2, <3>1, <3>2 DEF GoneInv, Current
    <3>4. Current.tag = Ladder[a] /\ Current.sha = listed[Ladder[a]]
      BY <3>3 DEF Candidate
    <3> QED BY <1>2, <1>3, <2>2, <3>1, <3>2, <3>4 DEF PinsOlder, ListedInv
  <2> QED BY <2>3, <2>4
<1>4. CASE ~result'.ok
  BY <1>2, <1>4 DEF PinsNone, ListedInv
<1> QED BY <1>3, <1>4 DEF Judge, Ends, Fails

(* And so does every step that ends the search after the ref was resolved.   *)
LEMMA EndPicks ==
    ASSUME QInv, WalkInv, StepNext, pc \in {"walk"} \cup Sources, pc' = "end"
    PROVE  /\ PinsRef \/ PinsOlder \/ PinsNone
           /\ UNCHANGED <<ref, policy, floor, resolved, found, releases, listed>>
           /\ resolved \in Shas
<1>1. CASE PinExempt
  BY <1>1 DEF PinExempt, Ends, PinsRef, QInv, Located, StepNext, ListSeries, repository
<1>2. CASE AskRelease \/ AskMerged \/ AskCommitted
  <2>1. pc \in Sources /\ candidates # <<>>
    BY <1>2 DEF AskRelease, AskMerged, AskCommitted, Asks, Sources, QInv, Located
  <2>2. /\ Current.sha \in Shas
        /\ (i # 1 \/ found = ref) => Sound(Current.tag, Current.sha)
        /\ PublicFor[CommitOf[Current.sha]] \in Nat
        /\ MergedFor[CommitOf[Current.sha]] \in Nat \cup {None}
        /\ CommittedFor[CommitOf[Current.sha]] \in Nat
        /\ CommitOf[Current.sha] \in Commits
    BY <2>1, CurrentFacts, PeelFacts
  <2>3. UNCHANGED <<ref, policy, floor, resolved, found, releases>>
    BY <1>2 DEF AskRelease, AskMerged, AskCommitted, Asks, repository
  <2>4. listed' = listed /\ resolved \in Shas
    BY <2>1 DEF StepNext, ListSeries, Sources, WalkInv, ListedInv
  <2>5. ASSUME NEW source \in Sources, NEW age \in Nat \cup {None}, NEW next \in {"merged", "committed", "end"},
               Asks(source, age, next), WhatItSays(age, source)
        PROVE  PinsRef \/ PinsOlder \/ PinsNone
    <3>1. CASE Judge(age, source)
      BY <2>1, <2>5, <3>1, JudgePicks
    <3>2. CASE Judge(None, source)
      BY <2>1, <2>5, <3>2, JudgePicks DEF WhatItSays
    <3> QED BY <2>5, <3>1, <3>2 DEF Asks
  <2>6. CASE AskRelease
    <3>1. /\ ReleaseAge(Current.tag) \in Nat \cup {None}
          /\ (ReleaseAge(Current.tag) # None /\ (i # 1 \/ found = ref)) =>
                ReleaseAge(Current.tag) <= PublicFor[CommitOf[Current.sha]]
      BY <2>2 DEF ReleaseAge, Sound, QInv, Typed, Releases
    <3>2. WhatItSays(ReleaseAge(Current.tag), "release")
      BY <3>1 DEF WhatItSays, Answerable
    <3> QED BY <2>3, <2>4, <2>5, <2>6, <3>1, <3>2 DEF AskRelease, Sources
  <2>7. CASE AskMerged
    <3>1. MergedFor[CommitOf[Current.sha]] # None =>
              MergedFor[CommitOf[Current.sha]] <= PublicFor[CommitOf[Current.sha]]
      BY <2>2, MergeIsPublic
    <3>2. WhatItSays(MergedFor[CommitOf[Current.sha]], "merged")
      BY <3>1 DEF WhatItSays
    <3> QED BY <2>2, <2>3, <2>4, <2>5, <2>7, <3>2 DEF AskMerged, Sources
  <2>8. CASE AskCommitted
    <3>1. WhatItSays(CommittedFor[CommitOf[Current.sha]], "committed")
      BY <2>2 DEF WhatItSays, Answerable
    <3> QED BY <2>2, <2>3, <2>4, <2>5, <2>8, <3>1 DEF AskCommitted, Sources
  <2> QED BY <1>2, <2>6, <2>7, <2>8
<1>3. CASE ReadPolicy \/ Resolve \/ ListSeries \/ AddCandidate \/ Walked \/ Upstream
  BY <1>3 DEF ReadPolicy, Resolve, AskTags, AskHeads, AskAny, AskApiTags, AskApiHeads, ListSeries,
              AddCandidate, Walked, Upstream, Sources
<1> QED BY <1>1, <1>2, <1>3 DEF StepNext, Next, Pick

(* Locker sees the listing, place by place.                                  *)
LEMMA SameSeries ==
    ASSUME QInv, WalkInv, candidates # <<>>, ~IsSha(ref)
    PROVE  /\ Command!Ref(Key) = ref /\ ref \in Names \cup Branches
           /\ \A a \in DOMAIN Ladder : Command!SeriesSha(Key, a) = Found(a)
<1>1. ref \in Names \cup Branches
  BY DEF QInv, Typed, IsSha
<1>2. Command!Ref(Key) = ref /\ Command!Action(Key) = Me
  BY DEF Command!Ref, Command!Action, Key
<1>3. ASSUME NEW a \in DOMAIN Ladder
      PROVE  Command!SeriesSha(Key, a) = Found(a)
  <2>1. Ladder[a] \in Names
    BY <1>3, LadderFacts
  <2>2. Command!SeriesSha(Key, a) = Listed[<<Me, Ladder[a]>>]
    BY <1>2 DEF Command!SeriesSha, Ladder
  <2> QED BY <2>1, <2>2 DEF Listed, Found
<1> QED BY <1>1, <1>2, <1>3

(* Locker counts as this module does.                                        *)
LEMMA SameCardinality == \A T : Command!Cardinality(T) = Cardinality(T)
  BY DEF Command!Cardinality, Cardinality

(* The places that have become candidates are places Locker may fall back    *)
(* to, and no other place of its has the commit of one of them.              *)
LEMMA GoneIsFallback ==
    ASSUME QInv, SeriesInv, WalkInv, candidates # <<>>, ~IsSha(ref),
           NEW a \in Gone \cap Firsts
    PROVE  /\ a \in Command!Fallbacks(Key, resolved)
           /\ \A b \in Command!Fallbacks(Key, resolved) : Found(b) = Found(a) => b = a
           /\ \A b \in Command!Fallbacks(Key, resolved) : b \in DOMAIN Ladder
<1>1. ListedInv /\ GoneInv
  BY DEF WalkInv
<1>2. DOMAIN Ladder = 1 .. Len(Ladder) /\ Len(Ladder) \in Nat
  BY LadderFacts
<1>3. \A b \in DOMAIN Ladder : \A c \in 1 .. b - 1 : c \in DOMAIN Ladder
  BY <1>2
<1>4. Command!Fallbacks(Key, resolved)
        = {b \in Firsts : Cardinality({c \in Firsts : c < b}) + 2 <= MaxCandidates}
  <2>1. DOMAIN Series[Command!Ref(Key)] = DOMAIN Ladder
    BY SameSeries DEF Ladder
  <2>2. {b \in DOMAIN Ladder : /\ Command!SeriesSha(Key, b) \notin {None, resolved}
                               /\ \A c \in 1 .. b - 1 :
                                     Command!SeriesSha(Key, c) # Command!SeriesSha(Key, b)}
          = Firsts
    BY <1>3, SameSeries DEF Firsts
  <2> QED BY <2>1, <2>2, SameCardinality DEF Command!Fallbacks
<1>5. IsFiniteSet(Gone \cap Firsts) /\ Cardinality(Gone \cap Firsts) = Len(candidates) - 1
  <2>1. Gone \cap Firsts \in SUBSET DOMAIN Ladder
    BY DEF Gone
  <2> QED BY <1>1, <2>1, LadderFacts, FS_Subset DEF GoneInv
<1>6. {c \in Firsts : c < a} \in SUBSET ((Gone \cap Firsts) \ {a})
  <2> SUFFICES ASSUME NEW c \in Firsts, c < a PROVE c \in Gone /\ c # a
    OBVIOUS
  <2>1. c \in DOMAIN Ladder /\ a \in DOMAIN Ladder /\ c \in Nat /\ a \in Nat
    BY <1>2 DEF Firsts, Gone
  <2>2. Ladder[c] \in DOMAIN listed
    BY DEF Firsts, Found
  <2>3. c \notin Left
    <3> SUFFICES ASSUME c \in Left PROVE FALSE
      OBVIOUS
    <3>1. a < c
      BY <1>1 DEF GoneInv
    <3> QED BY <2>1, <3>1
  <2> QED BY <2>1, <2>2, <2>3 DEF Gone, Left
<1>7. Cardinality({c \in Firsts : c < a}) + 2 <= MaxCandidates
  <2>1. /\ IsFiniteSet((Gone \cap Firsts) \ {a})
        /\ Cardinality((Gone \cap Firsts) \ {a}) = Len(candidates) - 2
    <3>1. /\ IsFiniteSet((Gone \cap Firsts) \ {a})
          /\ Cardinality((Gone \cap Firsts) \ {a}) = Cardinality(Gone \cap Firsts) - 1
      BY <1>5, FS_RemoveElement
    <3>2. Len(candidates) \in Nat
      BY CurrentFacts
    <3> QED BY <1>5, <3>1, <3>2
  <2>2. /\ IsFiniteSet({c \in Firsts : c < a})
        /\ Cardinality({c \in Firsts : c < a}) <= Len(candidates) - 2
    BY <1>6, <2>1, FS_Subset
  <2>3. Cardinality({c \in Firsts : c < a}) \in Nat
    BY <2>2, FS_CardinalityType
  <2>4. Len(candidates) <= MaxCandidates /\ Len(candidates) \in Nat /\ MaxCandidates \in Nat
    BY CurrentFacts, Shapes DEF SeriesInv, CandidatesDistinct
  <2> QED BY <2>2, <2>3, <2>4
<1>8. ASSUME NEW b \in Firsts, Found(b) = Found(a), b # a
      PROVE  FALSE
  <2>1. b \in DOMAIN Ladder /\ a \in DOMAIN Ladder
    BY <1>8 DEF Firsts
  <2>2. b \in 1 .. a - 1 \/ a \in 1 .. b - 1
    BY <1>2, <1>8, <2>1
  <2> QED BY <1>8, <2>2 DEF Firsts
<1> QED BY <1>4, <1>7, <1>8 DEF Firsts

(* What Locker's quarantine says of the three ways a search may end.         *)
LEMMA TargetsFor ==
    ASSUME QInv, SeriesInv, WalkInv, resolved \in Shas
    PROVE  /\ Command!Targets(Key, resolved, FALSE, {resolved})
                 = {[sha |-> resolved, selected |-> None]}
           /\ Command!Targets(Key, resolved, FALSE, {})
                 = IF Exempt THEN {[sha |-> resolved, selected |-> None]} ELSE {}
           /\ \A a \in Gone \cap Firsts : (candidates # <<>> /\ ~Exempt /\ ~IsSha(ref)) =>
                 Command!Targets(Key, resolved, TRUE, {listed[Ladder[a]]})
                    = {[sha |-> listed[Ladder[a]], selected |-> Ladder[a]]}
<1>1. Command!Exempt(Key) <=> Exempt
  BY DEF Command!Exempt, LockCall
<1>2. Command!Targets(Key, resolved, FALSE, {resolved}) = {[sha |-> resolved, selected |-> None]}
  BY DEF Command!Targets, Command!Aged
<1>3. Command!Targets(Key, resolved, FALSE, {})
        = IF Exempt THEN {[sha |-> resolved, selected |-> None]} ELSE {}
  BY <1>1 DEF Command!Targets, Command!Aged
<1>4. ASSUME NEW a \in Gone \cap Firsts, candidates # <<>>, ~Exempt, ~IsSha(ref)
      PROVE  Command!Targets(Key, resolved, TRUE, {listed[Ladder[a]]})
                = {[sha |-> listed[Ladder[a]], selected |-> Ladder[a]]}
  <2> DEFINE sha == listed[Ladder[a]]
             older == {b \in Command!Fallbacks(Key, resolved) : Command!SeriesSha(Key, b) \in {sha}}
  <2>1. /\ a \in DOMAIN Ladder /\ a \in Nat
        /\ Found(a) = sha /\ sha # resolved
    <3>1. a \in DOMAIN Ladder /\ Ladder[a] \in DOMAIN listed
      BY DEF Gone
    <3>2. a \in Nat
      BY <1>4, <3>1, LadderFacts
    <3> QED BY <3>1, <3>2 DEF Firsts, Found
  <2>2. Command!SeriesSha(Key, a) = sha
    BY <1>4, <2>1, SameSeries
  <2>3. older = {a}
    <3>1. a \in older
      BY <1>4, <2>2, GoneIsFallback
    <3>2. ASSUME NEW b \in older PROVE b = a
      <4>1. b \in DOMAIN Ladder
        BY <1>4, GoneIsFallback
      <4>2. Found(b) = Found(a)
        BY <1>4, <2>1, <4>1, SameSeries
      <4> QED BY <1>4, <4>2, GoneIsFallback
    <3> QED BY <3>1, <3>2
  <2>4. {b \in older : \A c \in older : b <= c} = {a}
    BY <2>1, <2>3
  <2>5. Command!Ref(Key) \in Names \cup Branches /\ Series[Command!Ref(Key)] = Ladder
    BY <1>4, SameSeries DEF Ladder
  <2>6. Command!Targets(Key, resolved, TRUE, {sha}) = Command!Aged(Key, resolved, TRUE, {sha})
    BY <1>1, <1>4 DEF Command!Targets
  <2>7. Command!Aged(Key, resolved, TRUE, {sha})
          = {[sha |-> Command!SeriesSha(Key, b), selected |-> Ladder[b]] :
                b \in {b \in older : \A c \in older : b <= c}}
    <3>1. resolved \notin {sha}
      BY <2>1
    <3> QED BY <2>5, <3>1 DEF Command!Aged
  <2>8. Command!Aged(Key, resolved, TRUE, {sha})
          = {[sha |-> Command!SeriesSha(Key, b), selected |-> Ladder[b]] : b \in {a}}
    BY <2>4, <2>7
  <2> HIDE DEF sha, older
  <2>9. Command!Aged(Key, resolved, TRUE, {sha}) = {[sha |-> sha, selected |-> Ladder[a]]}
    BY <2>2, <2>8
  <2> QED BY <2>6, <2>9 DEF sha
<1> QED BY <1>2, <1>3, <1>4

(* Locker's one step, given what is picked and the ages that lead to it.     *)
LEMMA PinStep ==
    ASSUME ref \in Names \cup Branches \cup Shas, pc # "end", pc' = "end",
           UNCHANGED <<ref, policy, floor, resolved, found, releases, listed>>,
           NEW walk \in BOOLEAN, NEW clear \in SUBSET Clears, NEW selected,
           result'.ok,
           [sha |-> result'.sha, selected |-> selected] \in Command!Targets(Key, resolved, walk, clear),
           selected = IF result'.held THEN result'.tag ELSE None
    PROVE  Command!LockPin(Key)
<1> DEFINE p == [sha |-> result'.sha, selected |-> selected]
<1>1. InHand[Key] = resolved /\ Key \in DOMAIN InHand /\ InHand' = Nowhere
  BY DEF InHand
<1>2. Key' = Key /\ Clears' = Clears /\ Listed' = Listed /\ LockCall' = LockCall
  BY DEF Key, Clears, Misaged, ReleaseAge, Listed, LockCall, Exempt
<1>3. Pinned = Nowhere
  BY DEF Pinned
<1>4. Command!NewEntry(Key, p)
        = [resolved |-> result'.sha, selected |-> selected, integrity |-> None, at |-> {}]
  BY <1>3 DEF Command!NewEntry, Nowhere
<1>5. Pinned' = Command!Put(Pinned, Key, Command!NewEntry(Key, p))
  BY <1>2, <1>3, <1>4 DEF Pinned, Command!Put, Nowhere
<1>6. InHand' = Command!Drop(InHand, Key)
  BY <1>1 DEF InHand, Command!Drop, Nowhere
<1>7. Command!First(Key)
  BY DEF Command!First, Key
<1> QED BY <1>1, <1>2, <1>5, <1>6, <1>7 DEF Command!LockPin, Command!repoVars, Command!worldVars

(* And for a refusal, which needs no age at all.                             *)
LEMMA RefuseStep ==
    ASSUME ref \in Names \cup Branches \cup Shas, pc # "end", pc' = "end",
           UNCHANGED <<ref, policy, floor, resolved, found, releases, listed>>,
           ~result'.ok, Command!Targets(Key, resolved, FALSE, {}) = {}
    PROVE  Command!LockRefuse(Key)
<1>1. InHand[Key] = resolved /\ Key \in DOMAIN InHand /\ InHand' = Nowhere
  BY DEF InHand
<1>2. Key' = Key /\ Clears' = Clears /\ Listed' = Listed /\ LockCall' = LockCall
  BY DEF Key, Clears, Misaged, ReleaseAge, Listed, LockCall, Exempt
<1>3. Pinned' = Pinned
  BY DEF Pinned
<1>4. InHand' = Command!Drop(InHand, Key)
  BY <1>1 DEF InHand, Command!Drop, Nowhere
<1>5. Command!First(Key)
  BY DEF Command!First, Key
<1> QED BY <1>1, <1>2, <1>3, <1>4, <1>5 DEF Command!LockRefuse, Command!repoVars, Command!worldVars

(* Every search that ends after its ref was resolved is Locker's one step:   *)
(* for every repository, policy, series and order of events it pins or       *)
(* refuses what Locker may pin or refuse, with the ages the sources give.    *)
THEOREM PickIsOneStepHolds == StepSpec => PickIsOneStep
<1>1. Init => SeriesInv /\ WalkInv
  BY Shapes DEF Init, SeriesInv, CandidatesDistinct, WalkInv
<1>2. QInv /\ SeriesInv /\ [Next]_vars => SeriesInv'
  BY NextDistinct
<1>3. QInv /\ WalkInv /\ [StepNext]_stepVars => WalkInv'
  BY NextWalk
<1>4. QInv /\ SeriesInv /\ WalkInv /\ [StepNext]_stepVars =>
         [(pc \in {"walk"} \cup Sources /\ pc' = "end")
            => Command!LockPin(Key) \/ Command!LockRefuse(Key)]_stepVars
  <2> SUFFICES ASSUME QInv, SeriesInv, WalkInv, StepNext, pc \in {"walk"} \cup Sources, pc' = "end"
               PROVE  Command!LockPin(Key) \/ Command!LockRefuse(Key)
    OBVIOUS
  <2>1. /\ PinsRef \/ PinsOlder \/ PinsNone
        /\ UNCHANGED <<ref, policy, floor, resolved, found, releases, listed>>
        /\ resolved \in Shas
    BY EndPicks
  <2>2. ref \in Names \cup Branches \cup Shas /\ pc # "end"
    BY DEF QInv, Typed, Sources
  <2>3. CASE PinsRef
    <3>1. PICK clear \in SUBSET Clears :
             [sha |-> resolved, selected |-> None] \in Command!Targets(Key, resolved, FALSE, clear)
      <4>1. CASE Exempt
        <5>1. {} \in SUBSET Clears
          OBVIOUS
        <5> QED BY <2>1, <4>1, <5>1, TargetsFor
      <4>2. CASE resolved \in Clears
        <5>1. {resolved} \in SUBSET Clears
          BY <4>2
        <5> QED BY <2>1, <5>1, TargetsFor
      <4> QED BY <2>3, <4>1, <4>2 DEF PinsRef
    <3> QED BY <2>1, <2>2, <2>3, <3>1, PinStep DEF PinsRef
  <2>4. CASE PinsOlder
    <3>1. PICK a \in Gone \cap Firsts :
             /\ result'.tag = Ladder[a] /\ result'.sha = listed[Ladder[a]]
             /\ listed[Ladder[a]] \in Clears
      BY <2>4 DEF PinsOlder
    <3>2. [sha |-> result'.sha, selected |-> result'.tag]
            \in Command!Targets(Key, resolved, TRUE, {listed[Ladder[a]]})
      BY <2>1, <2>4, <3>1, TargetsFor DEF PinsOlder
    <3> QED BY <2>1, <2>2, <2>4, <3>1, <3>2, PinStep DEF PinsOlder
  <2>5. CASE PinsNone
    BY <2>1, <2>2, <2>5, TargetsFor, RefuseStep DEF PinsNone
  <2> QED BY <2>1, <2>3, <2>4, <2>5
<1>5. [StepNext]_stepVars => [Next]_vars
  BY DEF StepNext, stepVars
<1> QED BY <1>1, <1>2, <1>3, <1>4, <1>5, QInvHolds, StepIsSearch, PTL
        DEF StepSpec, StepInit, PickIsOneStep

(* ------------------------------- the end --------------------------------- *)
(* The lookups in their order, before a step and after it.                   *)
LEMMA LookupFacts ==
    /\ pc = "policy" => LookupsLeft = 6
    /\ pc = "tags" => LookupsLeft = 5
    /\ pc = "heads" => LookupsLeft = 4
    /\ pc = "any" => LookupsLeft = 3
    /\ pc = "apiTags" => LookupsLeft = 2
    /\ pc = "apiHeads" => LookupsLeft = 1
    /\ pc = "walk" => LookupsLeft = 0
    /\ pc' = "tags" => LookupsLeft' = 5
    /\ pc' = "heads" => LookupsLeft' = 4
    /\ pc' = "any" => LookupsLeft' = 3
    /\ pc' = "apiTags" => LookupsLeft' = 2
    /\ pc' = "apiHeads" => LookupsLeft' = 1
    /\ pc' = "walk" => LookupsLeft' = 0
  BY DEF LookupsLeft

(* The parts of the bound are numbers.                                       *)
LEMMA BoundFacts ==
    ASSUME QInv, SeriesInv
    PROVE  /\ Cardinality(Names) \in Nat /\ Cardinality(DOMAIN listing) \in Nat
           /\ IsFiniteSet(DOMAIN listing)
           /\ Cardinality(DOMAIN listing) <= Cardinality(Names)
           /\ MaxCandidates \in Nat /\ i \in Nat \ {0} /\ Len(candidates) \in Nat
           /\ Len(candidates) <= MaxCandidates
           /\ candidates # <<>> => i <= Len(candidates)
           /\ LookupsLeft \in 0 .. 6 /\ QuestionsLeft \in 1 .. 3
<1>1. /\ IsFiniteSet(DOMAIN listing) /\ Cardinality(DOMAIN listing) <= Cardinality(Names)
  BY FinitelyMany, FS_Subset DEF QInv, Typed
<1>2. Cardinality(Names) \in Nat /\ Cardinality(DOMAIN listing) \in Nat
  BY <1>1, FinitelyMany, FS_CardinalityType
<1> DEFINE Cand == [tag : Names \cup Branches \cup Shas, sha : Shas]
<1>3. candidates \in Seq(Cand) /\ i \in Nat \ {0}
  BY DEF QInv, Typed
<1> HIDE DEF Cand
<1>4. Len(candidates) \in Nat /\ DOMAIN candidates = 1 .. Len(candidates)
  BY <1>3
<1>5. candidates # <<>> => i <= Len(candidates)
  BY <1>4 DEF QInv, Typed
<1>6. Len(candidates) <= MaxCandidates /\ MaxCandidates \in Nat
  BY Shapes DEF SeriesInv, CandidatesDistinct
<1>7. LookupsLeft \in 0 .. 6 /\ QuestionsLeft \in 1 .. 3
  BY DEF LookupsLeft, QuestionsLeft
<1> QED BY <1>1, <1>2, <1>3, <1>4, <1>5, <1>6, <1>7

(* So is the bound, and only at the end is nothing left.                     *)
LEMMA RemainingFacts ==
    ASSUME QInv, SeriesInv
    PROVE  /\ Remaining \in 0 .. 3 * MaxCandidates + Cardinality(Names) + 8
           /\ pc # "end" => Remaining > 0
<1>1. CASE pc = "end"
  BY <1>1, BoundFacts DEF Remaining
<1>2. CASE pc \in Sources
  <2>1. candidates # <<>> /\ pc # "end"
    BY <1>2 DEF QInv, Located, Sources
  <2>2. Remaining = 3 * (Len(candidates) - i) + QuestionsLeft
    BY <1>2, <2>1 DEF Remaining
  <2> QED BY <2>1, <2>2, BoundFacts
<1>3. CASE pc \notin Sources \cup {"end"}
  <2>1. Remaining = 3 * MaxCandidates + 1
                      + (IF candidates = <<>> THEN LookupsLeft + Cardinality(Names) + 1
                                              ELSE Cardinality(DOMAIN listing))
    BY <1>3 DEF Remaining
  <2>2. CASE candidates = <<>>
    <3>1. Remaining = 3 * MaxCandidates + 1 + (LookupsLeft + Cardinality(Names) + 1)
      BY <2>1, <2>2
    <3>2. /\ LookupsLeft \in Nat /\ LookupsLeft <= 6
          /\ MaxCandidates \in Nat /\ Cardinality(Names) \in Nat
      BY BoundFacts
    <3> QED BY <3>1, <3>2
  <2>3. CASE candidates # <<>>
    <3>1. Remaining = 3 * MaxCandidates + 1 + Cardinality(DOMAIN listing)
      BY <2>1, <2>3
    <3> QED BY <1>3, <3>1, BoundFacts
  <2> QED BY <2>2, <2>3
<1> QED BY <1>1, <1>2, <1>3

(* A step of the search.                                                     *)
LEMMA PickAdvances ==
    ASSUME QInv, SeriesInv, Pick, (QInv /\ SeriesInv)'
    PROVE  Remaining' < Remaining
<1> DEFINE M == MaxCandidates
           N == Cardinality(Names)
<1>0. M \in Nat /\ N \in Nat
  BY BoundFacts
<1>1. pc # "end" /\ Remaining > 0 /\ Remaining \in Nat
  <2>1. pc # "end"
    BY DEF Pick, ReadPolicy, Resolve, AskTags, AskHeads, AskAny, AskApiTags, AskApiHeads, PinExempt,
           ListSeries, AddCandidate, Walked, AskRelease, AskMerged, AskCommitted, Asks
  <2> QED BY <1>0, <2>1, RemainingFacts
<1>2. CASE pc' = "end"
  BY <1>1, <1>2 DEF Remaining
<1>3. CASE (ReadPolicy \/ Resolve) /\ pc' # "end"
  <2>1. candidates = <<>> /\ candidates' = <<>> /\ pc \notin Sources
    BY <1>3 DEF QInv, Located, ReadPolicy, Resolve, AskTags, AskHeads, AskAny, AskApiTags,
                AskApiHeads, Sources
  <2>2. pc' \notin Sources /\ LookupsLeft' < LookupsLeft
    <3>1. \/ pc = "policy" /\ pc' \in {"tags", "walk"}
          \/ pc = "tags" /\ pc' \in {"walk", "heads", "apiTags"}
          \/ pc = "heads" /\ pc' \in {"walk", "any", "apiTags"}
          \/ pc = "any" /\ pc' \in {"walk", "apiTags"}
          \/ pc = "apiTags" /\ pc' \in {"walk", "apiHeads"}
          \/ pc = "apiHeads" /\ pc' = "walk"
      BY <1>3 DEF ReadPolicy, Resolve, AskTags, AskHeads, AskAny, AskApiTags, AskApiHeads,
                  Finds, Skips, Gives, Fails, Ends
    <3>2. pc' \notin Sources
      BY <3>1 DEF Sources
    <3>3. \/ LookupsLeft = 6 /\ LookupsLeft' \in {5, 0}
          \/ LookupsLeft = 5 /\ LookupsLeft' \in {0, 4, 2}
          \/ LookupsLeft = 4 /\ LookupsLeft' \in {0, 3, 2}
          \/ LookupsLeft = 3 /\ LookupsLeft' \in {0, 2}
          \/ LookupsLeft = 2 /\ LookupsLeft' \in {0, 1}
          \/ LookupsLeft = 1 /\ LookupsLeft' = 0
      BY <3>1, LookupFacts
    <3>4. LookupsLeft' < LookupsLeft
      BY <3>3
    <3> QED BY <3>2, <3>4
  <2>3. /\ Remaining = 3 * M + 1 + (LookupsLeft + N + 1)
        /\ Remaining' = 3 * M + 1 + (LookupsLeft' + N + 1)
    BY <1>1, <1>3, <2>1, <2>2 DEF Remaining
  <2>4. LookupsLeft \in Nat /\ LookupsLeft' \in Nat
    BY DEF LookupsLeft
  <2>5. ASSUME NEW x \in Nat, NEW y \in Nat, y < x
        PROVE  3 * M + 1 + (y + N + 1) < 3 * M + 1 + (x + N + 1)
    <3> HIDE DEF M, N
    <3> QED BY <1>0, <2>5
  <2> QED BY <2>2, <2>3, <2>4, <2>5
<1>4. CASE ListSeries
  <2>1. candidates = <<>> /\ candidates' # <<>> /\ pc = "walk" /\ pc' = "walk"
    BY <1>4 DEF ListSeries
  <2>2. /\ Remaining = 3 * M + 1 + (LookupsLeft + N + 1)
        /\ Remaining' = 3 * M + 1 + Cardinality(DOMAIN listing')
    BY <2>1 DEF Remaining, Sources
  <2>3. /\ IsFiniteSet(DOMAIN listing') /\ Cardinality(DOMAIN listing') <= N
        /\ Cardinality(DOMAIN listing') \in Nat
    <3>1. DOMAIN listing' \in SUBSET Names
      BY DEF QInv, Typed
    <3> QED BY <3>1, FinitelyMany, FS_Subset, FS_CardinalityType
  <2>4. LookupsLeft \in Nat
    BY DEF LookupsLeft
  <2> HIDE DEF M, N
  <2> QED BY <1>0, <2>2, <2>3, <2>4
<1>5. CASE AddCandidate
  <2>1. PICK n \in DOMAIN listing : listing' = [m \in DOMAIN listing \ {n} |-> listing[m]]
    BY <1>5 DEF AddCandidate
  <2>2. candidates # <<>> /\ candidates' # <<>> /\ pc = "walk" /\ pc' = "walk"
    <3>1. candidates # <<>> /\ pc = "walk" /\ pc' = "walk"
      BY <1>5 DEF AddCandidate
    <3>2. candidates' # <<>>
      <4> DEFINE Cand == [tag : Names \cup Branches \cup Shas, sha : Shas]
      <4>1. candidates \in Seq(Cand)
        BY DEF QInv, Typed
      <4> HIDE DEF Cand
      <4>2. ASSUME NEW c, candidates' = Append(candidates, c) PROVE candidates' # <<>>
        BY <4>1, <4>2
      <4> QED BY <1>5, <3>1, <4>2 DEF AddCandidate
    <3> QED BY <3>1, <3>2
  <2>3. /\ Remaining = 3 * M + 1 + Cardinality(DOMAIN listing)
        /\ Remaining' = 3 * M + 1 + Cardinality(DOMAIN listing')
    BY <2>2 DEF Remaining, Sources
  <2>4. /\ Cardinality(DOMAIN listing') = Cardinality(DOMAIN listing) - 1
        /\ Cardinality(DOMAIN listing) \in Nat
    <3>1. DOMAIN listing' = DOMAIN listing \ {n}
      BY <2>1
    <3>2. IsFiniteSet(DOMAIN listing)
      BY BoundFacts
    <3> QED BY <3>1, <3>2, FS_RemoveElement, FS_CardinalityType
  <2> HIDE DEF M, N
  <2> QED BY <1>0, <2>3, <2>4
<1>6. CASE Walked
  <2>1. /\ candidates # <<>> /\ pc = "walk" /\ pc' = "release"
        /\ UNCHANGED <<candidates, i>>
    BY <1>6 DEF Walked
  <2>2. /\ Remaining = 3 * M + 1 + Cardinality(DOMAIN listing)
        /\ Remaining' = 3 * (Len(candidates) - i) + 3
    BY <2>1 DEF Remaining, Sources, QuestionsLeft
  <2>3. /\ Cardinality(DOMAIN listing) \in Nat /\ i \in Nat \ {0} /\ i <= Len(candidates)
        /\ Len(candidates) \in Nat /\ Len(candidates) <= M
    BY <2>1, BoundFacts
  <2> HIDE DEF M, N
  <2> QED BY <1>0, <2>2, <2>3
<1>7. CASE (AskRelease \/ AskMerged \/ AskCommitted) /\ pc' # "end"
  <2>1. pc \in Sources /\ candidates # <<>> /\ candidates' = candidates
    BY <1>7 DEF AskRelease, AskMerged, AskCommitted, Asks, Sources, QInv, Located
  <2>2. \/ pc' = "release" /\ i' = i + 1 /\ i < Len(candidates)
        \/ i' = i /\ pc' \in Sources /\ QuestionsLeft' < QuestionsLeft
    BY <1>7 DEF AskRelease, AskMerged, AskCommitted, Asks, Judge, Ends, Fails, Sources, QuestionsLeft
  <2>3. /\ Remaining = 3 * (Len(candidates) - i) + QuestionsLeft
        /\ Remaining' = 3 * (Len(candidates) - i') + QuestionsLeft'
    BY <1>1, <1>7, <2>1, <2>2 DEF Remaining, Sources
  <2>4. /\ i \in Nat /\ Len(candidates) \in Nat
        /\ QuestionsLeft \in 1 .. 3 /\ (pc' = "release" => QuestionsLeft' = 3)
        /\ QuestionsLeft' \in 1 .. 3
    BY BoundFacts DEF QuestionsLeft
  <2> QED BY <2>2, <2>3, <2>4
<1> QED BY <1>2, <1>3, <1>4, <1>5, <1>6, <1>7 DEF Pick, PinExempt, Ends

(* For every repository, policy and series the search takes at most three    *)
(* questions for each of MaxCandidates candidates, one step for each name,   *)
(* and eight more; nothing makes it start again.                             *)
THEOREM SearchBoundHolds ==
    Spec => SearchIsBounded /\ [](Remaining \in 0 .. 3 * MaxCandidates + Cardinality(Names) + 8)
<1>1. Init => SeriesInv
  BY Shapes DEF Init, SeriesInv, CandidatesDistinct
<1>2. QInv /\ SeriesInv /\ [Next]_vars => SeriesInv'
  BY NextDistinct
<1>3. QInv /\ SeriesInv => Remaining \in 0 .. 3 * MaxCandidates + Cardinality(Names) + 8
  BY RemainingFacts
<1>4. /\ QInv /\ SeriesInv /\ Answers
      /\ (QInv /\ SeriesInv)' /\ [Next]_vars
      => [IF moves' = moves THEN Remaining' < Remaining ELSE Remaining' = Remaining]_vars
  <2> SUFFICES ASSUME QInv, SeriesInv, Answers, (QInv /\ SeriesInv)', Next
               PROVE  IF moves' = moves THEN Remaining' < Remaining ELSE Remaining' = Remaining
    OBVIOUS
  <2>1. CASE Pick
    <3>1. moves' = moves
      BY <2>1 DEF Pick, ReadPolicy, Resolve, PinExempt, ListSeries, AddCandidate, Walked,
                  AskRelease, AskMerged, AskCommitted, Asks, repository
    <3> QED BY <2>1, <3>1, PickAdvances
  <2>2. CASE Upstream
    <3>1. moves' # moves
      <4>1. moves \in Nat
        BY DEF Answers
      <4> QED BY <2>2, <4>1 DEF Upstream
    <3>2. Remaining' = Remaining
      BY <2>2 DEF Upstream, Remaining, LookupsLeft, QuestionsLeft
    <3> QED BY <3>1, <3>2
  <2> QED BY <2>1, <2>2 DEF Next
<1> QED BY <1>1, <1>2, <1>3, <1>4, QInvHolds, AnswersHold, PTL DEF Spec, SearchIsBounded

=============================================================================

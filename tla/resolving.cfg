CONSTANTS
    c1 = c1
    c2 = c2
    c3 = c3
    o2 = o2
    None = None
    BadValue = BadValue
    MinCommitAge = 5
    Commits = {c1, c2, c3}
    Objects = {o2}
    CommitOf <- Peels
    Names <- FewNames
    Branches <- FewBranches
    Line <- FewLines
    PublicFor <- Public
    MergedFor <- Merged
    CommittedFor <- Committed
    FirstTags <- TagStates
    FirstReleases <- ReleaseStates
    FirstHeads <- FewHeads
    MaxCandidates = 3
    MaxMoves = 1
    Policies <- FewPolicies
    Me <- Action
    Series <- FewInOrder

SPECIFICATION FairStepSpec
INVARIANTS TypeOK TrustedAgeIsReal HeldBackForAReason CandidatesDistinct MostSpecificRules
PROPERTIES SearchIsBounded PickIsOneStep PickEnds
CHECK_DEADLOCK FALSE

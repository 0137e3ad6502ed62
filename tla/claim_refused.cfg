CONSTANTS
    c1 = c1
    c2 = c2
    c3 = c3
    o2 = o2
    None = None
    BadValue = BadValue
    MinCommitAge = 5
    Commits <- BusyCommits
    Objects = {}
    CommitOf <- BusyPeels
    Names <- BusyNames
    Branches <- BusyBranches
    Line <- BusyLines
    PublicFor <- BusyPublic
    MergedFor <- BusyMerged
    CommittedFor <- BusyPublic
    FirstTags <- BusyTags
    FirstReleases <- BusyReleases
    FirstHeads <- BusyHeads
    MaxCandidates = 8
    MaxMoves = 0
    Policies <- PlainPolicies
    Me <- Action

SPECIFICATION Spec
INVARIANTS RefusedMeansNoneAged
CHECK_DEADLOCK FALSE

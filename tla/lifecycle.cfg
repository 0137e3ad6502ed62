CONSTANTS
    a = a
    r = r
    v4 = v4
    v41 = v41
    v42 = v42
    s1 = s1
    s2 = s2
    s3 = s3
    f1 = f1
    f2 = f2
    d1 = d1
    d2 = d2
    None = None
    NoUse = NoUse
    Absent = Absent
    Partial = Partial
    Tampered = Tampered
    Torn = Torn
    Actions <- OneAction
    Repos = {r}
    RepoOf <- OneRepoOf
    Tags = {v4, v41}
    Shas = {s1, s2}
    Slots <- TwoSlots
    Files = {f1, f2}
    FileOf <- TwoFileOf
    Rank <- OneRank
    Trusted = {}
    Series <- OneSeries
    MaxCandidates = 8
    Dirs = {d1, d2}
    DirOf <- OneDirOf
    Invocations <- CycleRuns
    Bindings <- OneBindings
    Retirable <- CycleRetirable
    TypedRefs <- CycleTyped
    Edited = {}

SPECIFICATION Spec
INVARIANTS TypeOK AgeFloor SelectedTruthful GreenAfterRewrite
PROPERTIES NoSilentDrift NoPinDropped EveryUseIsListed

CONSTANTS
    a = a
    r = r
    v4 = v4
    v41 = v41
    v42 = v42
    s1 = s1
    s2 = s2
    s3 = s3
    f1 = f1
    f2 = f2
    d1 = d1
    d2 = d2
    None = None
    NoUse = NoUse
    Absent = Absent
    Partial = Partial
    Tampered = Tampered
    Torn = Torn
    Actions <- OneAction
    Repos = {r}
    RepoOf <- OneRepoOf
    Tags = {v4}
    Shas = {s1, s2}
    Slots <- OneSlot
    Files = {f1}
    FileOf <- OneFileOf
    Rank <- VendorRank
    Trusted = {}
    Series <- VendorSeries
    MaxCandidates = 8
    Dirs = {d1, d2}
    DirOf <- OneDirOf
    Invocations <- VendorRuns
    Bindings <- VendorBindings
    Retirable = {}
    TypedRefs <- CycleTyped
    Edited = {d1}

SPECIFICATION FairSpec
INVARIANTS IntegritySound AcceptedIsAudited UpdateTouchesOnlyMoved
PROPERTIES ForcedVendorComplete LedgerKept CommandIsBounded Terminates

CONSTANTS
    Texts <- AllTexts
    KeyLimit = 8
    KeyLike <- FewKeys
    Meaning <- SampleMeaning

SPECIFICATION FairSpec
INVARIANTS KeyPointsAtItsToken NothingLeftOpen ReadsWhatWasMeant LabFindsEverySlot
PROPERTIES ReadingEnds
CHECK_DEADLOCK FALSE

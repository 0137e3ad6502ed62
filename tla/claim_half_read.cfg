CONSTANTS
    Texts <- WrappedTexts
    KeyLimit = 8
    KeyLike <- FewKeys
    Meaning <- SampleMeaning

SPECIFICATION Spec
INVARIANTS LabReadsWholeTargets
CHECK_DEADLOCK FALSE

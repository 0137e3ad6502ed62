CONSTANTS
    p = p
    q = q
    act = act
    v4 = v4
    pin = pin
    main = main
    Other = Other
    Nowhere = Nowhere
    Broken = Broken
    Gone = Gone
    Unseen = Unseen
    None = None
    Files = {1, 2}
    Lines = {1, 2}
    Paths = {p, q}
    UseTargets <- AllTargets
    Actions = {act}
    Tags = {v4, main}
    Shas = {pin}
    Locked <- Lockfile
    NoUse = NoUse
    Torn = Torn
    PinOf <- Pins
    Written <- CreatedTexts
    MaxEdits = 1

SPECIFICATION Spec
PROPERTIES UntouchedIsPinned

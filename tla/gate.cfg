CONSTANTS
    Modules = {"init", "main"}
    Workflows = {"ci", "release"}
    MaxEdits = 1
    Unsplit = {"x"}
    Results <- FewResults

SPECIFICATION Spec
INVARIANTS AvailableIsPinned VendoringRepairs ScanForetells

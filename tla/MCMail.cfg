\* Two workers, two messages that carry one PDF, requests that outlive their workers.
SPECIFICATION Spec
CONSTANTS
    LastUid = 2
    f1 = f1
    f2 = f2
    Parts <- MCParts
    Contents = {f1, f2}
    Workers = {w1, w2}
    PageSize = 1
    MaxAttempts = 2
    MaxUploads = 1
    MaxDecisions = 1
    Faults = {"network", "decide"}
INVARIANTS CursorIsExact NoSecondCase DuplicatesAreLinked
PROPERTIES OnlyTheHolderWrites
SYMMETRY Symmetry
CHECK_DEADLOCK FALSE

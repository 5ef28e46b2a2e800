\* Three records on pages of one, a session good for two more requests, a source that changes.
SPECIFICATION Spec
CONSTANTS
    Records = {"a", "b", "c", "x", "y"}
    First <- MCFirst
    PageSize = 1
    MaxAttempts = 3
    MaxUses = 3
    Margin = 1
    Faults = {"lose", "expire", "refuse"}
    Changes = {"append", "insert", "drop_last"}
    MaxChanges = 3
INVARIANTS NeverPartial UsesLast
PROPERTIES DownloadEnds
CHECK_DEADLOCK FALSE

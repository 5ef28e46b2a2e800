\* One conversation, one norm that becomes guidance and new rules; the server may start without its database.
SPECIFICATION Spec
CONSTANTS
    Configs = {c1, c2}
    Start = c1
    Norms = {n1}
    Deterministic = {}
    Ops = {"create", "sessions"}
    Faults = {"database"}
    MaxRules = 2
    MaxCodes = 2
    MaxVersions = 3
    MaxRevision = 2
    MaxTurns = 4
    MaxPast = 1
INVARIANTS PreviewIsOfThePlan NormsSurvive
CHECK_DEADLOCK FALSE

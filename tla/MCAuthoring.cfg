\* Rules, their compilations and one norm that becomes a rule share a draft; the server dies at any moment.
SPECIFICATION Spec
CONSTANTS
    Configs = {c1}
    Start = c1
    Norms = {n1}
    Deterministic = {n1}
    Ops = {"draft", "create", "compile", "select"}
    Faults = {"crash"}
    MaxRules = 2
    MaxCodes = 2
    MaxVersions = 3
    MaxRevision = 2
    MaxTurns = 1
    MaxPast = 0
INVARIANTS TypeOK PublishedRulesAreChecked NormsSurvive
PROPERTIES CompilingEnds
CHECK_DEADLOCK FALSE

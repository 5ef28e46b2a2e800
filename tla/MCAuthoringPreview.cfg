\* A recompilation of a retired rule lands after the rule was enforced again, and a conversation previews the older artifact.
SPECIFICATION Spec
CONSTANTS
    Configs = {c1}
    Start = c1
    Norms = {}
    Deterministic = {}
    Ops = {"compile", "select", "sessions"}
    Faults = {}
    MaxRules = 2
    MaxCodes = 3
    MaxVersions = 4
    MaxRevision = 3
    MaxTurns = 4
    MaxPast = 0
PROPERTIES PublishesItsPreview
CHECK_DEADLOCK FALSE

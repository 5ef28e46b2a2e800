\* Two requests carry one key while a case arrives, is read again, asked about and resolved.
SPECIFICATION Spec
CONSTANTS
    Instances = {i1}
    Readings = {full, part}
    NoReading = none
    Symbols = {"order", "iban"}
    Has <- MCHas
    Sources = {}
    Connected = {}
    Live = {}
    Contents = {ok}
    NoRows = norows
    Snapshots = {s2}
    NoSnapshot = nosnapshot
    Types = {Pay, Stop, Review}
    TypesOf <- MCTypesOf
    Human <- MCHuman
    Default <- MCDefault
    Escalation <- MCEscalation
    Required <- MCRequired
    Declared <- MCDeclared
    Reads <- MCReads
    Reviewed <- NoReview
    WellFormed <- MCGood
    ExamplesHold <- MCGood
    RunRules <- MCRunRules
    Clients = {c1, c2}
    People = {ana}
    Keys = {k1}
    NoKey = nokey
    Engine = engine
    First = s2
    Ops = {"upload", "reextract", "run", "selection", "resolve", "propose", "crash"}
    MaxHistory = 3
    MaxExecutions = 2
    MaxLoads = 0
    MaxVersions = 1
    MaxRevision = 1
    MaxChanges = 0
    MaxProposals = 1
    ok = ok
    bad = bad
    s1 = s1
    part = part
    Pay = Pay
    Stop = Stop
    Review = Review
INVARIANTS DecidedHasHistory OneExecutionPerKey AcceptedIsTheNextDecision
SYMMETRY Symmetry
CHECK_DEADLOCK FALSE

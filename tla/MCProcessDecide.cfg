\* Two requests run and reprocess one case that people resolve and the reviewer may hold.
SPECIFICATION Spec
CONSTANTS
    Instances = {i1}
    Readings = {full}
    NoReading = none
    Symbols = {"order", "iban"}
    Has <- MCHas
    Sources = {erp}
    Connected = {erp}
    Live = {erp}
    Contents = {ok, bad}
    NoRows = norows
    Snapshots = {s1}
    NoSnapshot = nosnapshot
    Types = {Pay, Stop, Review}
    TypesOf <- MCTypesOf
    Human <- MCHuman
    Default <- MCDefault
    Escalation <- MCEscalation
    Required <- MCRequired
    Declared <- MCDeclared
    Reads <- MCReads
    Reviewed <- WithReview
    WellFormed <- MCGood
    ExamplesHold <- MCGood
    RunRules <- MCRunRules
    Clients = {c1, c2}
    People = {ana}
    Keys = {}
    NoKey = nokey
    Engine = engine
    First = s1
    Ops = {"upload", "run", "reprocess", "resolve", "outage", "failures"}
    MaxHistory = 2
    MaxExecutions = 2
    MaxLoads = 2
    MaxVersions = 1
    MaxRevision = 1
    MaxChanges = 1
    MaxProposals = 0
    ok = ok
    bad = bad
    s1 = s1
    part = part
    Pay = Pay
    Stop = Stop
    Review = Review
INVARIANTS TypeOK ReplayMatches
PROPERTIES HumanWordStands 
SYMMETRY Symmetry
CHECK_DEADLOCK FALSE

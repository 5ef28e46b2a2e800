\* One request at a time: every change of data or rules flags the past it changes.
SPECIFICATION Spec
CONSTANTS
    Instances = {i1}
    Readings = {full}
    NoReading = none
    Symbols = {"order", "iban"}
    Has <- MCHas
    Sources = {erp}
    Connected = {erp}
    Live = {erp}
    Contents = {ok, bad}
    NoRows = norows
    Snapshots = {s1, s2}
    NoSnapshot = nosnapshot
    Types = {Pay, Stop, Review}
    TypesOf <- MCTypesOf
    Human <- MCHuman
    Default <- MCDefault
    Escalation <- MCEscalation
    Required <- MCRequired
    Declared <- MCDeclared
    Reads <- MCReads
    Reviewed <- NoReview
    WellFormed <- MCGood
    ExamplesHold <- MCGood
    RunRules <- MCRunRules
    Clients = {c1}
    People = {ana}
    Keys = {}
    NoKey = nokey
    Engine = engine
    First = s1
    Ops = {"upload", "run", "reprocess", "sync", "ack", "workbook", "draft", "publish"}
    MaxHistory = 2
    MaxExecutions = 2
    MaxLoads = 3
    MaxVersions = 2
    MaxRevision = 1
    MaxChanges = 1
    MaxProposals = 0
    ok = ok
    bad = bad
    s1 = s1
    part = part
    Pay = Pay
    Stop = Stop
    Review = Review
 
PROPERTIES PublishedOnCurrentEvidence
CHECK_DEADLOCK FALSE

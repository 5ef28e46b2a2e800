\* Two managers validate, discard and publish a draft that rule authors stage, while a case is decided and resolved.
SPECIFICATION Spec
CONSTANTS
    Instances = {i1}
    Readings = {part}
    NoReading = none
    Symbols = {"order", "iban"}
    Has <- MCHas
    Sources = {}
    Connected = {}
    Live = {}
    Contents = {ok}
    NoRows = norows
    Snapshots = {s1, s2}
    NoSnapshot = nosnapshot
    Types = {Pay, Stop, Review}
    TypesOf <- MCTypesOf
    Human <- MCHuman
    Default <- MCDefault
    Escalation <- MCEscalation
    Required <- MCRequired
    Declared <- MCDeclared
    Reads <- MCReads
    Reviewed <- NoReview
    WellFormed <- MCGood
    ExamplesHold <- MCGood
    RunRules <- MCRunRules
    Clients = {c1, c2}
    People = {ana}
    Keys = {}
    NoKey = nokey
    Engine = engine
    First = s2
    Ops = {"upload", "run", "resolve", "stage", "publish", "discard"}
    MaxHistory = 1
    MaxExecutions = 1
    MaxLoads = 0
    MaxVersions = 2
    MaxRevision = 1
    MaxChanges = 0
    MaxProposals = 0
    ok = ok
    bad = bad
    s1 = s1
    part = part
    Pay = Pay
    Stop = Stop
    Review = Review
 
PROPERTIES PublishWhatWasApproved
SYMMETRY Symmetry
CHECK_DEADLOCK FALSE

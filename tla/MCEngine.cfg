\* Three rules on two threads over one document: priorities, ties, down sources, doubts.
SPECIFICATION Spec
CONSTANTS
    pay = pay
    reject = reject
    hold = hold
    escalate = escalate
    erp = erp
    total = total
    AnySource = any
    NRules = 3
    Instances = {i1}
    Types <- MCTypes
    Priority <- MCPriority
    Default = pay
    Escalate = escalate
    Required = {total}
    Sources = {erp}
    RuleWorkers = 2
    RuleShapes <- MCRules
    DocShapes <- MCDocs
INVARIANTS TypeOK RobustVerdict EscalatesOnlyWhenOpen DoubtReachesAPerson
PROPERTY EveryInstanceDecided
CHECK_DEADLOCK FALSE

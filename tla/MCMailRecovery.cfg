\* One worker, every fault: crashes, refusals, outages, retries and people.
SPECIFICATION Spec
CONSTANTS
    LastUid = 1
    f1 = f1
    f2 = f2
    Parts <- MCOneMessage
    Contents = {f1, f2}
    Workers = {w1}
    PageSize = 1
    MaxAttempts = 2
    MaxUploads = 1
    MaxDecisions = 1
    Faults = {"network", "missing", "retry", "upload", "crash", "backend", "unread", "renumber", "operator", "imap_unavailable"}
INVARIANTS TypeOK KeyKeepsItsSelection CompletedIsDecided
PROPERTIES LedgerSpec EveryMessageEnds
CHECK_DEADLOCK FALSE

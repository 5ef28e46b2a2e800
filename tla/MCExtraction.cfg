\* Two workers and a request read two variants of one page; one provider, every fault.
SPECIFICATION Spec
CONSTANTS
    Workers = {w1, w2}
    Requests = {r1}
    k1 = k1
    k2 = k2
    page = page
    gemini = gemini
    helmcode = helmcode
    Keys = {k1, k2}
    Calls = {page}
    CallOf <- MCCallOf
    Stripes = {k1, k2}
    StripeOf <- MCOwnStripes
    Chain <- MCOneProvider
    Slots = 2
    Lines = 1
    MaxQueued = 1
    Faults = {"crash", "deadline", "refuse", "lose"}
    MaxJobs = 2
    MaxAttempts = 2
    MaxRestarts = 1
INVARIANTS TypeOK NoSecondDelivery NoDoubleReading CachedIsAnswered QueueBounded
PROPERTIES EveryJobEnds

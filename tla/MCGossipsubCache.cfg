\* A message to be validated (a), one to be forwarded (b), one too large (c) and one
\* of a topic that is not subscribed (d); two cache slots, one validation slot.
CONSTANTS
    a = a
    b = b
    c = c
    d = d
    Msgs = {a, b, c, d}
    NoMsg = NoMsg
    RequireApp = {a}
    Unwanted = {d}
    Size <- MCSize
    SeenEntries = 2
    McacheSlots = 2
    McacheBytes = 2
    PendingValidations = 1
    EventCapacity = 1
    SeenTtl = 3
    ValidationTtl = 1
    McacheLen = 0
    HeartbeatInterval = 2
    MaxElapsed = 2
SPECIFICATION FairSpec
INVARIANTS
    CacheIntact
    ValidationsReachable
PROPERTIES
    DuplicateWindow
    ValidationReclaimed

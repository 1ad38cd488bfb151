\* Two routers, up to two frames on each stream, a backoff of one time unit.
CONSTANTS
    PruneBackoff = 1
    MaxInFlight = 2
SPECIFICATION Spec
INVARIANTS
    QuietAgreed

SPECIFICATION Spec
CONSTANTS
    Conns = {a, b}
    None = None
    MaxConns = 2
    MaxOutgoing = 1
    MaxIncoming = 1
    RxBudget = 1
    RingCap = 2
    EventCap = 1
INVARIANTS
    NoDangling
    EndReportedOnce
    ClosedLast
    CloseNotForgotten
SYMMETRY Symmetry

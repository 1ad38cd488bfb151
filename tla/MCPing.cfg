SPECIFICATION Spec
CONSTANTS
    Conns = {c1}
    NumSlots = 2
    NumHandles = 2
    EventCapacity = 2
    Payloads <- OnePayload
    NoConn = NoConn
    NoStream = NoStream
    MaxStreams = 2
    MaxInbound = 1
    MaxPeerBytes = 3
CHECK_DEADLOCK FALSE
INVARIANTS
    PongHonest
    EchoFaithful
    SlotsBacked
CONSTRAINT Clean

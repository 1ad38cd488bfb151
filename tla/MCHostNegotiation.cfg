\* Two protocols; frames of two units, buffers of three, four units on the wire.
SPECIFICATION FairSpec
CONSTANTS
    Protocols <- MCProtocols
    MaxListed = 1
    InCapacity = 3
    MaxFlight = 4
    MaxData = 2
INVARIANTS
    Agreement
    DataIntact
PROPERTIES
    NegotiationEnds
CHECK_DEADLOCK FALSE

\* Two peers, one topic: one slot in the subscription table and one in the backoff table.
CONSTANTS
    MaxPeers = 2
    MaxTopics = 1
    MaxPeerTopics = 1
    MaxMeshEdges = 2
    MaxBackoffs = 1
    D = 1
    DLow = 1
    DHigh = 1
    DLazy = 1
    GossipFactor = 250000
    PruneBackoff = 3
    PeerBackoffs = {1, 2}
SPECIFICATION Spec
INVARIANTS
    MeshCountExact
    PeersTold
PROPERTIES
    BackoffKept

SPECIFICATION HSpec
CONSTANTS
    Replay = {r1, r2, r3}
    Byte = {0, 1}
    TargetQuorumSize = 2
    StreamCmpDistance = 2
    ChunkSize = 1
    MaxData = 2
    UsizeMax = 9
SYMMETRY Symmetry
INVARIANTS
    LoneReplayNeverWinsAtAll

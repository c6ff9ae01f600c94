SPECIFICATION Spec
CONSTANTS
    Replay = {r1, r2, r3}
    Byte = {0, 1}
    TargetQuorumSize = 3
    StreamCmpDistance = 3
    ChunkSize = 3
    MaxData = 3
    UsizeMax = 9
SYMMETRY Symmetry
CONSTRAINT OneBurst
INVARIANTS
    QuorumMatchesCanon

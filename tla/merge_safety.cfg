SPECIFICATION FairSpec
CONSTANTS
    Replay = {r1, r2}
    Byte = {0, 1}
    TargetQuorumSize = 2
    StreamCmpDistance = 1
    ChunkSize = 2
    MaxData = 3
    UsizeMax = 9
INVARIANTS
    TypeOK
    NoDiscardedRead
    FinishAssertions
PROPERTIES
    ImplementsContract
    QuorumEnds
    EventuallyFinished

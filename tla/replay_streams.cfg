SPECIFICATION FairSpec
CONSTANTS
    Writer = {w1, w2}
    Reader = {r1, r2}
    ChunkSize = 3
    CopySize = 2
    HeaderSize = 3
    MaxData = 4
    UsizeMax = 7
INVARIANTS
    DequesAreWindows
    UnmergedDataIsHeld
    ReadersSeeThePrefix
    NoLostWakeup
PROPERTIES
    EveryReaderIsServed
CHECK_DEADLOCK FALSE

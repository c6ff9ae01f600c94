SPECIFICATION FairSpec
CONSTANTS
    Writer = {w1, w2}
    Reader = {r1, r2}
    EmptyTime = 2
INVARIANTS
    CountersAreExact
    NoWriterAfterFinalize
PROPERTIES
    ImplementsPhases
    CancelEndsReplay
    EndsByItself

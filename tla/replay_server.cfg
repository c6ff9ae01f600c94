SPECIFICATION FairSpec
CONSTANTS
    Connection = {c1, c2, c3}
    ReplayId = {1, 2}
    Workers = 2
INVARIANTS
    OneReplayPerId
    NothingLeftAtExit
PROPERTIES
    ReplaysKeepPhases
    NobodyIsStuck
    ShutdownCompletes

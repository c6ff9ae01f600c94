SPECIFICATION FairSpec
CONSTANTS
    Delay = 5
    Sleep = 2
    MaxData = 3
INVARIANTS
    DelayHonoured
PROPERTIES
    ImplementsPositions
    EveryByteIsPublished

SPECIFICATION OutcomeSpec
CONSTANTS
    MaxReplays = 3
    MaxBlocks = 2
    NULL = NULL
    Id = 1
    PlainName <- MCPlainName
    Stuff <- MCStuff
    Database <- MCDatabase
INVARIANTS
    SavingTypeOK
    AvailableIsTheWholeFile
    JsonDescribesTheGame
    LostForCauseOnly
PROPERTIES
    OneAuthorPerFile

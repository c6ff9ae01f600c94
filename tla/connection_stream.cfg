SPECIFICATION Spec
CONSTANTS
    Payload <- MCPayload
    WriterType <- P
    ReaderType <- G
    Slash = 2
    Digit <- MCDigit
    NotText <- MCNotText
    LineLimit = 4
    MaxSize = 16
    CopySize = 2
    CountSize = 1
    VersionGap = 1
    MapGap = 1
    NoPlayer = 2
INVARIANTS
    NothingLostOrReread
    CompleteIsWhole
    HeadersAreTheLanguage

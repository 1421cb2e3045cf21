SPECIFICATION Spec
CONSTANTS
    PrefixLen = 2
    MaxMessageSize = 2
    Frames <- MCFrames
    MaxFrames = 2
INVARIANTS
    TypeOK
    InSync
    OneItemPerFrame
    NoSilentTruncation
PROPERTIES
    DoneIsFinal
    EveryStreamEnds

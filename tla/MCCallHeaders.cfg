SPECIFICATION Spec
CONSTANTS
    Units <- MCUnits
    MaxValue = 4
    Second = 3
    MaxU64 = 100
    MaxSize = 3
    AsciiKeys = {"a"}
    BinKeys = {"b-bin"}
    BadKeys = {"a!"}
    Capitals <- MCCapitals
    Values <- MCValues
    Texts <- MCTexts
    Printable = {"x", "y", "z", "h"}
    Utf8 <- MCUtf8
    Replacement <- MCReplacement
    Scopes <- MCScopes
    MaxInstant = 52
    MaxEntries = 3
    MaxRaw = 2
INVARIANTS TypeOK DeadlinesAgree PeersAgree MessagesDecode MetadataArrives StatusSurvives
CHECK_DEADLOCK FALSE

SPECIFICATION Spec
CONSTANTS
    Top = 11
    MaxSize = 6
    Byte <- Three
    Width = 2
    MaxMoves = 2
    Images <- Target
    Calls <- Asked
    Chunk = 4
    Base = 3
    MaxPattern = 2
    MaxLength = 8
    FirstScans <- Scanned
    NextScans <- Refined
    AobScans <- Patterns
INVARIANTS TypeOK ScanIsExact RefineIsExact BatchIsAPrefix ChainIsAnchored
PROPERTY WritesAreExact
CHECK_DEADLOCK FALSE

CONSTANTS
    Lines = {0, 1, 2}
    CoreSize <- ThreeAndOne
    LinesPerChunk = 3
    Percent <- Thirds
    FlushMax = 1
    MaxWrites = 1
    MaxChanges = 1
    MaxErrors = 1
SPECIFICATION MCSpec
INVARIANTS AcpSound AlruSound
PROPERTIES EverythingDrains
CHECK_DEADLOCK FALSE

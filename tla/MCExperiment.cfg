SPECIFICATION Spec

CONSTANTS
    Lists <- TheLists
    Null = Null
    MaxNodes = 6
    Sounds <- TheSounds
    Beats <- TheBeats
    Chunk = 3
    MaxTime = 2
    MaxExtra = 2
    Gap = 1
    MaxElapsed = 2

    Views = {0, 1}
    Loop = 1
    MaxMoves = 3

CHECK_DEADLOCK FALSE

INVARIANTS
    TypeOK
    QueuesInOrder
    InSync
    HandlersOfExpanded
    NothingLocked

PROPERTIES
    EverythingFires
    RecordingEnds

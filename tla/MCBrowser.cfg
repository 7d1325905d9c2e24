SPECIFICATION BrowserSpec

CONSTANTS
    Users = {u1, u2}
    Sessions = {s1, s2}
    None = None
    MaxCalls = 3
    MaxClicks = 4
    MaxFaults = 3
    MaxVisits = 4
    Patient = TRUE

    Fade = 2
    Delay = 1
    Long = 2
    TotalBeats = 2
    NoteLength = 3
    LookAhead = 2
    Interval = 2
    MaxBehind = 2
    MaxTicks = 1
    MaxToggles = 2
    MaxHides = 1

    LoopBeats = 2
    ArpBeats = 2
    Voices = {1, 2}
    Stored <- TheStored
    MaxNotes = 1
    MaxTracks = 3

    GridCount = 5
    StoredStrings <- TheStrings
    MaxReloads = 1

    Drums = {1, 2}
    BeatModulo = 2
    KitBeats = 4
    MaxBalls = 2

    MaxRows = 2
    MaxCols = 2
    MaxWaves = 1

    Names = {1, 2}
    Default <- TheDefault
    Edits <- TheEdits

    Subpages <- TheSubpages
    NoSection = NoSection
    MaxNavigations = 3
    MaxFailures = 1

    EaseInTime = 2
    WaitTime = 2
    EaseOutTime = 2
    Second = 5
    Minute = 12
    Hour = 2
    Day = 2
    RippleTime = 14
    Rooms = {1, 3}
    Begins = {0, 17}
    Dates = {66}
    LoadTime = 0
    MaxFrame = 2
    MaxGap = 9
    MaxGaps = 1
    MaxResizes = 1

    Markers <- SevenMarkers
    Counts = {1, 2, 3, 4, 5, 6, 7}
    Targets <- Clicks
    Limits = {9, 13}
    Infinity = 1000

CHECK_DEADLOCK FALSE

INVARIANTS
    BrowserTypeOK
    
    OwnChanges
    
    SoundAsShown
    HeardIsShared
    StageAgrees
    KitInOrder
    
    Settles
    CountdownRight
    GlobeExact

PROPERTIES
    ScheduledInTime
    ColourNeverBack

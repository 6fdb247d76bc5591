CONSTANTS
    None = None
    Exposures = {e1, e2}
    Values = {1, 2}
    DefaultValue = 1
    MaxWidth = 2
    MaxHeight = 2
    ReconnectDelay = 2
    Windows <- CornerWindow
    Binnings = {1, 2}
    Addresses = {1, 2, 3, 4, 5}
    AndorBinnings = {0, 1}
    RingSize = 2
    MaxFaults = 1
    Areas = {"full", "window", "invalid"}
    ValidAreas = {"full", "window"}
    FullArea = "full"
    MaxFrames = 2
    MaxMemory = 5
    MaxRefusals = 1
    Names = {"a", "b"}
    Connections = {"c"}
    Timeouts = {0}
    MaxCommands = 2
    MaxTime = 1
    DayLength = 24
    Million = 4
    Thousand = 2
    Zone = 3
    Deltas <- Increments
    LastSecond = 60
    LineLength = 6
    ParameterNames = {"a", "b", "c", "d"}
    PatternLists <- SomePatterns
    MaxTokens = 5
    PictureLength = 2
    MaxSeries = 1
    MaxPictures = 3
    MaxPending = 2
    MaxConnections = 2
    FirstYear = 1899
    LastYear = 2001
    MorningHour = 2
SPECIFICATION PartSpec
INVARIANTS     FramesTellTheirSettings OneOutcome   LinesAreTokens  
PROPERTIES Reconnects NoneSkipped 
CHECK_DEADLOCK FALSE

CONSTANTS
    ServerMax = 2
    GrabberMax = 2
    StorageMax = 2
    MaxFilesPerDir = 2
    Objects = {obj}
    NoDirectory = NoDirectory
    Sizes = {1}
    Countdowns = {}
    Commands = {"start", "stop", "storage_start", "exit"}
    MaxCommands = 3
    MaxFrames = 2
SPECIFICATION FairSpec
INVARIANT ExitIsOrderly
PROPERTIES ShutdownCompletes FramesSettle

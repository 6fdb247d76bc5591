CONSTANTS
    ServerMax = 2
    GrabberMax = 2
    StorageMax = 2
    MaxFilesPerDir = 2
    Objects = {obj}
    NoDirectory = NoDirectory
    Sizes = {1}
    Countdowns = {1}
    Commands = {"start", "set_countdown", "exit"}
    MaxCommands = 3
    MaxFrames = 1
SPECIFICATION FairSpec
PROPERTY ShutdownCompletes

CONSTANTS
    ServerMax = 2
    GrabberMax = 2
    StorageMax = 2
    MaxFilesPerDir = 2
    Objects = {obj}
    NoDirectory = NoDirectory
    Sizes = {1}
    Countdowns = {2}
    Commands = {"start", "stop", "storage_start", "set_countdown"}
    MaxCommands = 3
    MaxFrames = 3
SPECIFICATION Spec
INVARIANTS TypeOK OneOwner WrittenInOrder StopComesLast
PROPERTY ImplementsFrameFlow

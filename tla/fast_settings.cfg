CONSTANTS
    ServerMax = 2
    GrabberMax = 2
    StorageMax = 3
    MaxFilesPerDir = 2
    Objects = {obj1, obj2}
    NoDirectory = NoDirectory
    Sizes = {1, 2}
    Countdowns = {}
    Commands = {"start", "set_grabber", "storage_start", "storage_stop", "set_object"}
    MaxCommands = 3
    MaxFrames = 3
SPECIFICATION Spec
INVARIANTS AveragesAreExact 

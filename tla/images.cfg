CONSTANTS
    None = None
    Sizes <- SmallAndLarge
    Regions <- SomeRegions
    Darks <- OnlySmall
    RunningTimes = {2}
    Postprocess = {1}
    Zooms = {0}
    JpegParams = {j1, j2}
    Exposure = 1
    StorePeriod = 1
    MaxFrames = 3
    MaxTime = 2
SPECIFICATION Spec
INVARIANTS SumsAreExact RunningSumsAreDisjoint PreviewsAreFresh 

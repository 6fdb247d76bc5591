CONSTANTS
    Adders = {a1, a2}
    Getters = {g1}
    Message = {m1, m2, m3}
    NoThread = NoThread
    MaximalLength = 2
    Waits = TRUE
SPECIFICATION FairSpec
INVARIANT NoSleepOnMessage
PROPERTIES EveryMessageLeaves ImplementsFifo

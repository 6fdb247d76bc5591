CONSTANTS
    Adders = {a1, a2}
    Getters = {g1, g2}
    Message = {m1, m2}
    NoThread = NoThread
    MaximalLength = 0
    Waits = TRUE
SPECIFICATION Spec
PROPERTY AddWakesAWaiter

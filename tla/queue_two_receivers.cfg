CONSTANTS
    Adders = {a1, a2}
    Getters = {g1, g2}
    Message = {m1, m2, m3, m4}
    NoThread = NoThread
    MaximalLength = 2
    Waits = TRUE
SPECIFICATION Spec
SYMMETRY Symmetry
INVARIANTS TypeOK FifoOrder Limit

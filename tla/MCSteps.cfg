SPECIFICATION Spec
CONSTANTS
    Writers = {w1, w2}
    Addrs = {a1, a2, a3}
    NoAddr = NoAddr
    NoWriter = NoWriter
    Zero = Zero
    MaxData = 2
    U32 = 5
    Lens = {0, 1, 2, 3}
    MaxCalls = 3
    MaxFiles = 3
    Encrypted = TRUE
SYMMETRY WritersSymmetry
INVARIANTS TypeOK MappedIfRecent OneSwitcher

SPECIFICATION Spec
CONSTANTS
    Writers = {w1, w2}
    Addrs = {a1, a2, a3}
    NoAddr = NoAddr
    NoWriter = NoWriter
    Zero = Zero
    MaxData = 3
    U32 = 64
    Lens = {1, 2}
    MaxCalls = 2
    MaxFiles = 3
    Encrypted = TRUE
SYMMETRY WritersSymmetry
INVARIANTS NoFault

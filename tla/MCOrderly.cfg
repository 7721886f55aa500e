SPECIFICATION OrderlySpec
CONSTANTS
    Writers = {w1, w2}
    Addrs = {a1, a2, a3}
    NoAddr = NoAddr
    NoWriter = NoWriter
    Zero = Zero
    MaxData = 2
    U32 = 64
    Lens = {1, 2}
    MaxCalls = 3
    MaxFiles = 4
    Encrypted = FALSE
SYMMETRY WritersSymmetry
INVARIANTS Gapless Sealed SwitchesItsOwnFile

SPECIFICATION OrderlySpec
CONSTANTS
    Writers = {w1, w2}
    Addrs = {a1, a2}
    NoAddr = NoAddr
    NoWriter = NoWriter
    Zero = Zero
    MaxData = 2
    U32 = 64
    Lens = {1, 2}
    MaxCalls = 2
    MaxFiles = 2
    Encrypted = TRUE
INVARIANTS Intact
PROPERTIES CallsReturn ImplementsLzLog

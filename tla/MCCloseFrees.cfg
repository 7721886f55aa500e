SPECIFICATION HSpec
CONSTANTS
    Writers = {w1}
    Users = {u1}
    Addrs = {a1, a2, a3}
    NoAddr = NoAddr
    NoWriter = NoWriter
    Zero = Zero
    MaxData = 2
    U32 = 64
    Lens = {1}
    MaxCalls = 1
    MaxOps = 1
    MaxFiles = 2
    Encrypted = FALSE
SYMMETRY HandleSymmetry
INVARIANTS StartedCallsEnd

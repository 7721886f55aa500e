SPECIFICATION CarefulSpec
CONSTANTS
    Writers = {w1, w2}
    Users = {u1}
    Addrs = {a1, a2, a3}
    NoAddr = NoAddr
    NoWriter = NoWriter
    Zero = Zero
    MaxData = 2
    U32 = 64
    Lens = {1, 2}
    MaxCalls = 2
    MaxOps = 1
    MaxFiles = 3
    Encrypted = FALSE
SYMMETRY HandleSymmetry
INVARIANTS NoFault Disjoint Intact HandleTypeOK UsersMapped ExportHoldsAnswered ExportCutsNoMessage FlushSyncs CloseSyncs

SPECIFICATION Spec
CONSTANTS
    Block = 3
    Half = 2
    Radix = 2
    DataSize = 11
    Lens = {3, 4}
    Passwords = {p1, p2}
    NoPassword = NoPassword
    Salts = {s1, s2}
    NoSalt = NoSalt
INVARIANTS KSTypeOK StoredReadable ToolShowsLog

SPECIFICATION Spec
CONSTANTS
    DailyFiles = 2
    Sizes = {2}
    Lens = {1, 2}
    Retentions = {}
    MaxDay = 0
    MaxInodes = 4
    MaxMsgs = 4
INVARIANTS NewestFileReopens

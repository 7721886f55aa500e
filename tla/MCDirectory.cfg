SPECIFICATION Spec
CONSTANTS
    DailyFiles = 2
    Sizes = {1, 2}
    Lens = {1, 2}
    Retentions = {1}
    MaxDay = 1
    MaxInodes = 4
    MaxMsgs = 3
INVARIANTS TypeOK Decryptable UsedCoversData
PROPERTIES NeverOverwritten OnlyDueFilesGo

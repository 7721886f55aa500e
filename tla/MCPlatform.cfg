SPECIFICATION CarefulSpec
CONSTANTS
    Owners = {m}
    Callers = {k}
    Cleaners = {c1}
    Contexts = {x1, x2}
    Null = Null
    Levels = {1, 3}
    Cap = 8
    Sizes = {7, 8}
INVARIANTS PlatformTypeOK TakesEffect UsesLive NoneForgotten LinesEnd
PROPERTIES CleanUpRuns

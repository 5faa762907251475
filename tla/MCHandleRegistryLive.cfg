\* Two host threads with calls nested two deep, two openings; no symmetry,
\* because the property is a liveness property.
SPECIFICATION FairSpec
CONSTANTS
    Threads = {t1, t2}
    Entries = {e1, e2}
    NoEntry = NoEntry
    MaxHandle = 3
    MaxDepth = 2
CHECK_DEADLOCK FALSE
PROPERTIES
    ClosedIsReleased

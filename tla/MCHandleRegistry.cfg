\* Two host threads with calls nested two deep, three openings of which two
\* get a handle.
SPECIFICATION Spec
CONSTANTS
    Threads = {t1, t2}
    Entries = {e1, e2, e3}
    NoEntry = NoEntry
    MaxHandle = 3
    MaxDepth = 2
SYMMETRY Symmetry
CHECK_DEADLOCK FALSE
INVARIANTS
    ContextOutlivesCalls
    OneOperationAtATime
    HandlesNeverReused

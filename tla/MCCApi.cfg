\* Every raw and every managed entry point; two threads on one raw handle, one card
\* change, sessions of two commands.
SPECIFICATION ApiSpec
CONSTANTS
    Threads = {t1, t2}
    MaxGeneration = 2
    MaxCount = 2
    Unused = Unused
    NestedEntries <- MCNestedEntries
    MaxDepth = 2
SYMMETRY Symmetry
INVARIANTS
    ApiTypeOK
    ApiNotSentUnheard
    RawSessionsAgree
    ApiNothingLeaks
    ApiOutputsAreOwn

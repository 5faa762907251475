\* Every pair of modes validate() lets pass, a counter of 0..2, two
\* handshakes.
SPECIFICATION Spec
CONSTANTS
    Requests <- AllRequests
    MaxCounter = 2
    MaxSessions = 2
INVARIANTS
    NoCounterReuse
    ResponseIsFresh
    CountersInStep

\* Every pair of modes validate() lets pass: what is told of the delivery.
SPECIFICATION Spec
CONSTANTS
    Requests <- AllRequests
    MaxCounter = 2
    MaxSessions = 1
INVARIANTS
    NotSentMeansUnexecuted

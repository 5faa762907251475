\* The bindings with two claimants of one reader; fairness of each binding's threads.
SPECIFICATION FairSpec
CONSTANTS
    Hosts <- Bindings
    worker = worker
    second = second
    manager = manager
    handle = handle
    NodeSessions = {1, 2}
    NodeTasks = {1}
    MaxFrames = 1
    MaxCalls = 2
    KotlinThreads = {worker, second}
    KotlinEntries <- QueuedEntries
    PythonCards = {1, 2}
    PythonTasks = {1}
    PythonInterruptions = 2
    SwiftInterruptions = 1
    ReaderLists <- NoList
    Malformed = {}
    MaxActivations = 1
PROPERTIES
    HostReaderIsExclusive
    HostCallsReturn
CHECK_DEADLOCK FALSE

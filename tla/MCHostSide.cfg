\* Each component with one reader, two operations or threads, and every entry point.
SPECIFICATION Spec
CONSTANTS
    Hosts <- Everything
    worker = worker
    second = second
    manager = manager
    handle = handle
    NodeSessions = {1}
    NodeTasks = {1, 2}
    MaxFrames = 2
    MaxCalls = 3
    KotlinThreads = {worker, manager}
    KotlinEntries <- EveryEntry
    PythonCards = {1}
    PythonTasks = {1, 2}
    PythonInterruptions = 3
    SwiftInterruptions = 2
    ReaderLists <- Lists
    Malformed <- Faulty
    MaxActivations = 3
INVARIANTS
    HostTypeOK
    
    HostCallbacksAreSafe
    HostAnswersAreOwn
    HostKeysWiped
CHECK_DEADLOCK FALSE

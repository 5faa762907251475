\* Two callers that compete for the channel.
SPECIFICATION FairSpec
CONSTANTS
    c1 = c1
    c2 = c2
    Callers = {c1, c2}
    Requests <- TwoRequests
    MaxTransmit = 3
    MaxReceive = 1
    MaxNativeFrame = 4
    Framing = "direct"
    MaxChainFrames = 2
    MaxGeneration = 1
INVARIANTS
    ChainUnbroken
PROPERTIES
    EveryCallReturns
    ImplementsContract
